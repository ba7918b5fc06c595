--------------------------- MODULE MCWriteLedger ---------------------------
(***************************************************************************)
(* Finite values for WriteLedger: two tasks of two processes.              *)
(***************************************************************************)
EXTENDS WriteLedger, TLC

CONSTANTS t1, t2, server1, server2

TwoProcesses == (t1 :> server1 @@ t2 :> server2)

=============================================================================
