------------------------ MODULE MCEffectfulPlaybook ------------------------
(***************************************************************************)
(* A playbook of three nodes: the first needs the two others.              *)
(***************************************************************************)
EXTENDS EffectfulPlaybook, TLC

ThreeNodes == 1..3
Join == (1 :> {2, 3} @@ 2 :> {} @@ 3 :> {})

=============================================================================
