------------------------- MODULE WriteLedgerProofs -------------------------
(***************************************************************************)
(* Proofs about WriteLedger: its types, that a key is executed by one task *)
(* at a time and takes effect at most once, that a rejected row stands for *)
(* no effect, and that a receipt that calls a retry safe is truthful.      *)
(***************************************************************************)
EXTENDS WriteLedger, TLAPS

OperatingPoints ==
    {"checking", "writing", "waiting", "verifying", "failed", "done"}

\* What the point of a task says of its call alone.  A write that landed and then
\* failed is classified as uncertain, whatever moved the counters meanwhile.
CallFits(point, c) ==
    /\ point \in {"claiming", "checking", "writing"} => ~c.landed
    /\ point = "waiting" => "attempted" \in c.counted
    /\ point \in {"verifying", "done"} => c.landed /\ "confirmed" \in c.counted
    /\ point = "failed" /\ c.landed => FailureStatus(c) = "uncertain"

\* What it says of the row of its key: an operating task holds it reserved (or declared
\* interrupted), and the effect of the key is that of its call.
Holding(t) ==
    LET row == rows[call[t].key] IN
    /\ row # None
    /\ row.status \in {"pending", "uncertain"}
    /\ applied[call[t].key] = IF call[t].landed THEN 1 ELSE 0

\* A task that composes its envelope after a write that landed: nobody else executes
\* the key any more, and the row does not say otherwise.
Explaining(t) ==
    LET row == rows[call[t].key] IN
    /\ row # None
    /\ call[t].landed =>
          /\ row.status \in {"pending", "uncertain"}
          /\ call[t].error \in {"client", "server", "local"} => row.status = "uncertain"
          /\ \A u \in Tasks :
                pc[u] \in OperatingPoints => call[u].key # call[t].key

CallsFit == \A t \in Tasks : pc[t] # "idle" => CallFits(pc[t], call[t])

Reserved == \A t \in Tasks : pc[t] \in OperatingPoints => Holding(t)

Explained == \A t \in Tasks : pc[t] = "explaining" => Explaining(t)

FreeMeansNoEffect ==
    \A k \in Keys :
        rows[k] = None \/ rows[k].status = "rejected" => applied[k] = 0

LedgerInv ==
    /\ TypeOK
    /\ CallsFit
    /\ Reserved
    /\ Explained
    /\ OneExecution
    /\ FreeMeansNoEffect
    /\ AtMostOneCommit
    /\ SafeReceiptMeansNoEffect

-----------------------------------------------------------------------------
(***************************************************************************)
(* What a step does to the calls.                                          *)
(***************************************************************************)

\* A call keeps its key and whether it landed.
Same(c, d) ==
    /\ c = None <=> d = None
    /\ c # None => d.key = c.key /\ d.landed = c.landed

\* A call of another task at most sees its counters move.
Grown(c, d) ==
    /\ Same(c, d)
    /\ c # None => d.error = c.error /\ c.counted \subseteq d.counted

CallsTyped == call \in [Tasks -> Calls \cup {None}]

\* Every other task stays where it is.
OthersStay(t) ==
    \A u \in Tasks \ {t} : pc'[u] = pc[u] /\ Grown(call[u], call'[u])

LEMMA NoneIsNoCall == None \notin Calls /\ None \notin Rows /\ None \notin Replies
  BY LedgerAssumption

\* FailureStatus looks at counters in an order that moving them cannot reverse.
LEMMA UncertainStays ==
    ASSUME NEW c, NEW d, d.error = c.error, c.counted \subseteq d.counted,
           FailureStatus(c) = "uncertain"
    PROVE  FailureStatus(d) = "uncertain"
<1>1. CASE c.counted \cap {"confirmed", "ambiguous"} # {} \/ c.error = "ambiguous"
  BY <1>1 DEF FailureStatus
<1>2. CASE /\ ~(c.counted \cap {"confirmed", "ambiguous"} # {} \/ c.error = "ambiguous")
           /\ c.error # "client"
           /\ "attempted" \in c.counted \/ c.error \notin {"local", "unverified"}
  BY <1>2 DEF FailureStatus
<1> QED
  BY <1>1, <1>2 DEF FailureStatus

LEMMA GrownFits ==
    ASSUME NEW point, NEW c, NEW d, c # None, Grown(c, d), CallFits(point, c)
    PROVE  CallFits(point, d)
<1>1. c.landed /\ FailureStatus(c) = "uncertain" => FailureStatus(d) = "uncertain"
  BY UncertainStays DEF Grown
<1> QED
  BY <1>1 DEF Grown, Same, CallFits

\* Counting moves counters and nothing else.
LEMMA CountGrows ==
    ASSUME NEW calls \in [Tasks -> Calls \cup {None}], NEW p,
           NEW counters \in SUBSET Counters
    PROVE  /\ Count(p, counters, calls) \in [Tasks -> Calls \cup {None}]
           /\ \A u \in Tasks :
                 /\ Grown(calls[u], Count(p, counters, calls)[u])
                 /\ ProcessOf[u] = p /\ calls[u] # None =>
                       counters \subseteq Count(p, counters, calls)[u].counted
<1> SUFFICES ASSUME NEW u \in Tasks
             PROVE  LET d == Count(p, counters, calls)[u] IN
                    /\ d \in Calls \cup {None}
                    /\ Grown(calls[u], d)
                    /\ ProcessOf[u] = p /\ calls[u] # None => counters \subseteq d.counted
  BY DEF Count
<1>1. CASE ProcessOf[u] = p /\ calls[u] # None
  <2> DEFINE c == calls[u]
             d == [c EXCEPT !.counted = @ \cup counters]
  <2>1. c \in Calls
    BY <1>1
  <2>2. Count(p, counters, calls)[u] = d
    BY <1>1 DEF Count
  <2>3. /\ d \in Calls /\ d.key = c.key /\ d.landed = c.landed /\ d.error = c.error
        /\ c.counted \subseteq d.counted /\ counters \subseteq d.counted
    BY <2>1 DEF Calls
  <2> QED
    BY <2>1, <2>2, <2>3, NoneIsNoCall DEF Grown, Same
<1>2. CASE ~(ProcessOf[u] = p /\ calls[u] # None)
  BY <1>2 DEF Count, Grown, Same
<1> QED
  BY <1>1, <1>2

\* One task takes a new call; the others keep theirs.
LEMMA UpdateGrows ==
    ASSUME CallsTyped, NEW t \in Tasks, NEW c \in Calls \cup {None},
           call' = [call EXCEPT ![t] = c]
    PROVE  /\ CallsTyped' /\ call'[t] = c
           /\ \A u \in Tasks \ {t} : Grown(call[u], call'[u])
  BY DEF CallsTyped, Grown, Same

LEMMA CountAfterUpdate ==
    ASSUME CallsTyped, NEW t \in Tasks, NEW c \in Calls,
           NEW counters \in SUBSET Counters,
           call' = Count(ProcessOf[t], counters, [call EXCEPT ![t] = c])
    PROVE  /\ CallsTyped' /\ call'[t] \in Calls
           /\ Grown(c, call'[t]) /\ counters \subseteq call'[t].counted
           /\ \A u \in Tasks \ {t} : Grown(call[u], call'[u])
<1> DEFINE calls == [call EXCEPT ![t] = c]
<1>1. calls \in [Tasks -> Calls \cup {None}] /\ calls[t] = c
  BY DEF CallsTyped
<1>2. \A u \in Tasks \ {t} : calls[u] = call[u]
  BY DEF CallsTyped
<1> HIDE DEF calls
<1>3. call' = Count(ProcessOf[t], counters, calls)
  BY DEF calls
<1> DEFINE counted == Count(ProcessOf[t], counters, calls)
<1>4. /\ counted \in [Tasks -> Calls \cup {None}]
      /\ \A u \in Tasks :
            /\ Grown(calls[u], counted[u])
            /\ ProcessOf[u] = ProcessOf[t] /\ calls[u] # None =>
                  counters \subseteq counted[u].counted
  BY <1>1, CountGrows
<1> HIDE DEF counted
<1>5. call' = counted
  BY <1>3 DEF counted
<1>6. /\ CallsTyped'
      /\ \A u \in Tasks : Grown(calls[u], call'[u])
      /\ calls[t] # None => counters \subseteq call'[t].counted
  BY <1>4, <1>5 DEF CallsTyped
<1>7. c # None
  BY NoneIsNoCall
<1>8. call'[t] \in Calls
  BY <1>1, <1>6, <1>7 DEF CallsTyped, Grown, Same
<1> QED
  BY <1>1, <1>2, <1>6, <1>7, <1>8

-----------------------------------------------------------------------------
(***************************************************************************)
(* The steps of an operation, up to its classification, have one shape: a  *)
(* task goes from one operating point to another, with a call that fits    *)
(* it; ledger and tenant stay.                                             *)
(***************************************************************************)

Continues(t) ==
    /\ pc[t] \in OperatingPoints
    /\ \E point \in OperatingPoints :
          pc' = [pc EXCEPT ![t] = point] /\ CallFits(point, call'[t])
    /\ CallsTyped'
    /\ Same(call[t], call'[t])
    /\ \A u \in Tasks \ {t} : Grown(call[u], call'[u])
    /\ UNCHANGED <<rows, reply, applied, losses>>

\* The call of a task at an operating point, and what its point says of it.
LEMMA OperatingCall ==
    ASSUME TypeOK, CallsFit, NEW t \in Tasks, pc[t] # "idle"
    PROVE  call[t] \in Calls /\ call[t] # None /\ CallFits(pc[t], call[t])
  BY NoneIsNoCall DEF TypeOK, CallsFit

LEMMA ErrorOfCall ==
    ASSUME NEW c \in Calls, NEW error \in Errors
    PROVE  LET d == [c EXCEPT !.error = error] IN
           /\ d \in Calls /\ d # None
           /\ d.error = error /\ d.key = c.key /\ d.landed = c.landed
           /\ d.counted = c.counted
<1> DEFINE d == [c EXCEPT !.error = error]
<1>1. /\ d \in Calls /\ d.error = error /\ d.key = c.key /\ d.landed = c.landed
      /\ d.counted = c.counted
  BY DEF Calls
<1> QED
  BY <1>1, NoneIsNoCall

\* A raised error is a step to "failed"; the classification of a write that landed has
\* to say uncertain.
LEMMA RaiseContinues ==
    ASSUME TypeOK, CallsFit, NEW t \in Tasks, pc[t] \in OperatingPoints,
           NEW error \in Errors, Raise(t, error),
           UNCHANGED <<rows, reply, applied, losses>>,
           call[t].landed =>
              \/ "confirmed" \in call[t].counted
              \/ "attempted" \in call[t].counted /\ error = "server"
    PROVE  Continues(t)
<1>1. call[t] \in Calls /\ call[t] # None
  BY OperatingCall DEF OperatingPoints
<1> DEFINE c == [call[t] EXCEPT !.error = error]
<1>2. /\ c \in Calls /\ c # None /\ c.error = error /\ c.key = call[t].key
      /\ c.landed = call[t].landed /\ c.counted = call[t].counted
  BY <1>1, ErrorOfCall
<1>3. CallsTyped
  BY DEF TypeOK, CallsTyped
<1>4. call' = [call EXCEPT ![t] = c] /\ pc' = [pc EXCEPT ![t] = "failed"]
  BY DEF Raise, Goto, Update
<1> HIDE DEF c
<1>5. CallsTyped' /\ call'[t] = c /\ \A u \in Tasks \ {t} : Grown(call[u], call'[u])
  BY <1>2, <1>3, <1>4, UpdateGrows
<1>6. c.landed => FailureStatus(c) = "uncertain"
  BY <1>2 DEF FailureStatus
<1>7. CallFits("failed", c)
  BY <1>6 DEF CallFits
<1>8. Same(call[t], call'[t])
  BY <1>1, <1>2, <1>5 DEF Same
<1>9. "failed" \in OperatingPoints
  BY DEF OperatingPoints
<1> QED
  BY <1>4, <1>5, <1>7, <1>8, <1>9 DEF Continues

\* A step that leaves every call alone.
LEMMA GotoContinues ==
    ASSUME TypeOK, CallsFit, NEW t \in Tasks, pc[t] \in OperatingPoints,
           NEW point \in OperatingPoints, Goto(t, point), UNCHANGED call,
           CallFits(point, call[t]),
           UNCHANGED <<rows, reply, applied, losses>>
    PROVE  Continues(t)
<1>1. CallsTyped' /\ Same(call[t], call'[t])
  BY DEF TypeOK, CallsTyped, Same
<1>2. \A u \in Tasks \ {t} : Grown(call[u], call'[u])
  BY DEF Grown, Same
<1> QED
  BY <1>1, <1>2 DEF Goto, Continues

LEMMA CheckContinues ==
    ASSUME TypeOK, CallsFit, NEW t \in Tasks, Check(t) PROVE Continues(t)
<1>1. /\ pc[t] = "checking" /\ pc[t] \in OperatingPoints /\ ~call[t].landed
      /\ UNCHANGED <<rows, reply, applied, losses>>
  BY OperatingCall DEF Check, At, CallFits, OperatingPoints
<1>2. CASE Goto(t, "writing") /\ UNCHANGED call
  <2>1. CallFits("writing", call[t]) /\ "writing" \in OperatingPoints
    BY <1>1 DEF CallFits, OperatingPoints
  <2> QED
    BY <1>1, <1>2, <2>1, GotoContinues
<1>3. CASE \E error \in {"local", "client", "server", "other"} : Raise(t, error)
  <2>1. PICK error \in {"local", "client", "server", "other"} : Raise(t, error)
    BY <1>3
  <2>2. error \in Errors
    BY DEF Errors
  <2> QED
    BY <1>1, <2>1, <2>2, RaiseContinues
<1> QED
  BY <1>2, <1>3 DEF Check

\* The shape of the answers that move counters.
LEMMA CountedContinues ==
    ASSUME TypeOK, CallsFit, NEW t \in Tasks, pc[t] \in OperatingPoints,
           NEW c \in Calls, c.key = call[t].key, c.landed = call[t].landed,
           NEW counters \in SUBSET Counters,
           call' = Count(ProcessOf[t], counters, [call EXCEPT ![t] = c]),
           NEW point \in OperatingPoints, Goto(t, point),
           \/ point = "failed" /\ c.error = "ambiguous"
           \/ point = "verifying" /\ c.landed /\ "confirmed" \in counters,
           UNCHANGED <<rows, reply, applied, losses>>
    PROVE  Continues(t)
<1>1. CallsTyped /\ call[t] # None
  BY OperatingCall DEF TypeOK, CallsTyped, OperatingPoints
<1>2. /\ CallsTyped' /\ call'[t] \in Calls
      /\ Grown(c, call'[t]) /\ counters \subseteq call'[t].counted
      /\ \A u \in Tasks \ {t} : Grown(call[u], call'[u])
  BY <1>1, CountAfterUpdate
<1>3. /\ call'[t] # None /\ call'[t].key = c.key /\ call'[t].landed = c.landed
      /\ call'[t].error = c.error
  BY <1>2, NoneIsNoCall DEF Grown, Same
<1>4. CallFits(point, call'[t])
  BY <1>2, <1>3 DEF CallFits, FailureStatus
<1>5. Same(call[t], call'[t])
  BY <1>1, <1>3 DEF Same
<1> QED
  BY <1>2, <1>4, <1>5 DEF Goto, Continues

LEMMA AcceptedContinues ==
    ASSUME TypeOK, CallsFit, NEW t \in Tasks, Accepted(t) PROVE Continues(t)
<1>1. /\ pc[t] \in OperatingPoints /\ call[t] \in Calls /\ call[t].landed
      /\ UNCHANGED <<rows, reply, applied, losses>>
      /\ {"verifying", "failed"} \subseteq OperatingPoints
  BY OperatingCall DEF Accepted, At, OperatingPoints
<1>2. call = [call EXCEPT ![t] = call[t]]
  BY DEF TypeOK
<1>3. /\ {"confirmed"} \in SUBSET Counters /\ {"confirmed", "ambiguous"} \in SUBSET Counters
      /\ "ambiguous" \in Errors
  BY DEF Counters, Errors
<1>4. CASE /\ Goto(t, "verifying")
           /\ call' = Count(ProcessOf[t], {"confirmed"}, call)
  <2>1. call' = Count(ProcessOf[t], {"confirmed"}, [call EXCEPT ![t] = call[t]])
    BY <1>2, <1>4
  <2> QED
    BY <1>1, <1>3, <1>4, <2>1, CountedContinues
<1>5. CASE /\ Goto(t, "failed")
           /\ call' = Count(ProcessOf[t], {"confirmed", "ambiguous"},
                            Failing(t, "ambiguous"))
  <2> DEFINE c == [call[t] EXCEPT !.error = "ambiguous"]
  <2>1. c \in Calls /\ c.error = "ambiguous" /\ c.key = call[t].key
        /\ c.landed = call[t].landed
    BY <1>1, <1>3, ErrorOfCall
  <2>2. Failing(t, "ambiguous") = [call EXCEPT ![t] = c]
    BY DEF Failing
  <2> HIDE DEF c
  <2>3. call' = Count(ProcessOf[t], {"confirmed", "ambiguous"}, [call EXCEPT ![t] = c])
    BY <1>5, <2>2
  <2> QED
    BY <1>1, <1>3, <1>5, <2>1, <2>3, CountedContinues
<1> QED
  BY <1>4, <1>5 DEF Accepted

LEMMA LostContinues ==
    ASSUME TypeOK, CallsFit, NEW t \in Tasks, Lost(t) PROVE Continues(t)
<1>1. /\ pc[t] \in OperatingPoints /\ call[t] \in Calls /\ Goto(t, "failed")
      /\ UNCHANGED <<rows, reply, applied, losses>> /\ "failed" \in OperatingPoints
  BY OperatingCall DEF Lost, At, OperatingPoints
<1>2. {"ambiguous"} \in SUBSET Counters /\ "ambiguous" \in Errors
  BY DEF Counters, Errors
<1> DEFINE c == [call[t] EXCEPT !.error = "ambiguous"]
<1>3. c \in Calls /\ c.error = "ambiguous" /\ c.key = call[t].key
      /\ c.landed = call[t].landed
  BY <1>1, <1>2, ErrorOfCall
<1>4. Failing(t, "ambiguous") = [call EXCEPT ![t] = c]
  BY DEF Failing
<1> HIDE DEF c
<1>5. call' = Count(ProcessOf[t], {"ambiguous"}, [call EXCEPT ![t] = c])
  BY <1>4 DEF Lost
<1> QED
  BY <1>1, <1>2, <1>3, <1>5, CountedContinues

LEMMA ServerErrorContinues ==
    ASSUME TypeOK, CallsFit, NEW t \in Tasks, ServerError(t) PROVE Continues(t)
<1>1. pc[t] = "waiting" /\ pc[t] \in OperatingPoints
  BY DEF ServerError, At, OperatingPoints
<1>2. "attempted" \in call[t].counted
  BY <1>1, OperatingCall DEF CallFits
<1>3. "server" \in Errors
  BY DEF Errors
<1> QED
  BY <1>1, <1>2, <1>3, RaiseContinues DEF ServerError

\* A request that Graph did not take may be sent again.
LEMMA ResendContinues ==
    ASSUME TypeOK, CallsFit, NEW t \in Tasks, pc[t] = "waiting", ~call[t].landed,
           NEW refreshed \in BOOLEAN,
           Resend(t, [call[t] EXCEPT !.refreshed = refreshed]),
           UNCHANGED <<rows, reply, applied, losses>>
    PROVE  Continues(t)
<1>1. /\ pc[t] \in OperatingPoints /\ call[t] \in Calls /\ call[t] # None
      /\ "writing" \in OperatingPoints
  BY OperatingCall DEF OperatingPoints
<1> DEFINE c == [call[t] EXCEPT !.refreshed = refreshed]
           d == [c EXCEPT !.attempt = @ + 1]
<1>2. /\ c \in Calls /\ c.key = call[t].key /\ c.landed = call[t].landed
      /\ c.attempt = call[t].attempt
  BY <1>1 DEF Calls
<1>3. c.attempt \in 0..MaxRetries /\ c.attempt < MaxRetries
  BY <1>2 DEF Resend, Calls
<1> HIDE DEF c
<1>4. d \in Calls /\ d.key = c.key /\ d.landed = c.landed
  BY <1>2, <1>3, LedgerAssumption DEF Calls
<1>5. call' = [call EXCEPT ![t] = d] /\ pc' = [pc EXCEPT ![t] = "writing"]
  BY DEF Resend, Update, Goto, c
<1> HIDE DEF d
<1>6. CallsTyped' /\ call'[t] = d /\ \A u \in Tasks \ {t} : Grown(call[u], call'[u])
  BY <1>4, <1>5, UpdateGrows DEF TypeOK, CallsTyped
<1>7. CallFits("writing", call'[t]) /\ Same(call[t], call'[t])
  BY <1>1, <1>2, <1>4, <1>6, NoneIsNoCall DEF CallFits, Same
<1> QED
  BY <1>1, <1>5, <1>6, <1>7 DEF Continues

LEMMA RefusalContinues ==
    ASSUME TypeOK, CallsFit, NEW t \in Tasks,
           Throttled(t) \/ Unauthorized(t) \/ Refused(t)
    PROVE  Continues(t)
<1>1. /\ pc[t] = "waiting" /\ pc[t] \in OperatingPoints /\ ~call[t].landed
      /\ call[t] \in Calls /\ UNCHANGED <<rows, reply, applied, losses>>
  BY OperatingCall DEF Throttled, Unauthorized, Refused, At, OperatingPoints
<1>2. CASE \E error \in {"client", "server", "local"} : Raise(t, error)
  <2>1. PICK error \in {"client", "server", "local"} : Raise(t, error)
    BY <1>2
  <2>2. error \in Errors
    BY DEF Errors
  <2> QED
    BY <1>1, <2>1, <2>2, RaiseContinues
<1>3. CASE Resend(t, call[t])
  <2>1. [call[t] EXCEPT !.refreshed = call[t].refreshed] = call[t]
        /\ call[t].refreshed \in BOOLEAN
    BY <1>1 DEF Calls
  <2> QED
    BY <1>1, <1>3, <2>1, ResendContinues
<1>4. CASE Resend(t, [call[t] EXCEPT !.refreshed = TRUE])
  BY <1>1, <1>4, ResendContinues
<1> QED
  BY <1>2, <1>3, <1>4 DEF Throttled, Unauthorized, Refused

LEMMA VerifyContinues ==
    ASSUME TypeOK, CallsFit, NEW t \in Tasks, Verify(t) PROVE Continues(t)
<1>1. /\ pc[t] \in OperatingPoints /\ call[t].landed /\ "confirmed" \in call[t].counted
      /\ UNCHANGED <<rows, reply, applied, losses>>
  BY OperatingCall DEF Verify, At, CallFits, OperatingPoints
<1>2. CASE Goto(t, "done") /\ UNCHANGED call
  <2>1. CallFits("done", call[t]) /\ "done" \in OperatingPoints
    BY <1>1 DEF CallFits, OperatingPoints
  <2> QED
    BY <1>1, <1>2, <2>1, GotoContinues
<1>3. CASE \E error \in {"unverified", "local", "client", "server", "other"} :
              Raise(t, error)
  <2>1. PICK error \in {"unverified", "local", "client", "server", "other"} :
              Raise(t, error)
    BY <1>3
  <2>2. error \in Errors
    BY DEF Errors
  <2> QED
    BY <1>1, <2>1, <2>2, RaiseContinues
<1> QED
  BY <1>2, <1>3 DEF Verify

-----------------------------------------------------------------------------
(***************************************************************************)
(* Steps that neither reserve, send nor close: no task begins to operate,  *)
(* no effect happens, and a row at most ages or is declared interrupted.   *)
(***************************************************************************)

RowsAge ==
    \A k \in Keys :
        /\ rows[k] = None <=> rows'[k] = None
        /\ rows[k] # None =>
              \/ rows'[k].status = rows[k].status
              \/ rows[k].status = "pending" /\ rows'[k].status = "uncertain"

Quiet ==
    /\ RowsAge
    /\ applied' = applied
    /\ \A u \in Tasks :
          /\ pc'[u] \in OperatingPoints =>
                pc[u] \in OperatingPoints /\ Same(call[u], call'[u])
          /\ pc'[u] = "explaining" =>
                \/ /\ pc[u] = "explaining" /\ Same(call[u], call'[u])
                   /\ call'[u].error = call[u].error
                \/ /\ call'[u].key \in Keys /\ rows[call'[u].key] # None
                   /\ ~call'[u].landed

\* The keys of calls in progress.
LEMMA KeyOfCall ==
    ASSUME TypeOK, NEW t \in Tasks, pc[t] # "idle"
    PROVE  call[t] \in Calls /\ call[t] # None /\ call[t].key \in Keys
<1>1. call[t] \in Calls
  BY DEF TypeOK
<1> QED
  BY <1>1, NoneIsNoCall DEF Calls

LEMMA QuietKeeps ==
    ASSUME LedgerInv, Quiet
    PROVE  Reserved' /\ Explained' /\ OneExecution' /\ FreeMeansNoEffect'
           /\ AtMostOneCommit'
<1> USE DEF OperatingPoints
<1>1. TypeOK /\ Reserved /\ Explained /\ OneExecution /\ FreeMeansNoEffect
      /\ AtMostOneCommit
  BY DEF LedgerInv
<1>2. ASSUME NEW u \in Tasks, pc'[u] \in OperatingPoints
      PROVE  /\ pc[u] \in OperatingPoints /\ call[u].key \in Keys
             /\ call'[u].key = call[u].key /\ call'[u].landed = call[u].landed
  BY <1>1, <1>2, KeyOfCall DEF Quiet, Same
<1>3. Reserved'
  <2> SUFFICES ASSUME NEW u \in Tasks, pc'[u] \in OperatingPoints PROVE Holding(u)'
    BY DEF Reserved
  <2>1. Holding(u)
    BY <1>1, <1>2 DEF Reserved
  <2>2. rows'[call[u].key] # None
        /\ rows'[call[u].key].status \in {"pending", "uncertain"}
    BY <1>2, <2>1 DEF Holding, Quiet, RowsAge
  <2> QED
    BY <1>2, <2>1, <2>2 DEF Holding, Quiet
<1>4. Explained'
  <2> SUFFICES ASSUME NEW u \in Tasks, pc'[u] = "explaining" PROVE Explaining(u)'
    BY DEF Explained
  <2>1. CASE /\ pc[u] = "explaining" /\ Same(call[u], call'[u])
             /\ call'[u].error = call[u].error
    <3>1. Explaining(u) /\ call[u].key \in Keys /\ call'[u].key = call[u].key
          /\ call'[u].landed = call[u].landed
      BY <1>1, <2>1, KeyOfCall DEF Explained, Same
    <3>2. rows'[call[u].key] # None
      BY <3>1 DEF Explaining, Quiet, RowsAge
    <3>3. ASSUME call[u].landed
          PROVE  /\ rows'[call[u].key].status \in {"pending", "uncertain"}
                 /\ call[u].error \in {"client", "server", "local"} =>
                       rows'[call[u].key].status = "uncertain"
      BY <3>1, <3>3 DEF Explaining, Quiet, RowsAge
    <3>4. ASSUME call[u].landed, NEW v \in Tasks, pc'[v] \in OperatingPoints
          PROVE  call'[v].key # call[u].key
      BY <1>2, <3>1, <3>4 DEF Explaining
    <3> QED
      BY <2>1, <3>1, <3>2, <3>3, <3>4 DEF Explaining
  <2>2. CASE /\ call'[u].key \in Keys /\ rows[call'[u].key] # None
             /\ ~call'[u].landed
    BY <2>2 DEF Explaining, Quiet, RowsAge
  <2> QED
    BY <2>1, <2>2 DEF Quiet
<1>5. OneExecution'
  BY <1>1, <1>2 DEF OneExecution, Operating
<1>6. FreeMeansNoEffect'
  <2> SUFFICES ASSUME NEW k \in Keys, rows'[k] = None \/ rows'[k].status = "rejected"
               PROVE  applied'[k] = 0
    BY DEF FreeMeansNoEffect
  <2>1. rows[k] = None \/ rows[k].status = "rejected"
    BY DEF Quiet, RowsAge
  <2> QED
    BY <1>1, <2>1 DEF FreeMeansNoEffect, Quiet
<1>7. AtMostOneCommit'
  BY <1>1 DEF AtMostOneCommit, Quiet
<1> QED
  BY <1>3, <1>4, <1>5, <1>6, <1>7

LEMMA RowsStay == ASSUME rows' = rows PROVE RowsAge
  BY DEF RowsAge

LEMMA ContinuesKeeps ==
    ASSUME LedgerInv, NEW t \in Tasks, Continues(t) PROVE LedgerInv'
<1>1. TypeOK /\ CallsFit /\ pc \in [Tasks -> Points]
  BY DEF LedgerInv, TypeOK
<1>2. PICK point \in OperatingPoints :
          pc' = [pc EXCEPT ![t] = point] /\ CallFits(point, call'[t])
  BY DEF Continues
<1>3. pc'[t] = point /\ point # "idle" /\ point # "explaining" /\ pc[t] # "idle"
      /\ point \in Points
  BY <1>1, <1>2 DEF OperatingPoints, Points, Continues
<1>4. \A u \in Tasks \ {t} : pc'[u] = pc[u] /\ Grown(call[u], call'[u])
  BY <1>1, <1>2 DEF Continues
<1>5. \A u \in Tasks : Same(call[u], call'[u])
  BY <1>4 DEF Continues, Grown
<1>6. CallsFit'
  <2> SUFFICES ASSUME NEW u \in Tasks, pc'[u] # "idle"
               PROVE  CallFits(pc'[u], call'[u])
    BY DEF CallsFit
  <2>1. CASE u = t
    BY <1>2, <1>3, <2>1
  <2>2. CASE u # t
    BY <1>1, <1>4, <2>2, KeyOfCall, GrownFits DEF CallsFit
  <2> QED
    BY <2>1, <2>2
<1>7. TypeOK'
  <2>1. pc' \in [Tasks -> Points] /\ CallsTyped'
    BY <1>1, <1>2, <1>3 DEF Continues
  <2>2. \A u \in Tasks : call'[u] = None <=> pc'[u] = "idle"
    BY <1>1, <1>3, <1>4, <1>5 DEF TypeOK, Same
  <2> QED
    BY <1>1, <2>1, <2>2 DEF TypeOK, CallsTyped, Continues
<1>8. Quiet
  <2>1. ASSUME NEW u \in Tasks, pc'[u] = "explaining"
        PROVE  pc[u] = "explaining" /\ call'[u].error = call[u].error
    BY <1>1, <1>3, <1>4, <2>1, KeyOfCall DEF Grown
  <2>2. ASSUME NEW u \in Tasks, pc'[u] \in OperatingPoints
        PROVE  pc[u] \in OperatingPoints
    BY <1>4, <2>2 DEF Continues
  <2> QED
    BY <1>5, <2>1, <2>2, RowsStay DEF Quiet, Continues
<1>9. SafeReceiptMeansNoEffect'
  BY DEF SafeReceiptMeansNoEffect, LedgerInv, Continues
<1> QED
  BY <1>6, <1>7, <1>8, <1>9, QuietKeeps DEF LedgerInv

LEMMA StartKeeps ==
    ASSUME LedgerInv, NEW t \in Tasks, NEW k \in Keys, NEW p \in Payloads,
           Start(t, k, p)
    PROVE  LedgerInv'
<1> DEFINE c == [key |-> k, payload |-> p, counted |-> {}, error |-> "none",
                 attempt |-> 0, refreshed |-> FALSE, landed |-> FALSE]
<1>1. TypeOK /\ CallsFit
  BY DEF LedgerInv
<1>2. c \in Calls /\ c # None
  <2>1. 0 \in 0..MaxRetries
    BY LedgerAssumption
  <2>2. c \in Calls
    BY <2>1 DEF Calls, Errors
  <2> QED
    BY <2>2, NoneIsNoCall
<1>3. /\ call' = [call EXCEPT ![t] = c] /\ pc' = [pc EXCEPT ![t] = "claiming"]
      /\ reply' = [reply EXCEPT ![t] = None] /\ UNCHANGED <<rows, applied, losses>>
  BY DEF Start, Update, Goto
<1>4. CallFits("claiming", c)
  BY DEF CallFits
<1> HIDE DEF c
<1>5. /\ \A u \in Tasks \ {t} : pc'[u] = pc[u] /\ call'[u] = call[u]
      /\ pc'[t] = "claiming" /\ call'[t] = c
  BY <1>1, <1>3 DEF TypeOK
<1>6. TypeOK'
  BY <1>1, <1>2, <1>3 DEF TypeOK, Points
<1>7. CallsFit'
  BY <1>1, <1>4, <1>5 DEF CallsFit
<1>8. Quiet
  BY <1>3, <1>5, RowsStay DEF Quiet, Same, OperatingPoints
<1>9. SafeReceiptMeansNoEffect'
  BY <1>1, <1>3 DEF SafeReceiptMeansNoEffect, LedgerInv, TypeOK
<1> QED
  BY <1>6, <1>7, <1>8, <1>9, QuietKeeps DEF LedgerInv

LEMMA RefusePayloadKeeps ==
    ASSUME LedgerInv, NEW t \in Tasks, RefusePayload(t) PROVE LedgerInv'
<1> DEFINE c == [call[t] EXCEPT !.error = "other"]
<1>1. TypeOK /\ CallsFit
  BY DEF LedgerInv
<1>2. call[t] \in Calls /\ call[t].key \in Keys /\ ~call[t].landed
      /\ rows[call[t].key] # None
  BY <1>1, KeyOfCall DEF RefusePayload, At, CallsFit, CallFits
<1>3. c \in Calls /\ c # None /\ c.key = call[t].key /\ c.landed = call[t].landed
  BY <1>2, ErrorOfCall DEF Errors
<1>4. /\ call' = [call EXCEPT ![t] = c] /\ pc' = [pc EXCEPT ![t] = "explaining"]
      /\ UNCHANGED <<rows, reply, applied, losses>>
  BY DEF RefusePayload, Update, Goto
<1> HIDE DEF c
<1>5. /\ \A u \in Tasks \ {t} : pc'[u] = pc[u] /\ call'[u] = call[u]
      /\ pc'[t] = "explaining" /\ call'[t] = c
  BY <1>1, <1>4 DEF TypeOK
<1>6. TypeOK'
  BY <1>1, <1>3, <1>4 DEF TypeOK, Points
<1>7. CallsFit'
  BY <1>1, <1>5 DEF CallsFit, CallFits
<1>8. Quiet
  BY <1>2, <1>3, <1>4, <1>5, RowsStay DEF Quiet, Same, OperatingPoints
<1>9. SafeReceiptMeansNoEffect'
  BY <1>4 DEF SafeReceiptMeansNoEffect, LedgerInv
<1> QED
  BY <1>6, <1>7, <1>8, <1>9, QuietKeeps DEF LedgerInv

\* An envelope: the task is idle and its reply is what it was told.
LEMMA AnswerTyped ==
    ASSUME TypeOK, NEW t \in Tasks, call[t] \in Calls, NEW safe \in BOOLEAN,
           NEW receipt \in Statuses \cup {None}, Answer(t, safe, receipt)
    PROVE  /\ pc' \in [Tasks -> Points]
           /\ call' \in [Tasks -> Calls \cup {None}]
           /\ \A u \in Tasks : call'[u] = None <=> pc'[u] = "idle"
           /\ reply' \in [Tasks -> Replies \cup {None}]
           /\ \A u \in Tasks \ {t} :
                 pc'[u] = pc[u] /\ call'[u] = call[u] /\ reply'[u] = reply[u]
           /\ pc'[t] = "idle"
           /\ reply'[t].safe = safe /\ reply'[t].receipt = receipt
           /\ reply'[t].landed = call[t].landed
<1> DEFINE r == [safe |-> safe, receipt |-> receipt, landed |-> call[t].landed]
<1>1. r \in Replies
  BY DEF Replies, Calls
<1>2. /\ pc' = [pc EXCEPT ![t] = "idle"] /\ call' = [call EXCEPT ![t] = None]
      /\ reply' = [reply EXCEPT ![t] = r]
  BY DEF Answer, Goto, Update
<1>3. r.safe = safe /\ r.receipt = receipt /\ r.landed = call[t].landed
  OBVIOUS
<1> HIDE DEF r
<1> QED
  BY <1>1, <1>2, <1>3 DEF TypeOK, Points

LEMMA ReplayKeeps ==
    ASSUME LedgerInv, NEW t \in Tasks, Replay(t) PROVE LedgerInv'
<1> DEFINE k == call[t].key
           orphan == rows[k].status = "pending" /\ rows[k].aged
           receipt == IF orphan THEN "uncertain" ELSE rows[k].status
<1>1. TypeOK /\ CallsFit
  BY DEF LedgerInv
<1>2. call[t] \in Calls /\ k \in Keys /\ rows[k] # None /\ rows[k] \in Rows
  BY <1>1, KeyOfCall DEF Replay, At, TypeOK
<1>3. receipt \in Statuses \cup {None}
  BY <1>2 DEF Rows, Statuses
<1>4. Answer(t, FALSE, receipt) /\ UNCHANGED <<applied, losses>>
  BY DEF Replay
<1>5. RowsAge /\ rows' \in [Keys -> Rows \cup {None}]
  <2>1. CASE orphan
    <3> DEFINE r == [rows[k] EXCEPT !.status = "uncertain"]
    <3>1. rows' = [rows EXCEPT ![k] = r]
      BY <2>1 DEF Replay, SetStatus
    <3>2. r \in Rows /\ r # None /\ r.status = "uncertain"
      BY <1>2, NoneIsNoCall DEF Rows, Statuses
    <3> HIDE DEF r
    <3> QED
      BY <1>1, <1>2, <2>1, <3>1, <3>2 DEF RowsAge, TypeOK
  <2>2. CASE ~orphan
    BY <1>1, <2>2, RowsStay DEF Replay, TypeOK
  <2> QED
    BY <2>1, <2>2
<1> HIDE DEF receipt
<1>6. /\ pc' \in [Tasks -> Points] /\ call' \in [Tasks -> Calls \cup {None}]
      /\ \A u \in Tasks : call'[u] = None <=> pc'[u] = "idle"
      /\ reply' \in [Tasks -> Replies \cup {None}]
      /\ \A u \in Tasks \ {t} :
            pc'[u] = pc[u] /\ call'[u] = call[u] /\ reply'[u] = reply[u]
      /\ pc'[t] = "idle" /\ ~reply'[t].safe
  BY <1>1, <1>2, <1>3, <1>4, AnswerTyped
<1>7. TypeOK'
  BY <1>1, <1>4, <1>5, <1>6 DEF TypeOK
<1>8. CallsFit'
  BY <1>1, <1>6 DEF CallsFit
<1>9. Quiet
  BY <1>4, <1>5, <1>6 DEF Quiet, Same, OperatingPoints
<1>10. SafeReceiptMeansNoEffect'
  BY <1>6 DEF SafeReceiptMeansNoEffect, LedgerInv
<1> QED
  BY <1>7, <1>8, <1>9, <1>10, QuietKeeps DEF LedgerInv

\* The row of a write that landed says uncertain when its exception could be safe to
\* retry, and then the envelope does not call it so.
LEMMA ExplainKeeps ==
    ASSUME LedgerInv, NEW t \in Tasks, Explain(t) PROVE LedgerInv'
<1> DEFINE k == call[t].key
<1>1. TypeOK /\ CallsFit /\ Explained
  BY DEF LedgerInv
<1>2. /\ call[t] \in Calls /\ k \in Keys /\ pc[t] = "explaining"
      /\ UNCHANGED <<rows, applied, losses>>
  BY <1>1, KeyOfCall DEF Explain, At
<1>3. Explaining(t)
  BY <1>1, <1>2 DEF Explained
<1>4. rows[k] \in Rows
  BY <1>1, <1>2, <1>3 DEF Explaining, TypeOK
<1>5. PICK receipt \in {rows[k].status, None}, safe \in SafeToRetry(call[t].error) :
          Answer(t, safe /\ receipt # "uncertain", receipt)
  BY DEF Explain
<1>6. receipt \in Statuses \cup {None}
  BY <1>4 DEF Rows
<1> DEFINE told == safe /\ receipt # "uncertain"
<1>7. told \in BOOLEAN
  OBVIOUS
<1>8. safe \in BOOLEAN
  BY DEF SafeToRetry
<1>9. told /\ receipt # None => ~call[t].landed
  <2>1. SUFFICES ASSUME told, receipt # None, call[t].landed PROVE FALSE
    OBVIOUS
  <2>2. safe
    BY <2>1
  <2>3. call[t].error \in {"client", "server", "local"}
    BY <2>2 DEF SafeToRetry
  <2>4. rows[k].status = "uncertain"
    BY <1>3, <2>1, <2>3 DEF Explaining
  <2> QED
    BY <2>1, <2>4
<1> HIDE DEF told
<1>10. /\ pc' \in [Tasks -> Points] /\ call' \in [Tasks -> Calls \cup {None}]
       /\ \A u \in Tasks : call'[u] = None <=> pc'[u] = "idle"
       /\ reply' \in [Tasks -> Replies \cup {None}]
       /\ \A u \in Tasks \ {t} :
             pc'[u] = pc[u] /\ call'[u] = call[u] /\ reply'[u] = reply[u]
       /\ pc'[t] = "idle" /\ reply'[t].safe = told /\ reply'[t].receipt = receipt
       /\ reply'[t].landed = call[t].landed
  BY <1>1, <1>2, <1>5, <1>6, <1>7, AnswerTyped DEF told
<1>11. TypeOK'
  BY <1>1, <1>2, <1>10 DEF TypeOK
<1>12. CallsFit'
  BY <1>1, <1>10 DEF CallsFit
<1>13. Quiet
  BY <1>2, <1>10, RowsStay DEF Quiet, Same, OperatingPoints
<1>14. SafeReceiptMeansNoEffect'
  BY <1>9, <1>10 DEF SafeReceiptMeansNoEffect, LedgerInv
<1> QED
  BY <1>11, <1>12, <1>13, <1>14, QuietKeeps DEF LedgerInv

LEMMA LoseKeeps ==
    ASSUME LedgerInv, NEW tasks \in SUBSET Tasks, Lose(tasks) PROVE LedgerInv'
<1>1. TypeOK /\ CallsFit
  BY DEF LedgerInv
<1>2. /\ \A u \in Tasks : pc'[u] = (IF u \in tasks THEN "idle" ELSE pc[u])
      /\ \A u \in Tasks : call'[u] = (IF u \in tasks THEN None ELSE call[u])
      /\ UNCHANGED <<rows, reply, applied>>
  BY DEF Lose
<1>3. TypeOK'
  BY <1>1, LedgerAssumption DEF TypeOK, Lose, Points
<1>4. CallsFit'
  BY <1>1, <1>2 DEF CallsFit
<1>5. Quiet
  BY <1>2, RowsStay DEF Quiet, Same, OperatingPoints
<1>6. SafeReceiptMeansNoEffect'
  BY <1>2 DEF SafeReceiptMeansNoEffect, LedgerInv
<1> QED
  BY <1>3, <1>4, <1>5, <1>6, QuietKeeps DEF LedgerInv

LEMMA OtherRequestKeeps ==
    ASSUME LedgerInv, NEW p, OtherRequest(p) PROVE LedgerInv'
<1>1. TypeOK /\ CallsFit
  BY DEF LedgerInv
<1>2. PICK counters \in {{"attempted"}, {"attempted", "confirmed"},
                         {"attempted", "ambiguous"}} : call' = Count(p, counters, call)
  BY DEF OtherRequest
<1>3. counters \in SUBSET Counters
  BY DEF Counters
<1>4. /\ call' \in [Tasks -> Calls \cup {None}]
      /\ \A u \in Tasks : Grown(call[u], call'[u])
  BY <1>1, <1>2, <1>3, CountGrows DEF TypeOK
<1>5. UNCHANGED <<rows, pc, reply, applied, losses>>
  BY DEF OtherRequest
<1>6. TypeOK'
  BY <1>1, <1>4, <1>5 DEF TypeOK, Grown, Same
<1>7. CallsFit'
  BY <1>1, <1>4, <1>5, KeyOfCall, GrownFits DEF CallsFit
<1>8. Quiet
  BY <1>1, <1>4, <1>5, RowsStay, KeyOfCall DEF Quiet, Grown
<1>9. SafeReceiptMeansNoEffect'
  BY <1>5 DEF SafeReceiptMeansNoEffect, LedgerInv
<1> QED
  BY <1>6, <1>7, <1>8, <1>9, QuietKeeps DEF LedgerInv

LEMMA AgeKeeps ==
    ASSUME LedgerInv, NEW k \in Keys, Age(k) PROVE LedgerInv'
<1> DEFINE r == [rows[k] EXCEPT !.aged = TRUE]
<1>1. TypeOK /\ CallsFit
  BY DEF LedgerInv
<1>2. rows[k] \in Rows /\ rows[k] # None
  BY <1>1 DEF Age, TypeOK
<1>3. r \in Rows /\ r # None /\ r.status = rows[k].status
  BY <1>2, NoneIsNoCall DEF Rows
<1>4. rows' = [rows EXCEPT ![k] = r] /\ UNCHANGED <<pc, call, reply, applied, losses>>
  BY DEF Age
<1> HIDE DEF r
<1>5. TypeOK'
  BY <1>1, <1>3, <1>4 DEF TypeOK
<1>6. CallsFit' /\ SafeReceiptMeansNoEffect'
  BY <1>1, <1>4 DEF CallsFit, SafeReceiptMeansNoEffect, LedgerInv
<1>7. Quiet
  BY <1>1, <1>2, <1>3, <1>4 DEF Quiet, RowsAge, Same, TypeOK
<1> QED
  BY <1>5, <1>6, <1>7, QuietKeeps DEF LedgerInv

-----------------------------------------------------------------------------
(***************************************************************************)
(* The three steps that matter: a reservation, a request, a closing        *)
(* update.                                                                 *)
(***************************************************************************)

\* A key is only reserved when its row is free or rejected: then nobody operates on it and
\* it had no effect.
LEMMA ReserveKeeps ==
    ASSUME LedgerInv, NEW t \in Tasks, Reserve(t) PROVE LedgerInv'
<1> USE DEF OperatingPoints
<1> DEFINE k == call[t].key
           r == [payload |-> call[t].payload, status |-> "pending", aged |-> FALSE]
<1>1. /\ TypeOK /\ CallsFit /\ Reserved /\ Explained /\ OneExecution
      /\ FreeMeansNoEffect /\ AtMostOneCommit /\ SafeReceiptMeansNoEffect
  BY DEF LedgerInv
<1>2. call[t] \in Calls /\ k \in Keys /\ ~call[t].landed /\ pc[t] = "claiming"
  BY <1>1, KeyOfCall DEF Reserve, At, CallsFit, CallFits
<1>3. rows[k] = None \/ rows[k].status = "rejected"
  BY DEF Reserve
<1>4. /\ rows' = [rows EXCEPT ![k] = r] /\ pc' = [pc EXCEPT ![t] = "checking"]
      /\ UNCHANGED <<call, reply, applied, losses>>
  BY DEF Reserve, Goto
<1>5. r \in Rows /\ r # None /\ r.status = "pending"
  <2>1. r \in Rows
    BY <1>2 DEF Rows, Calls, Statuses
  <2> QED
    BY <2>1, NoneIsNoCall
<1> HIDE DEF r
<1>6. /\ rows'[k] = r /\ \A j \in Keys \ {k} : rows'[j] = rows[j]
      /\ pc'[t] = "checking" /\ \A u \in Tasks \ {t} : pc'[u] = pc[u]
  BY <1>1, <1>2, <1>4 DEF TypeOK
<1>7. applied[k] = 0
  BY <1>1, <1>2, <1>3 DEF FreeMeansNoEffect
<1>8. \A u \in Tasks : pc[u] \in OperatingPoints => call[u].key \in Keys \ {k}
  BY <1>1, <1>3, KeyOfCall DEF Reserved, Holding
<1>9. TypeOK'
  BY <1>1, <1>2, <1>4, <1>5, <1>6 DEF TypeOK, Points
<1>10. CallsFit'
  BY <1>1, <1>2, <1>4, <1>6 DEF CallsFit, CallFits
<1>11. Reserved'
  <2> SUFFICES ASSUME NEW u \in Tasks, pc'[u] \in OperatingPoints PROVE Holding(u)'
    BY DEF Reserved
  <2>1. CASE u = t
    BY <1>2, <1>4, <1>5, <1>6, <1>7, <2>1 DEF Holding
  <2>2. CASE u # t
    BY <1>1, <1>4, <1>6, <1>8, <2>2 DEF Reserved, Holding
  <2> QED
    BY <2>1, <2>2
<1>12. Explained'
  <2> SUFFICES ASSUME NEW u \in Tasks, pc'[u] = "explaining" PROVE Explaining(u)'
    BY DEF Explained
  <2>1. u # t /\ pc[u] = "explaining" /\ call[u].key \in Keys
    BY <1>1, <1>6, KeyOfCall
  <2>2. Explaining(u)
    BY <1>1, <2>1 DEF Explained
  <2>3. CASE call[u].key = k
    <3>1. ~call[u].landed
      BY <1>3, <2>2, <2>3 DEF Explaining
    <3> QED
      BY <1>4, <1>5, <1>6, <2>3, <3>1 DEF Explaining
  <2>4. CASE call[u].key # k
    <3>1. rows'[call[u].key] = rows[call[u].key]
      BY <1>6, <2>1, <2>4
    <3>2. \A v \in Tasks : pc'[v] \in OperatingPoints =>
              v = t \/ pc[v] \in OperatingPoints
      BY <1>6
    <3> QED
      BY <1>4, <2>2, <2>4, <3>1, <3>2 DEF Explaining
  <2> QED
    BY <2>3, <2>4
<1>13. OneExecution'
  BY <1>1, <1>4, <1>6, <1>8 DEF OneExecution, Operating
<1>14. FreeMeansNoEffect'
  BY <1>1, <1>2, <1>4, <1>6, <1>7 DEF FreeMeansNoEffect
<1>15. AtMostOneCommit' /\ SafeReceiptMeansNoEffect'
  BY <1>1, <1>4 DEF AtMostOneCommit, SafeReceiptMeansNoEffect
<1> QED
  BY <1>9, <1>10, <1>11, <1>12, <1>13, <1>14, <1>15 DEF LedgerInv

\* Of all tasks only the one that holds the row sends, and only once it knows that no
\* earlier request of its call landed.
LEMMA SendKeeps ==
    ASSUME LedgerInv, NEW t \in Tasks, Send(t) PROVE LedgerInv'
<1> USE DEF OperatingPoints
<1> DEFINE k == call[t].key
<1>1. /\ TypeOK /\ CallsFit /\ Reserved /\ Explained /\ OneExecution
      /\ FreeMeansNoEffect /\ AtMostOneCommit /\ SafeReceiptMeansNoEffect
  BY DEF LedgerInv
<1>2. /\ call[t] \in Calls /\ call[t] # None /\ k \in Keys /\ ~call[t].landed
      /\ pc[t] = "writing" /\ Holding(t)
  BY <1>1, KeyOfCall DEF Send, At, CallsFit, CallFits, Reserved
<1>3. applied[k] = 0 /\ rows[k] # None /\ rows[k].status \in {"pending", "uncertain"}
  BY <1>2 DEF Holding
<1>4. PICK landed \in BOOLEAN :
        /\ call' = Count(ProcessOf[t], {"attempted"}, [call EXCEPT ![t].landed = landed])
        /\ applied' = [applied EXCEPT ![k] = @ + IF landed THEN 1 ELSE 0]
  BY DEF Send
<1> DEFINE c == [call[t] EXCEPT !.landed = landed]
<1>5. c \in Calls /\ c # None /\ c.key = k /\ c.landed = landed
  <2>1. c \in Calls /\ c.key = k /\ c.landed = landed
    BY <1>2 DEF Calls
  <2> QED
    BY <2>1, NoneIsNoCall
<1>6. call' = Count(ProcessOf[t], {"attempted"}, [call EXCEPT ![t] = c])
  BY <1>4
<1> HIDE DEF c
<1>7. {"attempted"} \in SUBSET Counters
  BY DEF Counters
<1>8. /\ CallsTyped' /\ call'[t] \in Calls /\ Grown(c, call'[t])
      /\ {"attempted"} \subseteq call'[t].counted
      /\ \A u \in Tasks \ {t} : Grown(call[u], call'[u])
  BY <1>1, <1>5, <1>6, <1>7, CountAfterUpdate DEF TypeOK, CallsTyped
<1>9. call'[t] # None /\ call'[t].key = k /\ call'[t].landed = landed
  BY <1>5, <1>8, NoneIsNoCall DEF Grown, Same
<1>10. pc' = [pc EXCEPT ![t] = "waiting"] /\ UNCHANGED <<rows, reply, losses>>
  BY DEF Send, Goto
<1>11. /\ pc'[t] = "waiting" /\ \A u \in Tasks \ {t} : pc'[u] = pc[u]
       /\ applied'[k] = (IF landed THEN 1 ELSE 0)
       /\ \A j \in Keys \ {k} : applied'[j] = applied[j]
  BY <1>1, <1>2, <1>3, <1>4, <1>10 DEF TypeOK
<1>12. TypeOK'
  <2>1. applied' \in [Keys -> Nat]
    BY <1>1, <1>2, <1>3, <1>4 DEF TypeOK
  <2>2. \A u \in Tasks : call'[u] = None <=> pc'[u] = "idle"
    BY <1>1, <1>8, <1>9, <1>11 DEF TypeOK, Grown, Same
  <2> QED
    BY <1>1, <1>8, <1>10, <2>1, <2>2 DEF TypeOK, CallsTyped, Points
<1>13. CallsFit'
  <2> SUFFICES ASSUME NEW u \in Tasks, pc'[u] # "idle"
               PROVE  CallFits(pc'[u], call'[u])
    BY DEF CallsFit
  <2>1. CASE u = t
    BY <1>8, <1>11, <2>1 DEF CallFits
  <2>2. CASE u # t
    BY <1>1, <1>8, <1>11, <2>2, KeyOfCall, GrownFits DEF CallsFit
  <2> QED
    BY <2>1, <2>2
<1>14. ASSUME NEW u \in Tasks, u # t, pc[u] # "idle"
       PROVE  /\ pc'[u] = pc[u] /\ call'[u].key = call[u].key
              /\ call'[u].landed = call[u].landed /\ call'[u].error = call[u].error
              /\ call[u].key \in Keys
  BY <1>1, <1>8, <1>11, <1>14, KeyOfCall DEF Grown, Same
<1>15. ASSUME NEW u \in Tasks, u # t, pc[u] \in OperatingPoints
       PROVE  call[u].key # k
  BY <1>1, <1>2, <1>15 DEF OneExecution, Operating
<1>16. Reserved'
  <2> SUFFICES ASSUME NEW u \in Tasks, pc'[u] \in OperatingPoints PROVE Holding(u)'
    BY DEF Reserved
  <2>1. CASE u = t
    BY <1>3, <1>9, <1>10, <1>11, <2>1 DEF Holding
  <2>2. CASE u # t
    BY <1>1, <1>10, <1>11, <1>14, <1>15, <2>2 DEF Reserved, Holding
  <2> QED
    BY <2>1, <2>2
<1>17. Explained'
  <2> SUFFICES ASSUME NEW u \in Tasks, pc'[u] = "explaining" PROVE Explaining(u)'
    BY DEF Explained
  <2>1. u # t /\ pc[u] = "explaining"
    BY <1>11
  <2>2. Explaining(u)
    BY <1>1, <2>1 DEF Explained
  <2>3. /\ call'[u].key = call[u].key /\ call'[u].landed = call[u].landed
        /\ call'[u].error = call[u].error
    BY <1>14, <2>1
  <2>4. ASSUME call[u].landed, NEW v \in Tasks, pc'[v] \in OperatingPoints
        PROVE  call'[v].key # call[u].key
    <3>1. pc[v] \in OperatingPoints /\ call'[v].key = call[v].key
      BY <1>2, <1>9, <1>11, <1>14, <2>4
    <3> QED
      BY <2>2, <2>4, <3>1 DEF Explaining
  <2> QED
    BY <1>10, <2>2, <2>3, <2>4 DEF Explaining
<1>18. OneExecution'
  <2>1. \A u \in Tasks : pc'[u] \in OperatingPoints =>
            pc[u] \in OperatingPoints /\ call'[u].key = call[u].key
    BY <1>2, <1>9, <1>11, <1>14
  <2> QED
    BY <1>1, <2>1 DEF OneExecution, Operating
<1>19. FreeMeansNoEffect'
  BY <1>1, <1>3, <1>10, <1>11 DEF FreeMeansNoEffect
<1>20. AtMostOneCommit'
  BY <1>1, <1>11 DEF AtMostOneCommit
<1>21. SafeReceiptMeansNoEffect'
  BY <1>1, <1>10 DEF SafeReceiptMeansNoEffect
<1> QED
  BY <1>12, <1>13, <1>16, <1>17, <1>18, <1>19, <1>20, <1>21 DEF LedgerInv

\* The end of an operation: its row gets a status that does not free a key whose write
\* landed, or stays as it is when the UPDATE fails.
Closes(t) ==
    /\ pc[t] \in OperatingPoints
    /\ \A u \in Tasks \ {t} : pc'[u] = pc[u] /\ call'[u] = call[u]
    /\ applied' = applied
    /\ \A j \in Keys \ {call[t].key} : rows'[j] = rows[j]
    /\ LET row == rows'[call[t].key] IN
       /\ row # None
       /\ row.status = "rejected" => ~call[t].landed
       /\ \/ pc'[t] = "idle"
          \/ /\ pc'[t] = "explaining" /\ Same(call[t], call'[t])
             /\ call[t].landed =>
                   /\ row.status \in {"pending", "uncertain"}
                   /\ call'[t].error = "other" \/ row.status = "uncertain"

LEMMA ClosesKeeps ==
    ASSUME LedgerInv, NEW t \in Tasks, Closes(t)
    PROVE  Reserved' /\ Explained' /\ OneExecution' /\ FreeMeansNoEffect'
           /\ AtMostOneCommit' /\ CallsFit'
<1> USE DEF OperatingPoints
<1> DEFINE k == call[t].key
<1>1. /\ TypeOK /\ CallsFit /\ Reserved /\ Explained /\ OneExecution
      /\ FreeMeansNoEffect /\ AtMostOneCommit
  BY DEF LedgerInv
<1>2. pc[t] \in OperatingPoints /\ call[t] # None /\ k \in Keys /\ Holding(t)
  BY <1>1, KeyOfCall DEF Closes, Reserved
<1>3. ASSUME NEW u \in Tasks, pc'[u] \in OperatingPoints
      PROVE  /\ u # t /\ pc[u] \in OperatingPoints /\ call'[u] = call[u]
             /\ call[u].key \in Keys \ {k}
  <2>1. u # t /\ pc[u] \in OperatingPoints /\ call'[u] = call[u]
    BY <1>3 DEF Closes
  <2>2. call[u].key \in Keys /\ call[u].key # k
    BY <1>1, <1>2, <2>1, KeyOfCall DEF OneExecution, Operating
  <2> QED
    BY <2>1, <2>2
<1>4. Reserved'
  BY <1>1, <1>3 DEF Reserved, Holding, Closes
<1>5. Explained'
  <2> SUFFICES ASSUME NEW u \in Tasks, pc'[u] = "explaining" PROVE Explaining(u)'
    BY DEF Explained
  <2>1. CASE u = t
    <3>1. call'[t].key = k /\ call'[t].landed = call[t].landed
      BY <1>2, <2>1 DEF Closes, Same
    <3>2. \A v \in Tasks : pc'[v] \in OperatingPoints => call'[v].key # k
      BY <1>3
    <3> QED
      BY <2>1, <3>1, <3>2 DEF Closes, Explaining
  <2>2. CASE u # t
    <3>1. /\ pc[u] = "explaining" /\ call'[u] = call[u] /\ Explaining(u)
          /\ call[u].key \in Keys
      BY <1>1, <2>2, KeyOfCall DEF Closes, Explained
    <3>2. call[u].landed => call[u].key # k
      BY <1>2, <3>1 DEF Explaining
    <3>3. rows'[call[u].key] # None
      BY <3>1 DEF Closes, Explaining
    <3>4. \A v \in Tasks : pc'[v] \in OperatingPoints =>
              pc[v] \in OperatingPoints /\ call'[v] = call[v]
      BY <1>3
    <3> QED
      BY <3>1, <3>2, <3>3, <3>4 DEF Closes, Explaining
  <2> QED
    BY <2>1, <2>2
<1>6. OneExecution'
  BY <1>1, <1>3 DEF OneExecution, Operating
<1>7. FreeMeansNoEffect'
  <2> SUFFICES ASSUME NEW j \in Keys, rows'[j] = None \/ rows'[j].status = "rejected"
               PROVE  applied[j] = 0
    BY DEF FreeMeansNoEffect, Closes
  <2>1. CASE j = k
    BY <1>2, <2>1 DEF Holding, Closes
  <2>2. CASE j # k
    BY <1>1, <2>2 DEF FreeMeansNoEffect, Closes
  <2> QED
    BY <2>1, <2>2
<1>8. AtMostOneCommit'
  BY <1>1 DEF AtMostOneCommit, Closes
<1>9. CallsFit'
  BY <1>1 DEF CallsFit, CallFits, Closes
<1> QED
  BY <1>4, <1>5, <1>6, <1>7, <1>8, <1>9

LEMMA RecordFailureKeeps ==
    ASSUME LedgerInv, NEW t \in Tasks, RecordFailure(t) PROVE LedgerInv'
<1> USE DEF OperatingPoints
<1> DEFINE k == call[t].key
           s == FailureStatus(call[t])
           c == [call[t] EXCEPT !.error = "other"]
           r == [rows[k] EXCEPT !.status = s]
<1>1. TypeOK /\ CallsFit /\ Reserved /\ SafeReceiptMeansNoEffect
  BY DEF LedgerInv
<1>2. /\ call[t] \in Calls /\ call[t] # None /\ k \in Keys /\ pc[t] = "failed"
      /\ Holding(t) /\ CallFits("failed", call[t])
  BY <1>1, KeyOfCall DEF RecordFailure, At, CallsFit, Reserved
<1>3. rows[k] \in Rows /\ rows[k] # None /\ rows[k].status \in {"pending", "uncertain"}
  BY <1>1, <1>2 DEF Holding, TypeOK
<1>4. s \in {"uncertain", "rejected"} /\ (call[t].landed => s = "uncertain")
  BY <1>2 DEF FailureStatus, CallFits
<1>5. pc' = [pc EXCEPT ![t] = "explaining"] /\ UNCHANGED <<reply, applied, losses>>
  BY DEF RecordFailure, Goto
<1>6. /\ pc' \in [Tasks -> Points] /\ pc'[t] = "explaining"
      /\ \A u \in Tasks \ {t} : pc'[u] = pc[u]
  BY <1>1, <1>5 DEF TypeOK, Points
<1>7. CASE SetStatus(k, s) /\ UNCHANGED call
  <2>1. r \in Rows /\ r # None /\ r.status = s
    <3>1. s \in Statuses
      BY <1>4 DEF Statuses
    <3>2. r \in Rows /\ r.status = s
      BY <1>3, <3>1 DEF Rows
    <3> QED
      BY <3>2, NoneIsNoCall
  <2>2. rows' = [rows EXCEPT ![k] = r] /\ call' = call
    BY <1>7 DEF SetStatus
  <2> HIDE DEF r, s
  <2>3. rows'[k] = r /\ \A j \in Keys \ {k} : rows'[j] = rows[j]
    BY <1>1, <1>2, <2>2 DEF TypeOK
  <2>4. TypeOK'
    BY <1>1, <1>2, <1>5, <1>6, <2>1, <2>2 DEF TypeOK
  <2>5. Closes(t)
    BY <1>2, <1>4, <1>5, <1>6, <2>1, <2>2, <2>3 DEF Closes, Same
  <2> QED
    BY <1>1, <1>5, <2>4, <2>5, ClosesKeeps DEF LedgerInv, SafeReceiptMeansNoEffect
<1>8. CASE UNCHANGED rows /\ Update(t, c)
  <2>1. c \in Calls /\ c # None /\ c.error = "other" /\ c.key = k
        /\ c.landed = call[t].landed
    BY <1>2, ErrorOfCall DEF Errors
  <2>2. call' = [call EXCEPT ![t] = c] /\ rows' = rows
    BY <1>8 DEF Update
  <2> HIDE DEF c
  <2>3. call'[t] = c /\ \A u \in Tasks \ {t} : call'[u] = call[u]
    BY <1>1, <2>2 DEF TypeOK
  <2>4. TypeOK'
    BY <1>1, <1>2, <1>5, <1>6, <2>1, <2>2 DEF TypeOK
  <2>5. Closes(t)
    BY <1>2, <1>3, <1>5, <1>6, <2>1, <2>2, <2>3 DEF Closes, Same
  <2> QED
    BY <1>1, <1>5, <2>4, <2>5, ClosesKeeps DEF LedgerInv, SafeReceiptMeansNoEffect
<1> QED
  BY <1>7, <1>8 DEF RecordFailure

LEMMA RecordSuccessKeeps ==
    ASSUME LedgerInv, NEW t \in Tasks, RecordSuccess(t) PROVE LedgerInv'
<1> USE DEF OperatingPoints
<1> DEFINE k == call[t].key
           c == [call[t] EXCEPT !.error = "other"]
           r == [rows[k] EXCEPT !.status = "completed"]
<1>1. TypeOK /\ CallsFit /\ Reserved /\ SafeReceiptMeansNoEffect
  BY DEF LedgerInv
<1>2. /\ call[t] \in Calls /\ call[t] # None /\ k \in Keys /\ pc[t] = "done"
      /\ Holding(t)
  BY <1>1, KeyOfCall DEF RecordSuccess, At, Reserved
<1>3. rows[k] \in Rows /\ rows[k] # None /\ rows[k].status \in {"pending", "uncertain"}
  BY <1>1, <1>2 DEF Holding, TypeOK
<1>4. UNCHANGED <<applied, losses>>
  BY DEF RecordSuccess
<1>5. CASE SetStatus(k, "completed") /\ Answer(t, FALSE, "completed")
  <2>1. r \in Rows /\ r # None /\ r.status = "completed"
    <3>1. r \in Rows /\ r.status = "completed"
      BY <1>3 DEF Rows, Statuses
    <3> QED
      BY <3>1, NoneIsNoCall
  <2>2. rows' = [rows EXCEPT ![k] = r]
    BY <1>5 DEF SetStatus
  <2> HIDE DEF r
  <2>3. rows'[k] = r /\ \A j \in Keys \ {k} : rows'[j] = rows[j]
    BY <1>1, <1>2, <2>2 DEF TypeOK
  <2>4. "completed" \in Statuses \cup {None}
    BY DEF Statuses
  <2>5. /\ pc' \in [Tasks -> Points] /\ call' \in [Tasks -> Calls \cup {None}]
        /\ \A u \in Tasks : call'[u] = None <=> pc'[u] = "idle"
        /\ reply' \in [Tasks -> Replies \cup {None}]
        /\ \A u \in Tasks \ {t} :
              pc'[u] = pc[u] /\ call'[u] = call[u] /\ reply'[u] = reply[u]
        /\ pc'[t] = "idle" /\ ~reply'[t].safe
    BY <1>1, <1>2, <1>5, <2>4, AnswerTyped
  <2>6. TypeOK'
    BY <1>1, <1>2, <1>4, <2>1, <2>2, <2>5 DEF TypeOK
  <2>7. Closes(t)
    BY <1>2, <1>4, <2>1, <2>3, <2>5 DEF Closes
  <2>8. SafeReceiptMeansNoEffect'
    BY <1>1, <2>5 DEF SafeReceiptMeansNoEffect
  <2> QED
    BY <2>6, <2>7, <2>8, ClosesKeeps DEF LedgerInv
<1>6. CASE Goto(t, "explaining") /\ Update(t, c) /\ UNCHANGED <<rows, reply>>
  <2>1. c \in Calls /\ c # None /\ c.error = "other" /\ c.key = k
        /\ c.landed = call[t].landed
    BY <1>2, ErrorOfCall DEF Errors
  <2>2. /\ call' = [call EXCEPT ![t] = c] /\ rows' = rows /\ reply' = reply
        /\ pc' = [pc EXCEPT ![t] = "explaining"]
    BY <1>6 DEF Update, Goto
  <2> HIDE DEF c
  <2>3. /\ call'[t] = c /\ pc'[t] = "explaining"
        /\ \A u \in Tasks \ {t} : call'[u] = call[u] /\ pc'[u] = pc[u]
    BY <1>1, <2>2 DEF TypeOK
  <2>4. TypeOK'
    BY <1>1, <1>2, <1>4, <2>1, <2>2 DEF TypeOK, Points
  <2>5. Closes(t)
    BY <1>2, <1>3, <1>4, <2>1, <2>2, <2>3 DEF Closes, Same
  <2> QED
    BY <1>1, <2>2, <2>4, <2>5, ClosesKeeps DEF LedgerInv, SafeReceiptMeansNoEffect
<1> QED
  BY <1>5, <1>6 DEF RecordSuccess

-----------------------------------------------------------------------------
(***************************************************************************)
(* The invariant, and the theorems.                                        *)
(***************************************************************************)

LEMMA InitLedger == Init => LedgerInv
<1> SUFFICES ASSUME Init PROVE LedgerInv
  OBVIOUS
<1>1. 0 \in 0..MaxLosses
  BY LedgerAssumption
<1>2. TypeOK
  BY <1>1 DEF Init, TypeOK, Points
<1> QED
  BY <1>2
  DEF Init, LedgerInv, CallsFit, Reserved, Explained, OneExecution, Operating,
      FreeMeansNoEffect, AtMostOneCommit, SafeReceiptMeansNoEffect, OperatingPoints

LEMMA StepKeeps == ASSUME LedgerInv, NEW t \in Tasks, Step(t) PROVE LedgerInv'
<1>1. TypeOK /\ CallsFit
  BY DEF LedgerInv
<1>2. CASE \/ Check(t) \/ Accepted(t) \/ Lost(t) \/ ServerError(t) \/ Throttled(t)
           \/ Unauthorized(t) \/ Refused(t) \/ Verify(t)
  <2>1. Continues(t)
    BY <1>1, <1>2, CheckContinues, AcceptedContinues, LostContinues,
       ServerErrorContinues, RefusalContinues, VerifyContinues
  <2> QED
    BY <2>1, ContinuesKeeps
<1>3. CASE Reserve(t) \/ RefusePayload(t) \/ Replay(t)
  BY <1>3, ReserveKeeps, RefusePayloadKeeps, ReplayKeeps
<1>4. CASE Send(t)
  BY <1>4, SendKeeps
<1>5. CASE RecordFailure(t) \/ RecordSuccess(t) \/ Explain(t)
  BY <1>5, RecordFailureKeeps, RecordSuccessKeeps, ExplainKeeps
<1> QED
  BY <1>2, <1>3, <1>4, <1>5 DEF Step

LEMMA NextKeepsLedger == LedgerInv /\ [Next]_vars => LedgerInv'
<1> SUFFICES ASSUME LedgerInv, [Next]_vars PROVE LedgerInv'
  OBVIOUS
<1>1. CASE UNCHANGED vars
  BY <1>1
  DEF vars, LedgerInv, TypeOK, CallsFit, Reserved, Explained, OneExecution, Operating,
      FreeMeansNoEffect, AtMostOneCommit, SafeReceiptMeansNoEffect, Holding, Explaining
<1>2. ASSUME NEW t \in Tasks, NEW k \in Keys, NEW p \in Payloads, Start(t, k, p)
      PROVE  LedgerInv'
  BY <1>2, StartKeeps
<1>3. ASSUME NEW t \in Tasks, Step(t) PROVE LedgerInv'
  BY <1>3, StepKeeps
<1>4. ASSUME NEW tasks \in SUBSET Tasks, Lose(tasks) PROVE LedgerInv'
  BY <1>4, LoseKeeps
<1>5. ASSUME NEW p, OtherRequest(p) PROVE LedgerInv'
  BY <1>5, OtherRequestKeeps
<1>6. ASSUME NEW k \in Keys, Age(k) PROVE LedgerInv'
  BY <1>6, AgeKeeps
<1>7. \A t \in Tasks : {t} \in SUBSET Tasks
  OBVIOUS
<1>8. \A p : {t \in Tasks : ProcessOf[t] = p} \in SUBSET Tasks
  OBVIOUS
<1> QED
  BY <1>1, <1>2, <1>3, <1>4, <1>5, <1>6, <1>7, <1>8 DEF Next

\* The invariant of a reservation: who holds a row, what its key has done, what was told.
THEOREM Invariance == Spec => []LedgerInv
  BY InitLedger, NextKeepsLedger, PTL DEF Spec

\* The ledger, the calls and the envelopes keep their types.
THEOREM TypesAreInvariant == Spec => []TypeOK
<1>1. LedgerInv => TypeOK
  BY DEF LedgerInv
<1> QED
  BY <1>1, Invariance, PTL

\* For every number of processes, tasks, keys, retries and losses: no two tasks run the
\* operation of one key at the same time, because a row is only reserved when nobody
\* operates on it, and nothing but the closing update frees it.
THEOREM OneTaskPerKey == Spec => []OneExecution
<1>1. LedgerInv => OneExecution
  BY DEF LedgerInv
<1> QED
  BY <1>1, Invariance, PTL

\* However often a key is retried, its write takes effect at most once.
THEOREM KeyCommitsOnce == Spec => []AtMostOneCommit
<1>1. LedgerInv => AtMostOneCommit
  BY DEF LedgerInv
<1> QED
  BY <1>1, Invariance, PTL

\* A rejected row, which may be retried, stands for a write without effect that nobody is
\* making any more.
THEOREM RejectedIsWithoutEffect == Spec => []RejectedMeansNoEffect
<1>1. LedgerInv => RejectedMeansNoEffect
  <2> SUFFICES ASSUME LedgerInv, NEW k \in Keys, rows[k] # None,
                      rows[k].status = "rejected"
               PROVE  /\ applied[k] = 0
                      /\ \A t \in Tasks : Operating(t) => call[t].key # k
    BY DEF RejectedMeansNoEffect
  <2>1. applied[k] = 0
    BY DEF LedgerInv, FreeMeansNoEffect
  <2>2. \A t \in Tasks : Operating(t) => call[t].key # k
    BY DEF LedgerInv, Reserved, Holding, Operating, OperatingPoints
  <2> QED
    BY <2>1, <2>2
<1> QED
  BY <1>1, Invariance, PTL

\* Whoever got a receipt and was told that a retry is safe was told so of a write that did
\* not land, although the envelope is composed from an exception and a row read later.
THEOREM SafeReceiptsAreTrue == Spec => []SafeReceiptMeansNoEffect
<1>1. LedgerInv => SafeReceiptMeansNoEffect
  BY DEF LedgerInv, SafeReceiptMeansNoEffect
<1> QED
  BY <1>1, Invariance, PTL

=============================================================================
