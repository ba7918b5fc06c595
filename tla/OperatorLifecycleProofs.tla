---------------------- MODULE OperatorLifecycleProofs ----------------------
(***************************************************************************)
(* Theorems about OperatorLifecycle, for any sets of runners, operations,  *)
(* plans and grants.                                                       *)
(***************************************************************************)
EXTENDS OperatorLifecycle, TLAPS

\* The part of TypeOK a runner's own steps change.
CallsOK ==
    /\ store \in [Operations -> Rows \cup {None}]
    /\ pc \in [Runners -> Points]
    /\ call \in [Runners -> Calls \cup {None}]
    /\ \A r \in Runners : call[r] = None <=> pc[r] = "idle"

\* A runner past the insert holds a copy of a row, of the plan it was called
\* for, and the operation still has a row of that plan.
Held ==
    \A r \in Runners :
        pc[r] \notin {"idle", "insert"} =>
            /\ call[r].seen # None
            /\ call[r].seen.plan = call[r].plan
            /\ store[call[r].op] # None
            /\ store[call[r].op].plan = call[r].plan

\* A call that goes on to a point past the insert keeps the types, if it still
\* holds its row.
LEMMA ContinueKeepsCalls ==
    ASSUME CallsOK, Held,
           NEW r \in Runners, NEW point \in Points, NEW c \in Calls,
           Continue(r, point, c), UNCHANGED store,
           point \notin {"idle", "insert"} =>
               /\ c.seen # None
               /\ c.seen.plan = c.plan
               /\ store[c.op] # None
               /\ store[c.op].plan = c.plan
    PROVE  CallsOK' /\ Held'
<1>1. CallsOK'
  BY NoneAssumption DEF CallsOK, Continue
<1>2. Held'
  BY DEF CallsOK, Held, Continue
<1>3. QED
  BY <1>1, <1>2

LEMMA ReturnKeepsCalls ==
    ASSUME CallsOK, Held, NEW r \in Runners, Return(r), UNCHANGED store
    PROVE  CallsOK' /\ Held'
<1>1. "idle" \in Points
  BY DEF Points
<1>2. CallsOK'
  BY <1>1, NoneAssumption DEF CallsOK, Return, Continue
<1>3. Held'
  BY DEF CallsOK, Held, Return, Continue
<1>4. QED
  BY <1>2, <1>3

LEMMA UpdatedRow ==
    ASSUME NEW seen \in Rows, NEW status \in Statuses, NEW reason \in Reasons,
           NEW poll \in Nat
    PROVE  /\ Updated(seen, status, reason, poll) \in Rows
           /\ Updated(seen, status, reason, poll).plan = seen.plan
           /\ Updated(seen, status, reason, poll).status = status
BY DEF Rows, Updated

LEMMA TransitionKeepsCalls ==
    ASSUME CallsOK, Held,
           NEW r \in Runners, NEW status \in Statuses, NEW reason \in Reasons,
           NEW poll \in Nat, NEW point \in Points,
           point # "insert", pc[r] \notin {"idle", "insert"},
           Transition(r, status, reason, poll, point)
    PROVE  CallsOK' /\ Held'
<1> DEFINE c == call[r]
           row == Updated(c.seen, status, reason, poll)
<1>1. c \in Calls /\ c.seen \in Rows
  BY DEF CallsOK, Held, Calls
<1>2. row \in Rows /\ row.plan = c.seen.plan
  BY <1>1, UpdatedRow
<1>3. c.op \in Operations
  BY <1>1 DEF Calls
<1>4. CASE ~(status \in Allowed[c.seen.status] /\ Current(r))
  BY <1>4, ReturnKeepsCalls DEF Transition
<1>5. CASE status \in Allowed[c.seen.status] /\ Current(r)
  <2> DEFINE d == [c EXCEPT !.seen = row]
  <2>1. /\ store' = [store EXCEPT ![c.op] = row]
        /\ Continue(r, point, d)
    BY <1>5 DEF Transition
  <2>2. d \in Calls /\ d.seen = row /\ d.op = c.op /\ d.plan = c.plan
    BY <1>1, <1>2 DEF Calls
  <2>3. store[c.op] # None /\ store[c.op].plan = c.plan /\ c.seen.plan = c.plan
    BY DEF Held
  <2> HIDE DEF d, row, c
  <2>4. store' \in [Operations -> Rows \cup {None}]
    BY <2>1, <1>2, <1>3 DEF CallsOK
  <2>5. /\ pc' \in [Runners -> Points]
        /\ call' \in [Runners -> Calls \cup {None}]
        /\ \A s \in Runners : call'[s] = None <=> pc'[s] = "idle"
    BY <2>1, <2>2, NoneAssumption DEF CallsOK, Continue
  <2>6. row # None
    BY <1>2, NoneAssumption
  <2>7. \A o \in Operations :
           store[o] # None => store'[o] # None /\ store'[o].plan = store[o].plan
    BY <2>1, <2>3, <2>6, <1>2, <1>3 DEF CallsOK
  <2>8. ASSUME NEW s \in Runners, pc'[s] \notin {"idle", "insert"}
        PROVE  /\ call'[s].seen # None
               /\ call'[s].seen.plan = call'[s].plan
               /\ store'[call'[s].op] # None
               /\ store'[call'[s].op].plan = call'[s].plan
    <3>1. CASE s = r
      BY <3>1, <2>1, <2>2, <2>3, <2>6, <2>7, <2>8, <1>2, <1>3
      DEF CallsOK, Continue
    <3>2. CASE s # r
      <4>1. call'[s] = call[s] /\ pc'[s] = pc[s]
        BY <3>2, <2>1 DEF CallsOK, Continue
      <4>2. call[s] \in Calls
        BY <4>1, <2>8 DEF CallsOK
      <4>3. call[s].op \in Operations
        BY <4>2 DEF Calls
      <4>4. QED
        BY <4>1, <4>3, <2>7, <2>8 DEF Held
    <3>3. QED
      BY <3>1, <3>2
  <2>9. QED
    BY <2>4, <2>5, <2>8 DEF CallsOK, Held
<1>6. QED
  BY <1>4, <1>5

\* The steps that change the ledgers through Transition, and only so.
RowStep(r) ==
    \/ Submit(r) \/ MarkInterrupted(r) \/ Resubmit(r) \/ Promote(r)
    \/ CloseExpired(r) \/ CloseDrifted(r) \/ Dispatch(r)
    \/ RecordOutcome(r) \/ Finish(r) \/ Attach(r) \/ TimeOut(r)
    \/ RecordPending(r) \/ RecordObservation(r) \/ RecordCancelled(r)

\* Every such step is a transition of the row the runner holds.  Only one to
\* EXECUTING goes on to the provider, and only an authorized call gets a row to
\* AUTHORIZED.
LEMMA RowStepIsTransition ==
    ASSUME CallsOK, Held, NEW r \in Runners, RowStep(r)
    PROVE  /\ pc[r] \notin {"idle", "insert"}
           /\ UNCHANGED ledgers
           /\ \E status \in Statuses, reason \in Reasons, poll \in Nat,
                 point \in Points \ {"insert"} :
                 /\ Transition(r, status, reason, poll, point)
                 /\ point = "calling" => status = "EXECUTING"
                 /\ point = "approve" => call[r].approvals # {}
                 /\ point = "promote" => call[r].authorized
                 /\ status = "AUTHORIZED" => pc[r] = "promote"
<1>1. pc[r] \notin {"idle", "insert"} /\ UNCHANGED ledgers
  BY DEF RowStep, Submit, MarkInterrupted, Resubmit, Promote, CloseExpired,
         CloseDrifted, Dispatch, RecordOutcome, Finish, Attach, TimeOut,
         RecordPending, RecordObservation, RecordCancelled
<1>2. call[r] \in Calls /\ call[r].seen \in Rows
  BY <1>1 DEF CallsOK, Held, Calls
<1>3. /\ Outcome(call[r].answer)[1] \in Statuses \ {"AUTHORIZED"}
      /\ Outcome(call[r].answer)[2] \in Reasons
  BY DEF Outcome, Statuses, Reasons
<1>4. /\ Terminal(call[r].seen.status) \in Statuses \ {"AUTHORIZED"}
      /\ call[r].seen.reason \in Reasons
  BY <1>2 DEF Rows, Terminal, Statuses
<1> DEFINE Moves(status, reason, poll, point) ==
             /\ Transition(r, status, reason, poll, point)
             /\ point = "calling" => status = "EXECUTING"
             /\ point = "approve" => call[r].approvals # {}
             /\ point = "promote" => call[r].authorized
             /\ status = "AUTHORIZED" => pc[r] = "promote"
<1>5. CASE Submit(r) \/ Resubmit(r)
  <2> DEFINE point == IF pc[r] = "submit"
                      THEN IF call[r].approvals # {} THEN "approve" ELSE "reload"
                      ELSE IF call[r].authorized THEN "promote" ELSE "idle"
  <2>1. Transition(r, "AWAITING_APPROVAL", "NONE", 0, point)
    BY <1>5 DEF Submit, Resubmit
  <2>2. point \in Points \ {"insert", "calling"}
    BY DEF Points
  <2>3. point = "approve" => call[r].approvals # {}
    OBVIOUS
  <2>4. point = "promote" => call[r].authorized
    OBVIOUS
  <2> HIDE DEF point
  <2>5. Moves("AWAITING_APPROVAL", "NONE", 0, point)
    BY <2>1, <2>2, <2>3, <2>4
  <2>6. QED
    BY <1>1, <2>2, <2>5 DEF Statuses, Reasons
<1>6. CASE Promote(r)
  <2>1. Moves("AUTHORIZED", "NONE", 0, "window")
    BY <1>6 DEF Promote
  <2>2. QED
    BY <1>1, <2>1 DEF Statuses, Reasons, Points
<1>7. CASE RowStep(r) /\ ~(Submit(r) \/ Resubmit(r) \/ Promote(r))
  <2> DEFINE Goes(status, reason, poll, point) ==
               /\ Transition(r, status, reason, poll, point)
               /\ point = "calling" => status = "EXECUTING"
             Some == \E status \in Statuses \ {"AUTHORIZED"}, reason \in Reasons,
                        poll \in Nat,
                        point \in Points \ {"insert", "approve", "promote"} :
                        Goes(status, reason, poll, point)
  <2>1. ASSUME MarkInterrupted(r) \/ CloseExpired(r) \/ CloseDrifted(r) \/ Dispatch(r)
        PROVE  Some
    BY <2>1 DEF MarkInterrupted, CloseExpired, CloseDrifted, Dispatch, Statuses,
       Reasons, Points
  <2>2. ASSUME RecordOutcome(r) \/ Finish(r)
        PROVE  Some
    BY <1>3, <1>4, <2>2 DEF RecordOutcome, Finish, Points
  <2>3. ASSUME Attach(r) \/ TimeOut(r) \/ RecordPending(r)
        PROVE  Some
    BY <1>2, <2>3 DEF Attach, TimeOut, RecordPending, Rows, Statuses, Reasons, Points
  <2>4. ASSUME RecordObservation(r) \/ RecordCancelled(r)
        PROVE  Some
    BY <1>2, <1>3, <2>4 DEF RecordObservation, RecordCancelled, Rows, Statuses,
       Reasons, Points
  <2>5. Some
    BY <1>7, <2>1, <2>2, <2>3, <2>4 DEF RowStep
  <2>6. QED
    BY <1>1, <2>5
<1>8. QED
  BY <1>5, <1>6, <1>7

LEMMA RowStepKeepsCalls ==
    ASSUME CallsOK, Held, NEW r \in Runners, RowStep(r)
    PROVE  CallsOK' /\ Held'
<1>1. pc[r] \notin {"idle", "insert"}
  BY RowStepIsTransition
<1>2. PICK status \in Statuses, reason \in Reasons, poll \in Nat,
           point \in Points \ {"insert"} :
           Transition(r, status, reason, poll, point)
  BY RowStepIsTransition
<1>3. QED
  BY <1>1, <1>2, TransitionKeepsCalls

\* A new call knows the row it read.
LEMMA NewCallIsCall ==
    ASSUME CallsOK, now \in Nat, NEW o \in Operations, NEW p \in Plans,
           NEW grants \in SUBSET Approvals
    PROVE  /\ NewCall(o, p, grants) \in Calls
           /\ NewCall(o, p, grants).op = o
           /\ NewCall(o, p, grants).plan = p
           /\ NewCall(o, p, grants).seen = store[o]
BY DEF CallsOK, NewCall, Calls, Answers

LEMMA StartKeepsCalls ==
    ASSUME CallsOK, Held, now \in Nat, NEW r \in Runners, Start(r)
    PROVE  CallsOK' /\ Held'
<1>1. ASSUME NEW o \in Operations, NEW p \in Plans,
             NEW grants \in SUBSET Approvals, StartExecute(r, o, p, grants)
      PROVE  CallsOK' /\ Held'
  <2> DEFINE point == IF store[o] = None THEN "insert"
                      ELSE AfterEnsure(store[o], grants)
  <2>1. point \in Points /\ (store[o] = None => point = "insert")
    BY DEF AfterEnsure, Points
  <2>2. store[o] # None => store[o].plan = p
    BY <1>1 DEF StartExecute
  <2>3. Continue(r, point, NewCall(o, p, grants)) /\ UNCHANGED store
    BY <1>1 DEF StartExecute
  <2>4. QED
    BY <2>1, <2>2, <2>3, NewCallIsCall, ContinueKeepsCalls
<1>2. ASSUME NEW o \in Operations,
             StartResume(r, o) \/ StartObserve(r, o) \/ StartCancel(r, o)
      PROVE  CallsOK' /\ Held'
  <2>1. store[o] # None /\ store[o] \in Rows /\ store[o].plan \in Plans
    BY <1>2 DEF StartResume, StartObserve, StartCancel, CallsOK, Rows
  <2>2. UNCHANGED store
    BY <1>2 DEF StartResume, StartObserve, StartCancel
  <2>3. \E point \in Points : Continue(r, point, NewCall(o, store[o].plan, {}))
    BY <1>2 DEF StartResume, StartObserve, StartCancel, AfterReload, Points
  <2>4. PICK point \in Points : Continue(r, point, NewCall(o, store[o].plan, {}))
    BY <2>3
  <2>5. PICK p \in Plans : p = store[o].plan
    BY <2>1
  <2>6. QED
    BY <2>1, <2>2, <2>4, <2>5, NewCallIsCall, ContinueKeepsCalls
<1>3. QED
  BY <1>1, <1>2 DEF Start

LEMMA InsertKeepsCalls ==
    ASSUME CallsOK, Held, NEW r \in Runners, Insert(r)
    PROVE  CallsOK' /\ Held'
<1> DEFINE c == call[r]
           row == [plan |-> c.plan, status |-> "PLANNED", reason |-> "NONE",
                   polls |-> 0,
                   deadline |-> EarlierOf(Expires, c.asOf + ObservationTimeout)]
<1>1. c \in Calls /\ c.op \in Operations /\ c.plan \in Plans
  BY DEF Insert, CallsOK, Calls
<1>2. EarlierOf(Expires, c.asOf + ObservationTimeout) \in Nat
  BY <1>1, ParameterAssumption DEF EarlierOf, Calls
<1>3. row \in Rows /\ row # None
  BY <1>1, <1>2, NoneAssumption DEF Rows, Statuses, Reasons
<1>4. CASE store[c.op] = None /\ PlanIsFree(c.plan)
  <2> DEFINE d == [c EXCEPT !.seen = row]
  <2>1. store' = [store EXCEPT ![c.op] = row] /\ Continue(r, "submit", d)
    BY <1>4 DEF Insert
  <2>2. d \in Calls /\ d.seen = row /\ d.op = c.op /\ d.plan = c.plan
    BY <1>1, <1>3 DEF Calls
  <2>3. row.plan = c.plan
    OBVIOUS
  <2> HIDE DEF row, c, d
  <2>4. CallsOK'
    BY <2>1, <2>2, <1>1, <1>3, NoneAssumption DEF CallsOK, Continue, Points
  <2>5. ASSUME NEW s \in Runners, s # r, pc[s] \notin {"idle", "insert"}
        PROVE  call[s].op \in Operations /\ call[s].op # c.op
    <3>1. call[s] \in Calls
      BY <2>5 DEF CallsOK
    <3>2. QED
      BY <3>1, <2>5, <1>4 DEF Held, Calls, c
  <2>6. Held'
    BY <2>1, <2>2, <2>3, <2>5, <1>1, <1>3 DEF CallsOK, Held, Continue
  <2>7. QED
    BY <2>4, <2>6
<1>5. CASE ~(store[c.op] = None /\ PlanIsFree(c.plan))
  BY <1>5, ReturnKeepsCalls DEF Insert
<1>6. QED
  BY <1>4, <1>5

\* The steps that wait on a ledger or on the provider and leave the rows alone.
AskStep(r) ==
    \/ CheckBurned(r) \/ Burn(r) \/ Reload(r) \/ Preflight(r)
    \/ CallProvider(r) \/ Poll(r) \/ CallCancel(r)

\* Such a step returns, or goes on with the same call, its copy of the row
\* renewed by Reload only; it never goes on to the provider request.
LEMMA AskStepContinues ==
    ASSUME CallsOK, Held, NEW r \in Runners, AskStep(r)
    PROVE  /\ UNCHANGED store
           /\ \/ Return(r)
              \/ \E point \in Points \ {"idle", "insert", "calling"}, c \in Calls :
                    /\ Continue(r, point, c)
                    /\ c.op = call[r].op /\ c.plan = call[r].plan
                    /\ c.seen # None /\ c.seen.plan = c.plan
<1>1. pc[r] \notin {"idle", "insert"} /\ UNCHANGED store
  BY DEF AskStep, CheckBurned, Burn, Reload, Preflight, CallProvider, Poll,
         CallCancel
<1> DEFINE c == call[r]
           Asks(d) == \/ Return(r)
                      \/ \E point \in Points \ {"idle", "insert", "calling"} :
                            Continue(r, point, d)
<1>2. /\ c \in Calls
      /\ store[c.op] # None /\ store[c.op].plan = c.plan
      /\ c.seen # None /\ c.seen.plan = c.plan
  BY <1>1 DEF CallsOK, Held
<1>3. store[c.op] \in Rows
  BY <1>2 DEF CallsOK, Calls
<1>4. CASE CheckBurned(r) \/ Burn(r)
  <2> DEFINE d == [c EXCEPT !.authorized = TRUE]
  <2>1. d \in Calls /\ d.op = c.op /\ d.plan = c.plan /\ d.seen = c.seen
    BY <1>2 DEF Calls
  <2>2. Asks(d) \/ Asks(c)
    BY <1>4 DEF CheckBurned, Burn, Points
  <2>3. QED
    BY <1>1, <1>2, <2>1, <2>2
<1>5. CASE Reload(r)
  <2> DEFINE d == [c EXCEPT !.seen = store[c.op]]
  <2>1. d \in Calls /\ d.op = c.op /\ d.plan = c.plan /\ d.seen = store[c.op]
    BY <1>2, <1>3 DEF Calls
  <2>2. AfterReload(store[c.op], c.authorized)
          \in Points \ {"insert", "calling"}
    BY DEF AfterReload, Points
  <2>3. Continue(r, AfterReload(store[c.op], c.authorized), d)
    BY <1>5 DEF Reload
  <2>4. Asks(d)
    BY <2>2, <2>3 DEF Return, Continue
  <2>5. QED
    BY <1>1, <1>2, <2>1, <2>4
<1>6. CASE Preflight(r) \/ CallCancel(r)
  <2>1. Asks(c)
    BY <1>6 DEF Preflight, CallCancel, Return, Continue, Points
  <2>2. QED
    BY <1>1, <1>2, <2>1
<1>7. CASE CallProvider(r) \/ Poll(r)
  <2>1. \E a \in Answers, point \in {"answered", "polled"} :
           Continue(r, point, [c EXCEPT !.answer = a])
    BY <1>7 DEF CallProvider, Poll, ExecutionAnswers, ObservationAnswers,
                Answers, Worlds
  <2>2. PICK a \in Answers, point \in {"answered", "polled"} :
             Continue(r, point, [c EXCEPT !.answer = a])
    BY <2>1
  <2> DEFINE d == [c EXCEPT !.answer = a]
  <2>3. d \in Calls /\ d.op = c.op /\ d.plan = c.plan /\ d.seen = c.seen
    BY <1>2 DEF Calls
  <2>4. Asks(d)
    BY <2>2 DEF Points
  <2>5. QED
    BY <1>1, <1>2, <2>3, <2>4
<1>8. QED
  BY <1>4, <1>5, <1>6, <1>7 DEF AskStep

LEMMA AskStepKeepsCalls ==
    ASSUME CallsOK, Held, NEW r \in Runners, AskStep(r)
    PROVE  CallsOK' /\ Held'
<1>1. UNCHANGED store
  BY AskStepContinues
<1>2. CASE Return(r)
  BY <1>1, <1>2, ReturnKeepsCalls
<1>3. ASSUME NEW point \in Points \ {"idle", "insert", "calling"},
             NEW c \in Calls, Continue(r, point, c), c.op = call[r].op,
             c.plan = call[r].plan, c.seen # None, c.seen.plan = c.plan
      PROVE  CallsOK' /\ Held'
  <2>1. pc[r] \notin {"idle", "insert"}
    BY DEF AskStep, CheckBurned, Burn, Reload, Preflight, CallProvider, Poll,
           CallCancel
  <2>2. store[c.op] # None /\ store[c.op].plan = c.plan
    BY <1>3, <2>1 DEF Held
  <2>3. QED
    BY <1>1, <1>3, <2>2, ContinueKeepsCalls
<1>4. QED
  BY <1>2, <1>3, AskStepContinues

\* The steps of Next, by what they do to the rows.
LEMMA NextCases ==
    ASSUME Next
    PROVE  \/ \E r \in Runners :
                \/ Start(r) \/ Insert(r) \/ RowStep(r) \/ AskStep(r) \/ Crash(r)
           \/ \E p \in Plans : JobEnds(p)
           \/ Tick
BY DEF Next, Step, RowStep, AskStep

LEMMA NextKeepsCalls ==
    ASSUME CallsOK, Held, now \in Nat, [Next]_vars
    PROVE  CallsOK' /\ Held'
<1>1. ASSUME NEW r \in Runners, Crash(r)
      PROVE  CallsOK' /\ Held'
  BY <1>1, ReturnKeepsCalls DEF Crash
<1>2. ASSUME UNCHANGED <<store, pc, call>>
      PROVE  CallsOK' /\ Held'
  BY <1>2 DEF CallsOK, Held
<1>3. CASE UNCHANGED vars
  BY <1>2, <1>3 DEF vars
<1>4. CASE Tick \/ \E p \in Plans : JobEnds(p)
  BY <1>2, <1>4 DEF Tick, JobEnds
<1>5. QED
  BY <1>1, <1>3, <1>4, NextCases, StartKeepsCalls, InsertKeepsCalls,
     RowStepKeepsCalls, AskStepKeepsCalls

\* The part of TypeOK that belongs to the approval ledger, the provider and the
\* clock.
LedgersOK ==
    /\ consumed \in [Approvals -> Plans \cup {None}]
    /\ world \in [Plans -> Worlds]
    /\ started \in [Plans -> Nat]
    /\ requests \in [Operations -> Nat]
    /\ now \in 0..MaxTime
    /\ crashes \in 0..MaxCrashes

LEMMA NextKeepsLedgers ==
    ASSUME CallsOK, Held, LedgersOK, [Next]_vars
    PROVE  LedgersOK'
<1>1. ASSUME UNCHANGED ledgers
      PROVE  LedgersOK'
  BY <1>1 DEF ledgers, LedgersOK
<1>2. ASSUME NEW r \in Runners, Start(r) \/ Insert(r) \/ RowStep(r)
      PROVE  UNCHANGED ledgers
  BY <1>2, RowStepIsTransition DEF Start, StartExecute, StartResume,
     StartObserve, StartCancel, Insert
<1>3. ASSUME NEW r \in Runners, AskStep(r)
      PROVE  LedgersOK'
  <2>1. call[r] \in Calls
    BY <1>3 DEF CallsOK, AskStep, CheckBurned, Burn, Reload, Preflight,
                CallProvider, Poll, CallCancel
  <2>2. call[r].plan \in Plans
    BY <2>1 DEF Calls
  <2>3. CASE CheckBurned(r) \/ Reload(r) \/ Preflight(r)
    BY <1>1, <2>3 DEF CheckBurned, Reload, Preflight
  <2>4. CASE Burn(r)
    BY <2>2, <2>4 DEF Burn, LedgersOK, external
  <2>5. CASE CallProvider(r)
    BY <2>2, <2>5 DEF CallProvider, LedgersOK
  <2>6. CASE Poll(r)
    <3>1. call[r].op \in Operations
      BY <2>1 DEF Calls
    <3>2. QED
      BY <3>1, <2>6 DEF Poll, LedgersOK
  <2>7. CASE CallCancel(r)
    BY <2>7 DEF CallCancel, LedgersOK, Worlds
  <2>8. QED
    BY <1>3, <2>3, <2>4, <2>5, <2>6, <2>7 DEF AskStep
<1>4. ASSUME NEW r \in Runners, Crash(r)
      PROVE  LedgersOK'
  BY <1>4, ParameterAssumption DEF Crash, LedgersOK
<1>5. CASE Tick
  BY <1>5, ParameterAssumption DEF Tick, LedgersOK
<1>6. ASSUME NEW p \in Plans, JobEnds(p)
      PROVE  LedgersOK'
  BY <1>6 DEF JobEnds, LedgersOK, Worlds
<1>7. CASE UNCHANGED vars
  BY <1>7 DEF vars, LedgersOK
<1>8. QED
  BY <1>1, <1>2, <1>3, <1>4, <1>5, <1>6, <1>7, NextCases

\* Type correctness; Held is what makes it inductive, because a transition
\* writes back the copy of the row that its runner holds.
THEOREM TypesAreInvariant == Spec => [](TypeOK /\ Held)
<1>1. TypeOK <=> CallsOK /\ LedgersOK
  BY DEF TypeOK, CallsOK, LedgersOK
<1>2. Init => TypeOK /\ Held
  BY ParameterAssumption
  DEF Init, TypeOK, Held, Points, Worlds
<1>3. TypeOK /\ Held /\ [Next]_vars => (TypeOK /\ Held)'
  <2> SUFFICES ASSUME TypeOK, Held, [Next]_vars
               PROVE  (TypeOK /\ Held)'
    OBVIOUS
  <2>1. now \in Nat
    BY ParameterAssumption DEF TypeOK
  <2>2. CallsOK' /\ Held' /\ LedgersOK'
    BY <1>1, <2>1, NextKeepsCalls, NextKeepsLedgers
  <2>3. QED
    BY <2>2 DEF TypeOK, CallsOK, LedgersOK
<1>4. QED
  BY <1>2, <1>3, PTL DEF Spec

-----------------------------------------------------------------------------
\* Two rows never hold the same plan (plan_digest is UNIQUE).
OneRowPerPlan ==
    \A o1, o2 \in Operations :
        /\ store[o1] # None /\ store[o2] # None
        /\ store[o1].plan = store[o2].plan
        => o1 = o2

\* A runner about to call the provider finds its plan unsent, on record past the
\* point where a process may dispatch it, and no other runner calling for it.
Callers ==
    \A r \in Runners :
        pc[r] = "calling" =>
            /\ started[call[r].plan] = 0
            /\ store[call[r].op].status \notin BeforeExecution

OneCaller ==
    \A r, s \in Runners :
        /\ pc[r] = "calling" /\ pc[s] = "calling"
        /\ call[r].plan = call[s].plan
        => r = s

OnceInv ==
    AtMostOneEffect /\ EffectIsOnRecord /\ OneRowPerPlan /\ Callers /\ OneCaller

\* No runner arrives at the provider request.
NoNewCaller ==
    \A s \in Runners : pc'[s] = "calling" => pc[s] = "calling" /\ call'[s] = call[s]

LEMMA ContinueIsNoNewCaller ==
    ASSUME CallsOK, NEW r \in Runners, NEW point, NEW c,
           Continue(r, point, c), point # "calling"
    PROVE  NoNewCaller
BY DEF CallsOK, Continue, NoNewCaller

LEMMA ReturnIsNoNewCaller ==
    ASSUME CallsOK, NEW r \in Runners, Return(r)
    PROVE  NoNewCaller
BY ContinueIsNoNewCaller DEF Return

LEMMA QuietKeepsOnce ==
    ASSUME OnceInv, UNCHANGED <<store, started>>, NoNewCaller
    PROVE  OnceInv'
BY DEF OnceInv, AtMostOneEffect, EffectIsOnRecord, RowsOf, OneRowPerPlan,
       Callers, OneCaller, NoNewCaller

\* The steps that touch neither the rows nor the count of requests.
LEMMA QuietSteps ==
    ASSUME CallsOK, Held, OnceInv, NEW r \in Runners,
           Start(r) \/ Crash(r) \/ (AskStep(r) /\ ~CallProvider(r))
    PROVE  OnceInv'
<1>1. CASE Start(r)
  <2>1. UNCHANGED <<store, started>>
    BY <1>1 DEF Start, StartExecute, StartResume, StartObserve, StartCancel,
                ledgers
  <2>2. \E point, c : Continue(r, point, c) /\ point # "calling"
    <3>1. ASSUME NEW o \in Operations, NEW p \in Plans,
                 NEW grants \in SUBSET Approvals, StartExecute(r, o, p, grants)
          PROVE  \E point, c : Continue(r, point, c) /\ point # "calling"
      <4>1. Continue(r, IF store[o] = None THEN "insert"
                        ELSE AfterEnsure(store[o], grants),
                     NewCall(o, p, grants))
        BY <3>1 DEF StartExecute
      <4>2. (IF store[o] = None THEN "insert" ELSE AfterEnsure(store[o], grants))
               # "calling"
        BY DEF AfterEnsure
      <4>3. QED
        BY <4>1, <4>2
    <3>2. ASSUME NEW o \in Operations, StartResume(r, o)
          PROVE  \E point, c : Continue(r, point, c) /\ point # "calling"
      <4>1. Continue(r, AfterReload(store[o], FALSE),
                     NewCall(o, store[o].plan, {}))
        BY <3>2 DEF StartResume
      <4>2. AfterReload(store[o], FALSE) # "calling"
        BY DEF AfterReload
      <4>3. QED
        BY <4>1, <4>2
    <3>3. ASSUME NEW o \in Operations, StartObserve(r, o) \/ StartCancel(r, o)
          PROVE  \E point, c : Continue(r, point, c) /\ point # "calling"
      <4>1. \E point \in {"poll", "attach", "cancelling"} :
               Continue(r, point, NewCall(o, store[o].plan, {}))
        BY <3>3 DEF StartObserve, StartCancel
      <4>2. QED
        BY <4>1
    <3>4. QED
      BY <1>1, <3>1, <3>2, <3>3 DEF Start
  <2>3. QED
    BY <2>1, <2>2, ContinueIsNoNewCaller, QuietKeepsOnce
<1>2. CASE Crash(r)
  BY <1>2, ReturnIsNoNewCaller, QuietKeepsOnce DEF Crash
<1>3. CASE AskStep(r) /\ ~CallProvider(r)
  <2>1. UNCHANGED started
    BY <1>3 DEF AskStep, CheckBurned, Burn, Reload, Preflight, Poll, CallCancel,
                ledgers, external
  <2>2. UNCHANGED store /\ NoNewCaller
    BY <1>3, AskStepContinues, ReturnIsNoNewCaller, ContinueIsNoNewCaller
  <2>3. QED
    BY <2>1, <2>2, QuietKeepsOnce
<1>4. QED
  BY <1>1, <1>2, <1>3

\* A new row has a plan no row had, and starts before execution.
LEMMA InsertKeepsOnce ==
    ASSUME CallsOK, Held, OnceInv, NEW r \in Runners, Insert(r)
    PROVE  OnceInv'
<1> DEFINE c == call[r]
           row == [plan |-> c.plan, status |-> "PLANNED", reason |-> "NONE",
                   polls |-> 0,
                   deadline |-> EarlierOf(Expires, c.asOf + ObservationTimeout)]
<1>1. UNCHANGED started
  BY DEF Insert, ledgers
<1>2. CASE store[c.op] = None /\ PlanIsFree(c.plan)
  <2>1. /\ store' = [store EXCEPT ![c.op] = row]
        /\ NoNewCaller
    BY <1>2, ContinueIsNoNewCaller DEF Insert
  <2>2. row.plan = c.plan
    OBVIOUS
  <2>3. c.op \in Operations
    BY DEF Insert, CallsOK, Calls
  <2> HIDE DEF row, c
  <2>4. \A o \in Operations : store'[o] = IF o = c.op THEN row ELSE store[o]
    BY <2>1, <2>3 DEF CallsOK
  <2>5. \A s \in Runners :
           pc[s] = "calling" => call[s].op \in Operations /\ call[s].op # c.op
    BY <1>2 DEF CallsOK, Held, Calls
  <2>6. AtMostOneEffect'
    BY <1>1 DEF OnceInv, AtMostOneEffect
  <2>7. EffectIsOnRecord'
    BY <1>1, <1>2, <2>4 DEF OnceInv, EffectIsOnRecord, RowsOf
  <2>8. OneRowPerPlan'
    BY <1>2, <2>2, <2>4 DEF OnceInv, OneRowPerPlan, PlanIsFree
  <2>9. Callers' /\ OneCaller'
    BY <1>1, <2>1, <2>4, <2>5 DEF OnceInv, Callers, OneCaller, NoNewCaller
  <2>10. QED
    BY <2>6, <2>7, <2>8, <2>9 DEF OnceInv
<1>3. CASE ~(store[c.op] = None /\ PlanIsFree(c.plan))
  <2>1. Return(r) /\ UNCHANGED store
    BY <1>3 DEF Insert
  <2>2. QED
    BY <2>1, <1>1, ReturnIsNoNewCaller, QuietKeepsOnce
<1>4. QED
  BY <1>2, <1>3

\* No transition leads back before execution, and EXECUTING is entered from
\* AUTHORIZED only.
LEMMA AllowedMovesOn ==
    ASSUME NEW old \in Statuses, NEW new \in Statuses, new \in Allowed[old]
    PROVE  /\ old \notin BeforeExecution => new \notin BeforeExecution
           /\ new = "EXECUTING" => old = "AUTHORIZED"
BY DEF Allowed, Statuses, BeforeExecution

\* A transition keeps the plan of its row and advances its status; only a
\* dispatch brings a runner to the provider request.
LEMMA RowStepMoves ==
    ASSUME CallsOK, Held, NEW r \in Runners, RowStep(r)
    PROVE  /\ UNCHANGED started
           /\ \/ UNCHANGED store /\ Return(r)
              \/ /\ call[r].op \in Operations
                 /\ \E row \in Rows, point \in Points :
                    /\ store' = [store EXCEPT ![call[r].op] = row]
                    /\ pc' = [pc EXCEPT ![r] = point]
                    /\ \A s \in Runners \ {r} : call'[s] = call[s]
                    /\ point # "idle" =>
                          /\ call'[r].op = call[r].op
                          /\ call'[r].plan = call[r].plan
                          /\ call'[r].authorized = call[r].authorized
                          /\ call'[r].approvals = call[r].approvals
                    /\ row.plan = store[call[r].op].plan
                    /\ row.status \in Allowed[store[call[r].op].status]
                    /\ point = "calling" => row.status = "EXECUTING"
                    /\ point = "approve" => call[r].approvals # {}
                    /\ point = "promote" => call[r].authorized
                    /\ row.status = "AUTHORIZED" => pc[r] = "promote"
<1>1. UNCHANGED started /\ pc[r] \notin {"idle", "insert"}
  BY RowStepIsTransition DEF ledgers
<1>2. PICK status \in Statuses, reason \in Reasons, poll \in Nat,
           point \in Points \ {"insert"} :
           /\ Transition(r, status, reason, poll, point)
           /\ point = "calling" => status = "EXECUTING"
           /\ point = "approve" => call[r].approvals # {}
           /\ point = "promote" => call[r].authorized
           /\ status = "AUTHORIZED" => pc[r] = "promote"
  BY RowStepIsTransition
<1> DEFINE c == call[r]
           row == Updated(c.seen, status, reason, poll)
<1>3. c \in Calls /\ c.op \in Operations /\ c.seen \in Rows
  BY <1>1 DEF CallsOK, Held, Calls
<1>4. row \in Rows /\ row.plan = c.seen.plan /\ row.status = status
  BY <1>3, UpdatedRow
<1>5. CASE ~(status \in Allowed[c.seen.status] /\ Current(r))
  BY <1>1, <1>2, <1>5 DEF Transition
<1>6. CASE status \in Allowed[c.seen.status] /\ Current(r)
  <2> DEFINE d == [c EXCEPT !.seen = row]
  <2>1. /\ store' = [store EXCEPT ![c.op] = row]
        /\ Continue(r, point, d)
    BY <1>2, <1>6 DEF Transition
  <2>2. /\ d.op = c.op /\ d.plan = c.plan
        /\ d.authorized = c.authorized /\ d.approvals = c.approvals
    BY <1>3 DEF Calls
  <2>3. /\ row.plan = store[c.op].plan
        /\ row.status \in Allowed[store[c.op].status]
    BY <1>4, <1>6 DEF Current
  <2> HIDE DEF d, row
  <2>4. /\ pc' = [pc EXCEPT ![r] = point]
        /\ \A s \in Runners \ {r} : call'[s] = call[s]
        /\ point # "idle" => call'[r] = d
    BY <2>1 DEF CallsOK, Continue
  <2>5. QED
    BY <1>1, <1>2, <1>3, <1>4, <2>1, <2>2, <2>3, <2>4
<1>7. QED
  BY <1>5, <1>6

LEMMA RowStepKeepsOnce ==
    ASSUME CallsOK, Held, LedgersOK, OnceInv, NEW r \in Runners, RowStep(r)
    PROVE  OnceInv'
<1>1. UNCHANGED started
  BY RowStepMoves
<1>2. CASE UNCHANGED store /\ Return(r)
  BY <1>1, <1>2, ReturnIsNoNewCaller, QuietKeepsOnce
<1>3. ASSUME call[r].op \in Operations,
             NEW row \in Rows, NEW point \in Points,
             store' = [store EXCEPT ![call[r].op] = row],
             pc' = [pc EXCEPT ![r] = point],
             \A s \in Runners \ {r} : call'[s] = call[s],
             point # "idle" => /\ call'[r].op = call[r].op
                               /\ call'[r].plan = call[r].plan,
             row.plan = store[call[r].op].plan,
             row.status \in Allowed[store[call[r].op].status],
             point = "calling" => row.status = "EXECUTING"
      PROVE  OnceInv'
  <2> DEFINE o == call[r].op
             old == store[o]
  <2>1. old \in Rows /\ old # None /\ old.plan = call[r].plan
    <3>1. pc[r] \notin {"idle", "insert"}
      BY RowStepIsTransition
    <3>2. QED
      BY <1>3, <3>1 DEF CallsOK, Held
  <2>2. /\ old.status \in Statuses /\ row.status \in Statuses /\ row # None
    BY <2>1, <1>3, NoneAssumption DEF Rows
  <2>3. /\ old.status \notin BeforeExecution => row.status \notin BeforeExecution
        /\ point = "calling" => old.status = "AUTHORIZED"
        /\ point = "calling" => row.status \notin BeforeExecution
    BY <2>2, <1>3, AllowedMovesOn DEF BeforeExecution
  <2>4. \A x \in Operations : store'[x] = IF x = o THEN row ELSE store[x]
    BY <1>3 DEF CallsOK
  <2>5. \A x \in Operations :
           /\ store'[x] # None <=> store[x] # None
           /\ store[x] # None => store'[x].plan = store[x].plan
           /\ store[x] # None /\ store[x].status \notin BeforeExecution
                => store'[x].status \notin BeforeExecution
    BY <2>1, <2>2, <2>3, <2>4, <1>3
  <2>6. \A s \in Runners : pc[s] = "calling" =>
           /\ call[s].op \in Operations
           /\ store[call[s].op] # None
           /\ store[call[s].op].plan = call[s].plan
    BY DEF CallsOK, Held, Calls
  <2>7. \A s \in Runners \ {r} : pc'[s] = pc[s] /\ call'[s] = call[s]
    BY <1>3 DEF CallsOK
  <2>8. pc'[r] = point
    BY <1>3 DEF CallsOK
  <2>9. AtMostOneEffect' /\ OneRowPerPlan'
    BY <1>1, <2>5 DEF OnceInv, AtMostOneEffect, OneRowPerPlan
  <2>10. EffectIsOnRecord'
    BY <1>1, <2>5 DEF OnceInv, EffectIsOnRecord, RowsOf
  <2>11. ASSUME point = "calling"
         PROVE  /\ started[call[r].plan] = 0
                /\ \A s \in Runners : pc[s] = "calling" => call[s].plan # call[r].plan
    <3>1. old.status \in BeforeExecution
      BY <2>3, <2>11 DEF BeforeExecution
    <3>2. \A x \in Operations :
             store[x] # None /\ store[x].plan = call[r].plan => x = o
      BY <2>1, <1>3 DEF OnceInv, OneRowPerPlan
    <3>3. call[r].plan \in Plans
      BY <2>1 DEF Rows
    <3>4. ~ started[call[r].plan] > 0
      BY <3>1, <3>2, <3>3 DEF OnceInv, EffectIsOnRecord, RowsOf
    <3>5. started[call[r].plan] \in {0, 1}
      <4>1. started[call[r].plan] \in Nat
        BY <3>3 DEF LedgersOK
      <4>2. QED
        BY <4>1, <3>3 DEF OnceInv, AtMostOneEffect
    <3>6. ASSUME NEW s \in Runners, pc[s] = "calling",
                 call[s].plan = call[r].plan
          PROVE  FALSE
      BY <3>1, <3>2, <3>6, <2>6 DEF OnceInv, Callers
    <3>7. QED
      BY <3>4, <3>5, <3>6
  <2>12. Callers'
    BY <1>1, <1>3, <2>3, <2>4, <2>5, <2>6, <2>7, <2>8, <2>11
    DEF OnceInv, Callers
  <2>13. OneCaller'
    BY <1>3, <2>7, <2>8, <2>11 DEF OnceInv, OneCaller
  <2>14. QED
    BY <2>9, <2>10, <2>12, <2>13 DEF OnceInv
<1>4. QED
  BY <1>2, <1>3, RowStepMoves

\* The request itself: the runner was the only caller of an unsent plan.
LEMMA CallProviderKeepsOnce ==
    ASSUME CallsOK, Held, LedgersOK, OnceInv, NEW r \in Runners, CallProvider(r)
    PROVE  OnceInv'
<1> DEFINE p == call[r].plan
           o == call[r].op
<1>1. call[r] \in Calls
  BY DEF CallProvider, CallsOK
<1>2. p \in Plans /\ o \in Operations
  BY <1>1 DEF Calls
<1>3. UNCHANGED store
  BY DEF CallProvider
<1>4. pc[r] = "calling" /\ started' = [started EXCEPT ![p] = @ + 1]
  BY DEF CallProvider
<1>5. NoNewCaller /\ pc'[r] = "answered"
  BY DEF CallProvider, Continue, CallsOK, NoNewCaller
<1>6. started[p] = 0 /\ store[o].status \notin BeforeExecution
  BY <1>4 DEF OnceInv, Callers
<1>7. store[o] # None /\ store[o].plan = p
  BY <1>4 DEF Held
<1>8. started'[p] = 1 /\ \A q \in Plans \ {p} : started'[q] = started[q]
  BY <1>2, <1>4, <1>6 DEF LedgersOK
<1>9. AtMostOneEffect'
  BY <1>8 DEF OnceInv, AtMostOneEffect
<1>10. EffectIsOnRecord'
  BY <1>2, <1>3, <1>6, <1>7, <1>8 DEF OnceInv, EffectIsOnRecord, RowsOf
<1>11. OneRowPerPlan' /\ OneCaller'
  BY <1>3, <1>5 DEF OnceInv, OneRowPerPlan, OneCaller, NoNewCaller
<1>12. Callers'
  <2> SUFFICES ASSUME NEW s \in Runners, pc'[s] = "calling"
               PROVE  /\ started'[call'[s].plan] = 0
                      /\ store'[call'[s].op].status \notin BeforeExecution
    BY DEF Callers
  <2>1. pc[s] = "calling" /\ call'[s] = call[s] /\ s # r
    BY <1>5 DEF NoNewCaller
  <2>2. call[s].plan # p
    BY <1>4, <2>1 DEF OnceInv, OneCaller
  <2>3. call[s].plan \in Plans
    BY <2>1 DEF CallsOK, Calls
  <2>4. QED
    BY <1>3, <1>8, <2>1, <2>2, <2>3 DEF OnceInv, Callers
<1>13. QED
  BY <1>9, <1>10, <1>11, <1>12 DEF OnceInv

LEMMA NextKeepsOnce ==
    ASSUME CallsOK, Held, LedgersOK, OnceInv, [Next]_vars
    PROVE  OnceInv'
<1>1. ASSUME UNCHANGED <<store, pc, call, started>>
      PROVE  OnceInv'
  BY <1>1, QuietKeepsOnce DEF NoNewCaller
<1>2. CASE UNCHANGED vars
  BY <1>1, <1>2 DEF vars
<1>3. CASE Tick \/ \E p \in Plans : JobEnds(p)
  BY <1>1, <1>3 DEF Tick, JobEnds
<1>4. QED
  BY <1>2, <1>3, NextCases, QuietSteps, InsertKeepsOnce, RowStepKeepsOnce,
     CallProviderKeepsOnce

\* One plan reaches the provider at most once, and only after its row left the
\* statuses in which a process may dispatch it: for any number of processes and
\* operation ids, through crashes and restarts at any point.
THEOREM AtMostOnce == Spec => [](AtMostOneEffect /\ EffectIsOnRecord)
<1>1. Init => OnceInv
  BY DEF Init, OnceInv, AtMostOneEffect, EffectIsOnRecord, OneRowPerPlan,
         Callers, OneCaller
<1>2. TypeOK /\ Held /\ OnceInv /\ [Next]_vars => OnceInv'
  <2>1. TypeOK => CallsOK /\ LedgersOK
    BY DEF TypeOK, CallsOK, LedgersOK
  <2>2. QED
    BY <2>1, NextKeepsOnce
<1>3. OnceInv => AtMostOneEffect /\ EffectIsOnRecord
  BY DEF OnceInv
<1>4. QED
  BY <1>1, <1>2, <1>3, TypesAreInvariant, PTL DEF Spec

-----------------------------------------------------------------------------
\* Every burned grant was burned together with all that its plan needs.
BurnsAreComplete ==
    \A a \in Approvals : consumed[a] # None => Approved(consumed, consumed[a])

\* A row past AWAITING_APPROVAL has its approvals.
RowsAreApproved ==
    \A o \in Operations :
        store[o] # None /\ store[o].status \notin {"PLANNED", "AWAITING_APPROVAL"}
            => Approved(consumed, store[o].plan)

\* A call is authorized only with the approvals of its plan burned; it asks for
\* them only with grants in hand, and promotes the row only once authorized.
CallsAreApproved ==
    \A r \in Runners :
        pc[r] # "idle" =>
            /\ call[r].authorized => Approved(consumed, call[r].plan)
            /\ pc[r] = "approve" => call[r].approvals # {}
            /\ pc[r] = "promote" => call[r].authorized

ApprovalInv == BurnsAreComplete /\ RowsAreApproved /\ CallsAreApproved

\* Burning more grants never takes an approval back.
LEMMA ApprovedStays ==
    ASSUME NEW old, NEW new, NEW p \in Plans,
           \A a \in Approvals : old[a] # None => new[a] = old[a],
           Approved(old, p)
    PROVE  Approved(new, p)
BY NoneAssumption DEF Approved

LEMMA ContinueKeepsApprovals ==
    ASSUME CallsOK, ApprovalInv, NEW r \in Runners, NEW point, NEW c,
           Continue(r, point, c), UNCHANGED <<store, consumed>>,
           point # "idle" =>
               /\ c.authorized => Approved(consumed, c.plan)
               /\ point = "approve" => c.approvals # {}
               /\ point = "promote" => c.authorized
    PROVE  ApprovalInv'
<1>1. BurnsAreComplete' /\ RowsAreApproved'
  BY DEF ApprovalInv, BurnsAreComplete, RowsAreApproved
<1>2. \A s \in Runners \ {r} : pc'[s] = pc[s] /\ call'[s] = call[s]
  BY DEF CallsOK, Continue
<1>3. pc'[r] = point /\ (point # "idle" => call'[r] = c)
  BY DEF CallsOK, Continue
<1>4. CallsAreApproved'
  BY <1>2, <1>3 DEF ApprovalInv, CallsAreApproved
<1>5. QED
  BY <1>1, <1>4 DEF ApprovalInv

LEMMA ReturnKeepsApprovals ==
    ASSUME CallsOK, ApprovalInv, NEW r \in Runners, Return(r),
           UNCHANGED <<store, consumed>>
    PROVE  ApprovalInv'
BY ContinueKeepsApprovals DEF Return

LEMMA StartKeepsApprovals ==
    ASSUME CallsOK, ApprovalInv, NEW r \in Runners, Start(r)
    PROVE  ApprovalInv'
<1>1. ASSUME NEW o \in Operations, NEW p \in Plans,
             NEW grants \in SUBSET Approvals, StartExecute(r, o, p, grants)
      PROVE  ApprovalInv'
  <2> DEFINE point == IF store[o] = None THEN "insert"
                      ELSE AfterEnsure(store[o], grants)
             c == NewCall(o, p, grants)
  <2>1. Continue(r, point, c) /\ UNCHANGED <<store, consumed>>
    BY <1>1 DEF StartExecute, ledgers
  <2>2. c.approvals = grants /\ c.authorized = FALSE
    BY DEF NewCall
  <2>3. point # "promote" /\ (point = "approve" => grants # {})
    BY DEF AfterEnsure
  <2>4. QED
    BY <2>1, <2>2, <2>3, ContinueKeepsApprovals
<1>2. ASSUME NEW o \in Operations,
             StartResume(r, o) \/ StartObserve(r, o) \/ StartCancel(r, o)
      PROVE  ApprovalInv'
  <2> DEFINE c == NewCall(o, store[o].plan, {})
  <2>1. UNCHANGED <<store, consumed>>
    BY <1>2 DEF StartResume, StartObserve, StartCancel, ledgers
  <2>2. \E point \in Points \ {"approve", "promote"} : Continue(r, point, c)
    BY <1>2 DEF StartResume, StartObserve, StartCancel, AfterReload, Points
  <2>3. c.authorized = FALSE
    BY DEF NewCall
  <2>4. QED
    BY <2>1, <2>2, <2>3, ContinueKeepsApprovals
<1>3. QED
  BY <1>1, <1>2 DEF Start

LEMMA InsertKeepsApprovals ==
    ASSUME CallsOK, Held, ApprovalInv, NEW r \in Runners, Insert(r)
    PROVE  ApprovalInv'
<1> DEFINE c == call[r]
           row == [plan |-> c.plan, status |-> "PLANNED", reason |-> "NONE",
                   polls |-> 0,
                   deadline |-> EarlierOf(Expires, c.asOf + ObservationTimeout)]
           d == [c EXCEPT !.seen = row]
<1>1. UNCHANGED consumed /\ pc[r] = "insert" /\ c \in Calls
  BY DEF Insert, ledgers, CallsOK
<1>2. CASE store[c.op] = None /\ PlanIsFree(c.plan)
  <2>1. store' = [store EXCEPT ![c.op] = row] /\ Continue(r, "submit", d)
    BY <1>2 DEF Insert
  <2>2. row.status = "PLANNED"
    OBVIOUS
  <2>3. d.authorized = c.authorized /\ d.plan = c.plan
    BY <1>1 DEF Calls
  <2> HIDE DEF row, d
  <2>4. pc'[r] = "submit" /\ call'[r] = d
    BY <2>1 DEF Continue, CallsOK
  <2>5. \A s \in Runners \ {r} : pc'[s] = pc[s] /\ call'[s] = call[s]
    BY <2>1 DEF Continue, CallsOK
  <2>6. CallsAreApproved'
    BY <1>1, <2>3, <2>4, <2>5 DEF ApprovalInv, CallsAreApproved
  <2>7. RowsAreApproved' /\ BurnsAreComplete'
    BY <1>1, <2>1, <2>2 DEF ApprovalInv, RowsAreApproved, BurnsAreComplete, CallsOK
  <2>8. QED
    BY <2>6, <2>7 DEF ApprovalInv
<1>3. CASE ~(store[c.op] = None /\ PlanIsFree(c.plan))
  BY <1>1, <1>3, ReturnKeepsApprovals DEF Insert
<1>4. QED
  BY <1>2, <1>3

LEMMA RowStepKeepsApprovals ==
    ASSUME CallsOK, Held, ApprovalInv, NEW r \in Runners, RowStep(r)
    PROVE  ApprovalInv'
<1>1. UNCHANGED consumed /\ pc[r] \notin {"idle", "insert"}
  BY RowStepIsTransition DEF ledgers
<1>2. CASE UNCHANGED store /\ Return(r)
  BY <1>1, <1>2, ReturnKeepsApprovals
<1>3. ASSUME call[r].op \in Operations,
             NEW row \in Rows, NEW point \in Points,
             store' = [store EXCEPT ![call[r].op] = row],
             pc' = [pc EXCEPT ![r] = point],
             \A s \in Runners \ {r} : call'[s] = call[s],
             point # "idle" => /\ call'[r].plan = call[r].plan
                               /\ call'[r].authorized = call[r].authorized
                               /\ call'[r].approvals = call[r].approvals,
             row.plan = store[call[r].op].plan,
             row.status \in Allowed[store[call[r].op].status],
             point = "approve" => call[r].approvals # {},
             point = "promote" => call[r].authorized,
             row.status = "AUTHORIZED" => pc[r] = "promote"
      PROVE  ApprovalInv'
  <2> DEFINE o == call[r].op
             old == store[o]
  <2>1. old \in Rows /\ old # None /\ old.plan = call[r].plan
    BY <1>1, <1>3 DEF CallsOK, Held
  <2>2. \/ row.status \in {"PLANNED", "AWAITING_APPROVAL"}
        \/ row.status = "AUTHORIZED"
        \/ old.status \notin {"PLANNED", "AWAITING_APPROVAL"}
    BY <2>1, <1>3 DEF Allowed, Rows, Statuses
  <2>3. row.status \notin {"PLANNED", "AWAITING_APPROVAL"}
          => Approved(consumed, row.plan)
    <3>1. CASE row.status = "AUTHORIZED"
      <4>1. call[r].authorized
        BY <1>1, <1>3, <3>1 DEF ApprovalInv, CallsAreApproved
      <4>2. Approved(consumed, call[r].plan)
        BY <1>1, <4>1 DEF ApprovalInv, CallsAreApproved
      <4>3. row.plan = call[r].plan
        BY <1>3, <2>1
      <4>4. QED
        BY <4>2, <4>3
    <3>2. CASE old.status \notin {"PLANNED", "AWAITING_APPROVAL"}
      BY <1>3, <2>1, <3>2 DEF ApprovalInv, RowsAreApproved
    <3>3. QED
      BY <2>2, <3>1, <3>2
  <2>4. RowsAreApproved'
    BY <1>1, <1>3, <2>3 DEF ApprovalInv, RowsAreApproved, CallsOK
  <2>5. BurnsAreComplete'
    BY <1>1 DEF ApprovalInv, BurnsAreComplete
  <2>6. /\ pc'[r] = point
        /\ \A s \in Runners \ {r} : pc'[s] = pc[s] /\ call'[s] = call[s]
    BY <1>3 DEF CallsOK
  <2>7. CallsAreApproved'
    BY <1>1, <1>3, <2>6 DEF ApprovalInv, CallsAreApproved
  <2>8. QED
    BY <2>4, <2>5, <2>7 DEF ApprovalInv
<1>4. QED
  BY <1>2, <1>3, RowStepMoves

\* CheckBurned and Burn authorize the call only with its plan approved.
LEMMA CheckBurnedKeepsApprovals ==
    ASSUME CallsOK, ApprovalInv, NEW r \in Runners, CheckBurned(r)
    PROVE  ApprovalInv'
<1> DEFINE c == call[r]
           d == [c EXCEPT !.authorized = TRUE]
<1>1. UNCHANGED <<store, consumed>> /\ pc[r] = "approve"
  BY DEF CheckBurned, ledgers
<1>2. c \in Calls
  BY <1>1 DEF CallsOK
<1>3. c.approvals # {} /\ c.approvals \subseteq Approvals /\ c.plan \in Plans
  BY <1>1, <1>2 DEF ApprovalInv, CallsAreApproved, Calls
<1>4. CASE Continue(r, "burn", c)
  BY <1>1, <1>4, ContinueKeepsApprovals DEF ApprovalInv, CallsAreApproved
<1>5. CASE Continue(r, "reload", d) /\ \A a \in c.approvals : consumed[a] = c.plan
  <2>1. PICK a \in Approvals : consumed[a] = c.plan
    BY <1>3, <1>5
  <2>2. Approved(consumed, c.plan)
    BY <1>3, <2>1, NoneAssumption DEF ApprovalInv, BurnsAreComplete
  <2>3. d.plan = c.plan
    BY <1>2 DEF Calls
  <2> HIDE DEF d, c
  <2>4. QED
    BY <1>1, <1>5, <2>2, <2>3, ContinueKeepsApprovals
<1>6. CASE Return(r)
  BY <1>1, <1>6, ReturnKeepsApprovals
<1>7. QED
  BY <1>4, <1>5, <1>6 DEF CheckBurned

LEMMA BurnKeepsApprovals ==
    ASSUME CallsOK, LedgersOK, ApprovalInv, NEW r \in Runners, Burn(r)
    PROVE  ApprovalInv'
<1> DEFINE c == call[r]
           d == [c EXCEPT !.authorized = TRUE]
           burned == [a \in Approvals |-> IF a \in c.approvals THEN c.plan
                                          ELSE consumed[a]]
<1>1. UNCHANGED store /\ pc[r] = "burn" /\ c \in Calls
  BY DEF Burn, CallsOK
<1>2. c.approvals \subseteq Approvals /\ c.plan \in Plans
  BY <1>1 DEF Calls
<1>3. ASSUME ValidApprovals(c.plan, c.approvals, c.asOf),
             \A a \in c.approvals : consumed[a] = None,
             consumed' = burned, Continue(r, "reload", d)
      PROVE  ApprovalInv'
  <2>1. d.plan = c.plan
    BY <1>1 DEF Calls
  <2>2. Approved(burned, c.plan)
    <3>1. \A a \in c.approvals : burned[a] = c.plan
      BY <1>2
    <3> HIDE DEF burned
    <3>2. QED
      BY <1>2, <1>3, <3>1 DEF Approved, ValidApprovals
  <2>3. \A a \in Approvals : consumed[a] # None => burned[a] = consumed[a]
    BY <1>3
  <2>4. \A a \in Approvals : burned[a] # consumed[a] => burned[a] = c.plan
    OBVIOUS
  <2> HIDE DEF burned, d
  <2>5. \A p \in Plans : Approved(consumed, p) => Approved(burned, p)
    BY <2>3, ApprovedStays
  <2>6. BurnsAreComplete'
    <3> SUFFICES ASSUME NEW a \in Approvals, burned[a] # None
                 PROVE  Approved(burned, burned[a])
      BY <1>3 DEF BurnsAreComplete
    <3>1. CASE burned[a] = consumed[a]
      <4>1. consumed[a] \in Plans /\ Approved(consumed, consumed[a])
        BY <3>1 DEF LedgersOK, ApprovalInv, BurnsAreComplete
      <4>2. Approved(burned, consumed[a])
        BY <4>1, <2>5
      <4>3. QED
        BY <3>1, <4>2
    <3>2. CASE burned[a] # consumed[a]
      <4>1. burned[a] = c.plan
        BY <2>4, <3>2
      <4>2. QED
        BY <4>1, <2>2
    <3>3. QED
      BY <3>1, <3>2
  <2>7. RowsAreApproved'
    BY <1>1, <1>3, <2>5 DEF ApprovalInv, RowsAreApproved, CallsOK, Rows
  <2>8. /\ pc'[r] = "reload" /\ call'[r] = d
        /\ \A s \in Runners \ {r} : pc'[s] = pc[s] /\ call'[s] = call[s]
    BY <1>3 DEF Continue, CallsOK
  <2>9. \A s \in Runners : pc[s] # "idle" => call[s].plan \in Plans
    BY DEF CallsOK, Calls
  <2>10. CallsAreApproved'
    <3> SUFFICES ASSUME NEW s \in Runners, pc'[s] # "idle"
                 PROVE  /\ call'[s].authorized
                             => Approved(consumed', call'[s].plan)
                        /\ pc'[s] = "approve" => call'[s].approvals # {}
                        /\ pc'[s] = "promote" => call'[s].authorized
      BY DEF CallsAreApproved
    <3>1. CASE s = r
      BY <3>1, <1>3, <2>1, <2>2, <2>8
    <3>2. CASE s # r
      BY <3>2, <1>3, <2>5, <2>8, <2>9 DEF ApprovalInv, CallsAreApproved
    <3>3. QED
      BY <3>1, <3>2
  <2>11. QED
    BY <2>6, <2>7, <2>10 DEF ApprovalInv
<1>4. CASE Return(r) /\ UNCHANGED consumed
  BY <1>1, <1>4, ReturnKeepsApprovals
<1>5. QED
  BY <1>3, <1>4 DEF Burn

LEMMA AskStepKeepsApprovals ==
    ASSUME CallsOK, Held, LedgersOK, ApprovalInv, NEW r \in Runners, AskStep(r)
    PROVE  ApprovalInv'
<1> DEFINE c == call[r]
<1>1. pc[r] # "idle" /\ c \in Calls
  BY DEF AskStep, CheckBurned, Burn, Reload, Preflight, CallProvider, Poll,
         CallCancel, CallsOK
<1>2. c.authorized => Approved(consumed, c.plan)
  BY <1>1 DEF ApprovalInv, CallsAreApproved
<1>3. CASE Reload(r)
  <2> DEFINE d == [c EXCEPT !.seen = store[c.op]]
             point == AfterReload(store[c.op], c.authorized)
  <2>1. d.authorized = c.authorized /\ d.plan = c.plan
    BY <1>1 DEF Calls
  <2>2. Continue(r, point, d) /\ UNCHANGED <<store, consumed>>
    BY <1>3 DEF Reload, ledgers
  <2>3. point # "approve"
    BY DEF AfterReload
  <2>4. point = "promote" => c.authorized
    BY DEF AfterReload
  <2> HIDE DEF point, d
  <2>5. QED
    BY <1>2, <2>1, <2>2, <2>3, <2>4, ContinueKeepsApprovals
<1>4. CASE Preflight(r) \/ CallCancel(r)
  <2>1. \E point \in {"dispatch", "drifted", "idle", "cancelled"} :
           Continue(r, point, c) \/ Return(r)
    BY <1>4 DEF Preflight, CallCancel
  <2>2. UNCHANGED <<store, consumed>>
    BY <1>4 DEF Preflight, CallCancel, ledgers
  <2>3. QED
    BY <1>2, <2>1, <2>2, ContinueKeepsApprovals, ReturnKeepsApprovals
<1>5. CASE CallProvider(r) \/ Poll(r)
  <2>1. \E a \in Answers, point \in {"answered", "polled"} :
           Continue(r, point, [c EXCEPT !.answer = a])
    BY <1>5 DEF CallProvider, Poll, ExecutionAnswers, ObservationAnswers,
                Answers, Worlds
  <2>2. PICK a \in Answers, point \in {"answered", "polled"} :
             Continue(r, point, [c EXCEPT !.answer = a])
    BY <2>1
  <2> DEFINE d == [c EXCEPT !.answer = a]
  <2>3. UNCHANGED <<store, consumed>>
    BY <1>5 DEF CallProvider, Poll
  <2>4. d.authorized = c.authorized /\ d.plan = c.plan
    BY <1>1 DEF Calls
  <2>5. Continue(r, point, d)
    BY <2>2
  <2> HIDE DEF d
  <2>6. QED
    BY <1>2, <2>3, <2>4, <2>5, ContinueKeepsApprovals
<1>6. QED
  BY <1>3, <1>4, <1>5, CheckBurnedKeepsApprovals, BurnKeepsApprovals
  DEF AskStep

LEMMA NextKeepsApprovals ==
    ASSUME CallsOK, Held, LedgersOK, ApprovalInv, [Next]_vars
    PROVE  ApprovalInv'
<1>1. ASSUME UNCHANGED <<store, consumed, pc, call>>
      PROVE  ApprovalInv'
  BY <1>1 DEF ApprovalInv, BurnsAreComplete, RowsAreApproved, CallsAreApproved
<1>2. CASE UNCHANGED vars
  BY <1>1, <1>2 DEF vars
<1>3. CASE Tick \/ \E p \in Plans : JobEnds(p)
  BY <1>1, <1>3 DEF Tick, JobEnds
<1>4. ASSUME NEW r \in Runners, Crash(r)
      PROVE  ApprovalInv'
  BY <1>4, ReturnKeepsApprovals DEF Crash
<1>5. QED
  BY <1>2, <1>3, <1>4, NextCases, StartKeepsApprovals, InsertKeepsApprovals,
     RowStepKeepsApprovals, AskStepKeepsApprovals

\* A plan that was ever sent had all its grants burned for it first.  AtMostOnce
\* supplies that the effect is on record: its row is past AUTHORIZED, and only a
\* call whose approvals were burned gets a row there.
THEOREM EffectsAreApproved == Spec => []EffectWasApproved
<1>1. Init => ApprovalInv
  BY DEF Init, ApprovalInv, BurnsAreComplete, RowsAreApproved, CallsAreApproved
<1>2. TypeOK /\ Held /\ ApprovalInv /\ [Next]_vars => ApprovalInv'
  <2>1. TypeOK => CallsOK /\ LedgersOK
    BY DEF TypeOK, CallsOK, LedgersOK
  <2>2. QED
    BY <2>1, NextKeepsApprovals
<1>3. ApprovalInv /\ EffectIsOnRecord => EffectWasApproved
  <2> SUFFICES ASSUME ApprovalInv, EffectIsOnRecord, NEW p \in Plans,
                      started[p] > 0
               PROVE  Approved(consumed, p)
    BY DEF EffectWasApproved
  <2>1. PICK o \in Operations :
             /\ store[o] # None /\ store[o].plan = p
             /\ store[o].status \notin BeforeExecution
    BY DEF EffectIsOnRecord, RowsOf
  <2>2. QED
    BY <2>1 DEF ApprovalInv, RowsAreApproved, BeforeExecution
<1>4. QED
  BY <1>1, <1>2, <1>3, TypesAreInvariant, AtMostOnce, PTL DEF Spec

-----------------------------------------------------------------------------
(***************************************************************************)
(* Proof that OperatorLifecycle implements EffectPromise: the row of a     *)
(* plan and the provider's side of it only change together the way the     *)
(* promise allows.  What the rows and the calls in flight know about the   *)
(* provider is the invariant that carries it, and it also shows that an    *)
(* operation reported safe to retry has had no effect.                     *)
(***************************************************************************)

\* A plan is untouched exactly as long as no request was sent for it.
WorldStarted == \A p \in Plans : world[p] = "untouched" <=> started[p] = 0

\* A row whose verdict is that there was no effect.
Failed(row) ==
    \/ row.status = "FAILED_CONFIRMED"
    \/ row.status = "COMPLETED" /\ row.reason # "NONE"

\* The reason a runner copies into COMPLETED is that of the status before.
Reasoned(row) ==
    /\ row.status = "EXECUTED_VERIFIED" => row.reason = "NONE"
    /\ row.status = "FAILED_CONFIRMED" => row.reason # "NONE"

RowTrue(row, w) ==
    /\ Reasoned(row)
    /\ Verified(row) => w = "applied"
    /\ Failed(row) => w \in {"untouched", "void"}

RowsTrue ==
    \A o \in Operations :
        store[o] # None => RowTrue(store[o], world[store[o].plan])

\* An answer a runner holds is still true when it gets to record it.
AnswerTrue(answer, w) ==
    /\ answer = "VERIFIED" => w = "applied"
    /\ answer \in {"FAILED_CONFIRMED", "NOT_SENT"} => w = "void"

\* What the place of a runner says of the provider: of the call c, the row its
\* operation has now, and the provider's side of its plan.
CallTrue(point, c, row, w) ==
    /\ point \notin {"idle", "insert"} => Reasoned(c.seen)
    /\ point \in {"window", "drifted"} => c.seen.status = "AUTHORIZED"
    /\ point = "calling" => ~Failed(row)
    /\ point \in {"answered", "polled"} => AnswerTrue(c.answer, w)
    /\ point = "cancelled" => w = "void"

CallsTrue ==
    \A r \in Runners :
        CallTrue(pc[r], call[r], store[call[r].op], world[call[r].plan])

Base == CallsOK /\ Held /\ LedgersOK /\ OnceInv

PromiseInv == Base /\ WorldStarted /\ RowsTrue /\ CallsTrue

LEMMA NextKeepsBase == Base /\ [Next]_vars => Base'
<1> SUFFICES ASSUME Base, [Next]_vars PROVE Base'
  OBVIOUS
<1>1. now \in Nat
  BY ParameterAssumption DEF Base, LedgersOK
<1> QED
  BY <1>1, NextKeepsCalls, NextKeepsLedgers, NextKeepsOnce DEF Base

\* A runner at the provider request finds its plan untouched.
LEMMA CallerUntouched ==
    ASSUME PromiseInv, NEW r \in Runners, pc[r] = "calling"
    PROVE  /\ call[r].plan \in Plans /\ call[r].op \in Operations
           /\ world[call[r].plan] = "untouched"
           /\ store[call[r].op] # None
           /\ store[call[r].op].plan = call[r].plan
           /\ store[call[r].op].status \notin BeforeExecution
           /\ ~Failed(store[call[r].op])
           /\ ~Verified(store[call[r].op])
<1>1. call[r] \in Calls
  BY DEF PromiseInv, Base, CallsOK
<1>2. call[r].plan \in Plans /\ call[r].op \in Operations
  BY <1>1 DEF Calls
<1>3. started[call[r].plan] = 0 /\ store[call[r].op].status \notin BeforeExecution
  BY DEF PromiseInv, Base, OnceInv, Callers
<1>4. world[call[r].plan] = "untouched"
  BY <1>2, <1>3 DEF PromiseInv, WorldStarted
<1>5. store[call[r].op] # None /\ store[call[r].op].plan = call[r].plan
  BY DEF PromiseInv, Base, Held
<1>6. ~Failed(store[call[r].op])
  BY DEF PromiseInv, CallsTrue, CallTrue
<1>7. ~Verified(store[call[r].op])
  BY <1>2, <1>4, <1>5 DEF PromiseInv, RowsTrue, RowTrue
<1> QED
  BY <1>2, <1>3, <1>4, <1>5, <1>6, <1>7

\* A plan whose row may still be dispatched is untouched.
LEMMA OpenUntouched ==
    ASSUME PromiseInv, NEW o \in Operations, store[o] # None,
           store[o].status \in BeforeExecution
    PROVE  world[store[o].plan] = "untouched"
<1>1. store[o].plan \in Plans
  BY DEF PromiseInv, Base, CallsOK, Rows
<1>2. ~(started[store[o].plan] > 0)
  BY <1>1 DEF PromiseInv, Base, OnceInv, EffectIsOnRecord, OneRowPerPlan, RowsOf
<1>3. started[store[o].plan] = 0
  BY <1>1, <1>2 DEF PromiseInv, Base, LedgersOK
<1> QED
  BY <1>1, <1>3 DEF PromiseInv, WorldStarted

-----------------------------------------------------------------------------
(***************************************************************************)
(* Steps that leave the rows alone.                                        *)
(***************************************************************************)

\* What was decided stays, and only a runner at the provider request touches a
\* plan.
WorldStays ==
    \A p \in Plans :
        /\ world[p] \in {"applied", "void"} => world'[p] = world[p]
        /\ world[p] = "untouched" =>
              \/ world'[p] = "untouched"
              \/ \E r \in Runners : pc[r] = "calling" /\ call[r].plan = p

OthersStay(r) ==
    \A s \in Runners \ {r} : pc'[s] = pc[s] /\ call'[s] = call[s]

\* No one but a caller holds a failed row of its plan.
LEMMA WorldKeepsRows ==
    ASSUME PromiseInv, UNCHANGED store, WorldStays
    PROVE  RowsTrue'
<1> SUFFICES ASSUME NEW o \in Operations, store[o] # None
             PROVE  RowTrue(store[o], world'[store[o].plan])
  BY DEF RowsTrue
<1> DEFINE p == store[o].plan
<1>1. p \in Plans
  BY DEF PromiseInv, Base, CallsOK, Rows
<1>2. RowTrue(store[o], world[p])
  BY DEF PromiseInv, RowsTrue
<1>3. CASE world'[p] = world[p]
  BY <1>2, <1>3
<1>4. CASE world[p] \notin {"applied", "void", "untouched"}
  BY <1>2, <1>4 DEF RowTrue
<1>5. CASE world[p] = "untouched" /\ world'[p] # "untouched"
  <2>1. PICK r \in Runners : pc[r] = "calling" /\ call[r].plan = p
    BY <1>1, <1>5 DEF WorldStays
  <2>2. call[r].op = o
    BY <2>1, CallerUntouched DEF PromiseInv, Base, OnceInv, OneRowPerPlan
  <2>3. ~Failed(store[o]) /\ ~Verified(store[o])
    BY <2>1, <2>2, CallerUntouched
  <2> QED
    BY <1>2, <2>3 DEF RowTrue
<1> QED
  BY <1>1, <1>3, <1>4, <1>5 DEF WorldStays

LEMMA SettledKeeps ==
    ASSUME PromiseInv, Base', UNCHANGED store, WorldStays, WorldStarted',
           NEW r \in Runners, OthersStay(r),
           CallTrue(pc[r], call[r], store[call[r].op], world[call[r].plan])'
    PROVE  PromiseInv'
<1>1. ASSUME NEW s \in Runners, s # r
      PROVE  CallTrue(pc[s], call[s], store[call[s].op], world[call[s].plan])'
  <2>1. pc'[s] = pc[s] /\ call'[s] = call[s]
    BY <1>1 DEF OthersStay
  <2>2. CallTrue(pc[s], call[s], store[call[s].op], world[call[s].plan])
    BY DEF PromiseInv, CallsTrue
  <2>3. pc[s] # "idle" => call[s].plan \in Plans
    BY DEF PromiseInv, Base, CallsOK, Calls
  <2> QED
    BY <2>1, <2>2, <2>3 DEF CallTrue, AnswerTrue, WorldStays
<1>2. CallsTrue'
  BY <1>1 DEF CallsTrue
<1> QED
  BY <1>2, WorldKeepsRows DEF PromiseInv

\* Nobody's call moves.
LEMMA StillKeeps ==
    ASSUME PromiseInv, Base', UNCHANGED <<store, pc, call>>, WorldStays, WorldStarted'
    PROVE  PromiseInv'
<1>1. ASSUME NEW s \in Runners
      PROVE  CallTrue(pc[s], call[s], store[call[s].op], world[call[s].plan])'
  <2>1. CallTrue(pc[s], call[s], store[call[s].op], world[call[s].plan])
    BY DEF PromiseInv, CallsTrue
  <2>2. pc[s] # "idle" => call[s].plan \in Plans
    BY DEF PromiseInv, Base, CallsOK, Calls
  <2> QED
    BY <2>1, <2>2 DEF CallTrue, AnswerTrue, WorldStays
<1> QED
  BY <1>1, WorldKeepsRows DEF PromiseInv, CallsTrue

LEMMA ContinueMoves ==
    ASSUME CallsOK, NEW r \in Runners, NEW point, NEW c, Continue(r, point, c)
    PROVE  /\ pc'[r] = point /\ OthersStay(r)
           /\ point # "idle" => call'[r] = c
  BY DEF CallsOK, Continue, OthersStay

LEMMA SameWorldStays == ASSUME UNCHANGED world PROVE WorldStays
  BY DEF WorldStays

\* A call that starts, returns, or looks again, while the provider does nothing.
LEMMA ContinueKeeps ==
    ASSUME PromiseInv, Base', UNCHANGED <<store, world, started>>,
           NEW r \in Runners, NEW point, NEW c, Continue(r, point, c),
           point \in {"idle", "insert"} \/
             /\ point \notin {"calling", "cancelled", "answered"}
             /\ Reasoned(c.seen)
             /\ point \in {"window", "drifted"} => c.seen.status = "AUTHORIZED"
             /\ point = "polled" => AnswerTrue(c.answer, world[c.plan])
    PROVE  PromiseInv'
<1>1. WorldStays /\ WorldStarted'
  BY SameWorldStays DEF PromiseInv, WorldStarted
<1>2. pc'[r] = point /\ OthersStay(r) /\ (point # "idle" => call'[r] = c)
  BY ContinueMoves DEF PromiseInv, Base
<1>3. CallTrue(pc[r], call[r], store[call[r].op], world[call[r].plan])'
  BY <1>2 DEF CallTrue
<1> QED
  BY <1>1, <1>2, <1>3, SettledKeeps

LEMMA ReturnKeeps ==
    ASSUME PromiseInv, Base', UNCHANGED <<store, world, started>>,
           NEW r \in Runners, Return(r)
    PROVE  PromiseInv'
  BY ContinueKeeps DEF Return

\* The row of an operation in the state it is read in.
LEMMA RowReasoned ==
    ASSUME PromiseInv, NEW o \in Operations, store[o] # None
    PROVE  Reasoned(store[o])
  BY DEF PromiseInv, RowsTrue, RowTrue

LEMMA StartPromise ==
    ASSUME PromiseInv, Base', NEW r \in Runners, Start(r)
    PROVE  PromiseInv'
<1>1. UNCHANGED <<store, world, started>>
  BY DEF Start, StartExecute, StartResume, StartObserve, StartCancel, ledgers
<1>2. ASSUME NEW o \in Operations, NEW p \in Plans, NEW grants \in SUBSET Approvals,
             StartExecute(r, o, p, grants)
      PROVE  PromiseInv'
  <2> DEFINE point == IF store[o] = None THEN "insert" ELSE AfterEnsure(store[o], grants)
             c == NewCall(o, p, grants)
  <2>1. Continue(r, point, c)
    BY <1>2 DEF StartExecute
  <2>2. point = "insert" \/ (store[o] # None /\ point \in {"submit", "approve", "reload"})
    BY DEF AfterEnsure
  <2>3. c.seen = store[o]
    BY DEF NewCall
  <2> HIDE DEF point, c
  <2> QED
    BY <1>1, <2>1, <2>2, <2>3, RowReasoned, ContinueKeeps
<1>3. ASSUME NEW o \in Operations, StartResume(r, o)
      PROVE  PromiseInv'
  <2> DEFINE point == AfterReload(store[o], FALSE)
             c == NewCall(o, store[o].plan, {})
  <2>1. Continue(r, point, c) /\ store[o] # None
    BY <1>3 DEF StartResume
  <2>2. /\ point \in {"interrupted", "resubmit", "promote", "window", "idle"}
        /\ point = "window" => store[o].status = "AUTHORIZED"
    BY DEF AfterReload
  <2>3. c.seen = store[o]
    BY DEF NewCall
  <2> HIDE DEF point, c
  <2> QED
    BY <1>1, <2>1, <2>2, <2>3, RowReasoned, ContinueKeeps
<1>4. ASSUME NEW o \in Operations, StartObserve(r, o) \/ StartCancel(r, o)
      PROVE  PromiseInv'
  <2> DEFINE c == NewCall(o, store[o].plan, {})
  <2>1. /\ store[o] # None
        /\ \E point \in {"poll", "attach", "cancelling"} : Continue(r, point, c)
    BY <1>4 DEF StartObserve, StartCancel
  <2>2. c.seen = store[o]
    BY DEF NewCall
  <2> HIDE DEF c
  <2> QED
    BY <1>1, <2>1, <2>2, RowReasoned, ContinueKeeps
<1> QED
  BY <1>2, <1>3, <1>4 DEF Start

\* The reads and the approval ledger, and a poll.
LEMMA LookPromise ==
    ASSUME PromiseInv, Base', NEW r \in Runners,
           CheckBurned(r) \/ Burn(r) \/ Reload(r) \/ Preflight(r) \/ Poll(r)
    PROVE  PromiseInv'
<1> DEFINE c == call[r]
<1>1. /\ UNCHANGED <<store, world, started>>
      /\ pc[r] \notin {"idle", "insert"}
  BY DEF CheckBurned, Burn, Reload, Preflight, Poll, ledgers, external
<1>2. /\ c \in Calls /\ c.op \in Operations /\ store[c.op] # None /\ Reasoned(c.seen)
      /\ pc[r] \in {"window", "drifted"} => c.seen.status = "AUTHORIZED"
  BY <1>1 DEF PromiseInv, Base, CallsOK, Held, CallsTrue, CallTrue, Calls
<1>3. CASE CheckBurned(r) \/ Burn(r)
  <2> DEFINE d == [c EXCEPT !.authorized = TRUE]
  <2>1. d.seen = c.seen
    BY <1>2 DEF Calls
  <2>2. \/ Return(r)
        \/ \E point \in {"burn", "reload"} : Continue(r, point, c) \/ Continue(r, point, d)
    BY <1>3 DEF CheckBurned, Burn
  <2> HIDE DEF c, d
  <2> QED
    BY <1>1, <1>2, <2>1, <2>2, ReturnKeeps, ContinueKeeps
<1>4. CASE Reload(r)
  <2> DEFINE d == [c EXCEPT !.seen = store[c.op]]
             point == AfterReload(store[c.op], c.authorized)
  <2>1. d.seen = store[c.op]
    BY <1>2 DEF Calls
  <2>2. Continue(r, point, d)
    BY <1>4 DEF Reload
  <2>3. /\ point \in {"interrupted", "resubmit", "promote", "window", "idle"}
        /\ point = "window" => store[c.op].status = "AUTHORIZED"
    BY DEF AfterReload
  <2> HIDE DEF c, d, point
  <2> QED
    BY <1>1, <1>2, <2>1, <2>2, <2>3, RowReasoned, ContinueKeeps
<1>5. CASE Preflight(r)
  <2>1. PICK point \in {"dispatch", "drifted", "idle"} : Continue(r, point, c)
    BY <1>5 DEF Preflight
  <2>2. c.seen.status = "AUTHORIZED"
    BY <1>2, <1>5 DEF Preflight
  <2> HIDE DEF c
  <2> QED
    BY <1>1, <1>2, <2>1, <2>2, ContinueKeeps
<1>6. CASE Poll(r)
  <2>1. PICK a \in ObservationAnswers(world[c.plan]) :
           Continue(r, "polled", [c EXCEPT !.answer = a])
    BY <1>6 DEF Poll
  <2> DEFINE d == [c EXCEPT !.answer = a]
  <2>2. d.seen = c.seen /\ d.plan = c.plan /\ d.answer = a
    BY <1>2 DEF Calls
  <2>3. AnswerTrue(a, world[c.plan])
    <3>1. c.plan \in Plans /\ world[c.plan] \in Worlds
      BY <1>2 DEF PromiseInv, Base, LedgersOK, Calls
    <3> QED
      BY <2>1, <3>1 DEF ObservationAnswers, AnswerTrue, Worlds
  <2> HIDE DEF c, d
  <2>4. Continue(r, "polled", d)
    BY <2>1 DEF d
  <2> QED
    BY <1>1, <1>2, <2>2, <2>3, <2>4, ContinueKeeps
<1> QED
  BY <1>3, <1>4, <1>5, <1>6

-----------------------------------------------------------------------------
(***************************************************************************)
(* Steps of the provider.                                                  *)
(***************************************************************************)

\* The effect is decided by the one request, and the answer is composed from it.
LEMMA CallProviderPromise ==
    ASSUME PromiseInv, Base', NEW r \in Runners, CallProvider(r)
    PROVE  PromiseInv'
<1> DEFINE c == call[r]
           p == c.plan
<1>1. pc[r] = "calling" /\ UNCHANGED store /\ started' = [started EXCEPT ![p] = @ + 1]
  BY DEF CallProvider
<1>2. /\ c \in Calls /\ p \in Plans /\ world[p] = "untouched" /\ Reasoned(c.seen)
  BY <1>1, CallerUntouched DEF PromiseInv, Base, CallsOK, CallsTrue, CallTrue
<1>3. PICK w \in Worlds \ {"untouched"} :
         /\ world' = [world EXCEPT ![p] = w]
         /\ \E a \in ExecutionAnswers(w) : Continue(r, "answered", [c EXCEPT !.answer = a])
  BY DEF CallProvider
<1>4. PICK a \in ExecutionAnswers(w) : Continue(r, "answered", [c EXCEPT !.answer = a])
  BY <1>3
<1>5. world'[p] = w /\ \A q \in Plans \ {p} : world'[q] = world[q]
  BY <1>2, <1>3 DEF PromiseInv, Base, LedgersOK
<1>6. started'[p] = 1 /\ \A q \in Plans \ {p} : started'[q] = started[q]
  <2>1. started[p] = 0
    BY <1>2 DEF PromiseInv, WorldStarted
  <2> QED
    BY <1>1, <1>2, <2>1 DEF PromiseInv, Base, LedgersOK
<1>7. WorldStarted'
  BY <1>5, <1>6 DEF PromiseInv, WorldStarted
<1>8. WorldStays
  BY <1>1, <1>2, <1>5 DEF WorldStays
<1>9. AnswerTrue(a, w)
  BY <1>3, <1>4 DEF ExecutionAnswers, AnswerTrue, Worlds
<1> DEFINE d == [c EXCEPT !.answer = a]
<1>10. d.seen = c.seen /\ d.plan = c.plan /\ d.answer = a
  BY <1>2 DEF Calls
<1>11. pc'[r] = "answered" /\ OthersStay(r) /\ call'[r] = d
  BY <1>4, ContinueMoves DEF PromiseInv, Base
<1> HIDE DEF c, d
<1>12. CallTrue(pc[r], call[r], store[call[r].op], world[call[r].plan])'
  BY <1>2, <1>5, <1>9, <1>10, <1>11 DEF CallTrue
<1> QED
  BY <1>1, <1>7, <1>8, <1>11, <1>12, SettledKeeps

LEMMA CallCancelPromise ==
    ASSUME PromiseInv, Base', NEW r \in Runners, CallCancel(r)
    PROVE  PromiseInv'
<1> DEFINE c == call[r]
<1>1. /\ pc[r] = "cancelling" /\ UNCHANGED <<store, started>>
  BY DEF CallCancel
<1>2. c \in Calls /\ c.plan \in Plans /\ Reasoned(c.seen)
  BY <1>1 DEF PromiseInv, Base, CallsOK, CallsTrue, CallTrue, Calls
<1>3. CASE Return(r) /\ UNCHANGED world
  BY <1>1, <1>3, ReturnKeeps
<1>4. CASE /\ world[c.plan] \in {"queued", "void"}
           /\ world' = [world EXCEPT ![c.plan] = "void"]
           /\ Continue(r, "cancelled", c)
  <2>1. world'[c.plan] = "void" /\ \A q \in Plans \ {c.plan} : world'[q] = world[q]
    BY <1>2, <1>4 DEF PromiseInv, Base, LedgersOK
  <2>2. WorldStarted'
    BY <1>1, <1>2, <1>4, <2>1 DEF PromiseInv, WorldStarted
  <2>3. WorldStays
    BY <1>4, <2>1 DEF WorldStays
  <2>4. pc'[r] = "cancelled" /\ OthersStay(r) /\ call'[r] = c
    BY <1>4, ContinueMoves DEF PromiseInv, Base
  <2> HIDE DEF c
  <2>5. CallTrue(pc[r], call[r], store[call[r].op], world[call[r].plan])'
    BY <1>2, <2>1, <2>4 DEF CallTrue
  <2> QED
    BY <1>1, <2>2, <2>3, <2>4, <2>5, SettledKeeps
<1> QED
  BY <1>3, <1>4 DEF CallCancel

LEMMA JobEndsPromise ==
    ASSUME PromiseInv, Base', NEW p \in Plans, JobEnds(p)
    PROVE  PromiseInv'
<1>1. /\ world[p] = "queued" /\ UNCHANGED <<store, pc, call, started>>
      /\ world'[p] \in {"applied", "void"} /\ \A q \in Plans \ {p} : world'[q] = world[q]
  BY DEF JobEnds, PromiseInv, Base, LedgersOK
<1>2. WorldStays /\ WorldStarted'
  BY <1>1 DEF WorldStays, PromiseInv, WorldStarted
<1> QED
  BY <1>1, <1>2, StillKeeps

-----------------------------------------------------------------------------
(***************************************************************************)
(* Steps that write a row.                                                 *)
(***************************************************************************)

\* What a runner knows when it writes a verdict.
Judged(r, status, reason, point) ==
    /\ status = "EXECUTED_VERIFIED" => reason = "NONE" /\ world[call[r].plan] = "applied"
    /\ status = "FAILED_CONFIRMED" =>
          /\ reason # "NONE"
          /\ call[r].seen.status = "AUTHORIZED" \/ world[call[r].plan] = "void"
    /\ status = "COMPLETED" => reason = call[r].seen.reason
    /\ point \notin {"insert", "drifted", "answered", "polled"}
    /\ point = "window" => status = "AUTHORIZED"
    /\ point = "calling" => status = "EXECUTING"
    /\ point = "cancelled" => world[call[r].plan] = "void"

LEMMA RowStepJudges ==
    ASSUME PromiseInv, NEW r \in Runners, RowStep(r)
    PROVE  /\ pc[r] \notin {"idle", "insert"}
           /\ UNCHANGED ledgers
           /\ \E status \in Statuses, reason \in Reasons, poll \in Nat, point \in Points :
                 Transition(r, status, reason, poll, point)
                 /\ Judged(r, status, reason, point)
<1> DEFINE Judges == \E status \in Statuses, reason \in Reasons, poll \in Nat,
                        point \in Points :
                        Transition(r, status, reason, poll, point)
                        /\ Judged(r, status, reason, point)
<1>1. pc[r] \notin {"idle", "insert"} /\ UNCHANGED ledgers
  BY RowStepIsTransition DEF PromiseInv, Base
<1>2. /\ call[r] \in Calls /\ call[r].seen \in Rows
      /\ CallTrue(pc[r], call[r], store[call[r].op], world[call[r].plan])
  BY <1>1 DEF PromiseInv, Base, CallsOK, Held, CallsTrue, Calls
<1>3. ASSUME Submit(r) \/ Resubmit(r)
      PROVE  Judges
  <2>1. PICK point \in {"approve", "reload", "promote", "idle"} :
           Transition(r, "AWAITING_APPROVAL", "NONE", 0, point)
    BY <1>3 DEF Submit, Resubmit
  <2>2. Judged(r, "AWAITING_APPROVAL", "NONE", point)
    BY DEF Judged
  <2> QED
    BY <2>1, <2>2 DEF Statuses, Reasons, Points
<1>4. ASSUME Promote(r) \/ Dispatch(r) \/ Attach(r) \/ TimeOut(r) \/ MarkInterrupted(r)
      PROVE  Judges
  BY <1>4
  DEF Promote, Dispatch, Attach, TimeOut, MarkInterrupted, Judged, Statuses, Reasons,
      Points
<1>5. ASSUME CloseExpired(r) \/ CloseDrifted(r)
      PROVE  Judges
  <2>1. call[r].seen.status = "AUTHORIZED"
    BY <1>2, <1>5 DEF CloseExpired, CloseDrifted, CallTrue
  <2> QED
    BY <1>5, <2>1 DEF CloseExpired, CloseDrifted, Judged, Statuses, Reasons, Points
<1>6. ASSUME RecordOutcome(r) \/ RecordObservation(r)
      PROVE  Judges
  <2> DEFINE a == call[r].answer
             status == Outcome(a)[1]
             reason == Outcome(a)[2]
  <2>1. PICK poll \in {0, 1}, point \in {"idle", "finish"} :
           Transition(r, status, reason, poll, point)
    BY <1>6 DEF RecordOutcome, RecordObservation
  <2>2. AnswerTrue(a, world[call[r].plan])
    BY <1>2, <1>6 DEF RecordOutcome, RecordObservation, CallTrue
  <2>3. status \in Statuses /\ reason \in Reasons
    BY DEF Outcome, Statuses, Reasons
  <2>4. /\ status = "EXECUTED_VERIFIED" => reason = "NONE" /\ a = "VERIFIED"
        /\ status = "FAILED_CONFIRMED" =>
              reason # "NONE" /\ a \in {"FAILED_CONFIRMED", "NOT_SENT"}
        /\ status # "COMPLETED"
    BY DEF Outcome
  <2> HIDE DEF status, reason
  <2>5. Judged(r, status, reason, point)
    BY <2>2, <2>4 DEF AnswerTrue, Judged
  <2> QED
    BY <2>1, <2>3, <2>5 DEF Points
<1>7. ASSUME Finish(r)
      PROVE  Judges
  <2> DEFINE status == Terminal(call[r].seen.status)
             reason == call[r].seen.reason
  <2>1. Transition(r, status, reason, 0, "idle")
    BY <1>7 DEF Finish
  <2>2. status \in {"MANUAL_REVIEW_REQUIRED", "COMPLETED"} /\ reason \in Reasons
    BY <1>2 DEF Terminal, Rows
  <2> HIDE DEF status
  <2>3. Judged(r, status, reason, "idle")
    BY <2>2 DEF Judged
  <2> QED
    BY <2>1, <2>2, <2>3 DEF Statuses, Points
<1>8. ASSUME RecordPending(r)
      PROVE  Judges
  <2>1. Judged(r, "OBSERVING", "NONE", "idle")
    BY DEF Judged
  <2> QED
    BY <1>8, <2>1 DEF RecordPending, Statuses, Reasons, Points
<1>9. ASSUME RecordCancelled(r)
      PROVE  Judges
  <2>1. world[call[r].plan] = "void"
    BY <1>2, <1>9 DEF RecordCancelled, CallTrue
  <2> QED
    BY <1>9, <2>1 DEF RecordCancelled, Judged, Statuses, Reasons, Points
<1> QED
  BY <1>1, <1>3, <1>4, <1>5, <1>6, <1>7, <1>8, <1>9 DEF RowStep

\* The written row, seen against the one it replaces.
Replaces(r, o, row, point) ==
    /\ store' = [store EXCEPT ![o] = row]
    /\ Continue(r, point, [call[r] EXCEPT !.seen = row])
    /\ row.plan = store[o].plan
    /\ row.status \in Allowed[store[o].status]
    /\ Judged(r, row.status, row.reason, point)
    /\ store[o].status = call[r].seen.status
    /\ store[o].plan = call[r].plan

LEMMA RowStepReplaces ==
    ASSUME PromiseInv, NEW r \in Runners, RowStep(r)
    PROVE  /\ UNCHANGED ledgers
           /\ \/ UNCHANGED store /\ Return(r)
              \/ /\ call[r].op \in Operations /\ store[call[r].op] \in Rows
                 /\ call[r] \in Calls /\ call[r].plan \in Plans
                 /\ pc[r] \notin {"idle", "insert"}
                 /\ \E row \in Rows, point \in Points : Replaces(r, call[r].op, row, point)
<1>1. PICK status \in Statuses, reason \in Reasons, poll \in Nat, point \in Points :
         Transition(r, status, reason, poll, point) /\ Judged(r, status, reason, point)
  BY RowStepJudges
<1>2. pc[r] \notin {"idle", "insert"} /\ UNCHANGED ledgers
  BY RowStepJudges
<1> DEFINE c == call[r]
           row == Updated(c.seen, status, reason, poll)
<1>3. /\ c \in Calls /\ c.op \in Operations /\ c.seen \in Rows /\ c.plan \in Plans
      /\ store[c.op] \in Rows /\ store[c.op].plan = c.plan /\ c.seen.plan = c.plan
  BY <1>2 DEF PromiseInv, Base, CallsOK, Held, Calls
<1>4. /\ row \in Rows /\ row.plan = c.seen.plan /\ row.status = status
      /\ row.reason = reason
  BY <1>3, UpdatedRow DEF Updated
<1>5. CASE ~(status \in Allowed[c.seen.status] /\ Current(r))
  BY <1>1, <1>2, <1>5 DEF Transition
<1>6. CASE status \in Allowed[c.seen.status] /\ Current(r)
  <2>1. /\ store' = [store EXCEPT ![c.op] = row]
        /\ Continue(r, point, [c EXCEPT !.seen = row])
    BY <1>1, <1>6 DEF Transition
  <2>2. store[c.op].status = c.seen.status
    BY <1>6 DEF Current
  <2> HIDE DEF row
  <2>3. Replaces(r, c.op, row, point)
    BY <1>1, <1>3, <1>4, <1>6, <2>1, <2>2 DEF Replaces
  <2> QED
    BY <1>2, <1>3, <1>4, <2>3
<1> QED
  BY <1>5, <1>6

\* The new row says no more of the provider than is true.
LEMMA ReplacementTrue ==
    ASSUME PromiseInv, NEW r \in Runners, NEW o \in Operations, store[o] \in Rows,
           pc[r] \notin {"idle", "insert"}, NEW row \in Rows, NEW point \in Points,
           Replaces(r, o, row, point)
    PROVE  /\ RowTrue(row, world[row.plan])
           /\ Failed(row) => ~ \E s \in Runners : pc[s] = "calling" /\ call[s].op = o
<1> DEFINE p == call[r].plan
           old == store[o]
<1>1. /\ old # None /\ old.plan = p /\ row.plan = p /\ row.status \in Allowed[old.status]
      /\ Judged(r, row.status, row.reason, point)
      /\ old.status = call[r].seen.status
  BY NoneAssumption DEF Replaces
<1>2. RowTrue(old, world[p]) /\ Reasoned(call[r].seen)
  BY <1>1 DEF PromiseInv, RowsTrue, CallsTrue, CallTrue
<1>3. old.status \in Statuses /\ row.status \in Statuses
  BY DEF Rows
<1>4. row.status = "COMPLETED" => old.status \in {"EXECUTED_VERIFIED", "FAILED_CONFIRMED"}
  BY <1>1, <1>3 DEF Allowed, Statuses
<1>5. Reasoned(row)
  BY <1>1 DEF Judged, Reasoned
<1>6. Verified(row) => world[p] = "applied"
  <2>1. CASE row.status = "EXECUTED_VERIFIED"
    BY <1>1, <2>1 DEF Judged
  <2>2. CASE row.status = "COMPLETED" /\ row.reason = "NONE"
    <3>1. old.status = "EXECUTED_VERIFIED"
      BY <1>1, <1>2, <1>4, <2>2 DEF Judged, Reasoned
    <3> QED
      BY <1>2, <3>1 DEF RowTrue, Verified
  <2> QED
    BY <2>1, <2>2 DEF Verified
<1>7. ASSUME Failed(row)
      PROVE  \/ old.status = "AUTHORIZED" \/ world[p] = "void" \/ Failed(old)
  <2>1. CASE row.status = "FAILED_CONFIRMED"
    BY <1>1, <2>1 DEF Judged
  <2>2. CASE row.status = "COMPLETED" /\ row.reason # "NONE"
    <3>1. old.status = "FAILED_CONFIRMED"
      BY <1>1, <1>2, <1>4, <2>2 DEF Judged, Reasoned
    <3> QED
      BY <3>1 DEF Failed
  <2> QED
    BY <1>7, <2>1, <2>2 DEF Failed
<1>8. Failed(row) => world[p] \in {"untouched", "void"}
  <2>1. old.status = "AUTHORIZED" => world[p] = "untouched"
    BY <1>1, OpenUntouched DEF BeforeExecution
  <2> QED
    BY <1>2, <1>7, <2>1 DEF RowTrue
<1>9. ASSUME Failed(row), NEW s \in Runners, pc[s] = "calling", call[s].op = o
      PROVE  FALSE
  <2>1. /\ world[p] = "untouched" /\ old.status # "AUTHORIZED" /\ ~Failed(old)
    BY <1>1, <1>9, CallerUntouched DEF BeforeExecution
  <2> QED
    BY <1>7, <1>9, <2>1
<1> QED
  BY <1>1, <1>5, <1>6, <1>8, <1>9 DEF RowTrue

LEMMA RowStepPromise ==
    ASSUME PromiseInv, Base', NEW r \in Runners, RowStep(r)
    PROVE  PromiseInv'
<1>1. UNCHANGED <<world, started>>
  BY RowStepReplaces DEF ledgers
<1>2. CASE UNCHANGED store /\ Return(r)
  BY <1>1, <1>2, ReturnKeeps
<1>3. ASSUME call[r].op \in Operations, store[call[r].op] \in Rows, call[r] \in Calls,
             call[r].plan \in Plans, pc[r] \notin {"idle", "insert"},
             NEW row \in Rows, NEW point \in Points, Replaces(r, call[r].op, row, point)
      PROVE  PromiseInv'
  <2> DEFINE o == call[r].op
             d == [call[r] EXCEPT !.seen = row]
  <2>1. /\ RowTrue(row, world[row.plan])
        /\ Failed(row) => ~ \E s \in Runners : pc[s] = "calling" /\ call[s].op = o
    BY <1>3, ReplacementTrue
  <2>2. \A x \in Operations : store'[x] = IF x = o THEN row ELSE store[x]
    BY <1>3 DEF Replaces, PromiseInv, Base, CallsOK
  <2>3. RowsTrue'
    BY <1>1, <2>1, <2>2 DEF PromiseInv, RowsTrue
  <2>4. WorldStarted'
    BY <1>1 DEF PromiseInv, WorldStarted
  <2>5. Continue(r, point, d)
    BY <1>3 DEF Replaces
  <2>6. d.seen = row /\ d.op = o /\ d.plan = call[r].plan
    BY <1>3 DEF Calls
  <2>7. Judged(r, row.status, row.reason, point)
    BY <1>3 DEF Replaces
  <2> HIDE DEF d
  <2>8. pc'[r] = point /\ OthersStay(r) /\ (point # "idle" => call'[r] = d)
    BY <2>5, ContinueMoves DEF PromiseInv, Base
  <2>9. ASSUME NEW s \in Runners, s # r
        PROVE  CallTrue(pc[s], call[s], store[call[s].op], world[call[s].plan])'
    <3>1. pc'[s] = pc[s] /\ call'[s] = call[s]
      BY <2>8, <2>9 DEF OthersStay
    <3>2. CallTrue(pc[s], call[s], store[call[s].op], world[call[s].plan])
      BY DEF PromiseInv, CallsTrue
    <3>3. pc[s] = "calling" => ~Failed(store'[call[s].op])
      <4>1. pc[s] = "calling" => call[s].op \in Operations /\ ~Failed(store[call[s].op])
        BY CallerUntouched
      <4> QED
        BY <4>1, <2>1, <2>2
    <3> QED
      BY <1>1, <3>1, <3>2, <3>3 DEF CallTrue
  <2>10. CallTrue(pc[r], call[r], store[call[r].op], world[call[r].plan])'
    <3>1. CASE point = "idle"
      BY <2>8, <3>1 DEF CallTrue
    <3>2. CASE point # "idle"
      <4>1. call'[r].seen = row /\ call'[r].op = o /\ call'[r].plan = call[r].plan
        BY <2>6, <2>8, <3>2
      <4>2. Reasoned(row)
        BY <2>1 DEF RowTrue
      <4>3. point = "calling" => ~Failed(store'[o])
        BY <1>3, <2>2, <2>7 DEF Judged, Failed
      <4> QED
        BY <1>1, <2>7, <2>8, <4>1, <4>2, <4>3 DEF CallTrue, Judged
    <3> QED
      BY <3>1, <3>2
  <2>11. CallsTrue'
    BY <2>9, <2>10 DEF CallsTrue
  <2> QED
    BY <2>3, <2>4, <2>11 DEF PromiseInv
<1> QED
  BY <1>2, <1>3, RowStepReplaces

\* A new row says nothing of the provider yet.
LEMMA InsertPromise ==
    ASSUME PromiseInv, Base', NEW r \in Runners, Insert(r)
    PROVE  PromiseInv'
<1> DEFINE c == call[r]
           row == [plan |-> c.plan, status |-> "PLANNED", reason |-> "NONE",
                   polls |-> 0,
                   deadline |-> EarlierOf(Expires, c.asOf + ObservationTimeout)]
           d == [c EXCEPT !.seen = row]
<1>1. pc[r] = "insert" /\ UNCHANGED <<world, started>>
  BY DEF Insert, ledgers
<1>2. c \in Calls /\ c.op \in Operations
  BY <1>1 DEF PromiseInv, Base, CallsOK, Calls
<1>3. CASE Return(r) /\ UNCHANGED store
  BY <1>1, <1>3, ReturnKeeps
<1>4. CASE /\ store[c.op] = None
           /\ store' = [store EXCEPT ![c.op] = row]
           /\ Continue(r, "submit", d)
  <2>1. d.seen = row /\ row.status = "PLANNED" /\ row.reason = "NONE"
    BY <1>2 DEF Calls
  <2> HIDE DEF row, d
  <2>2. RowTrue(row, world[row.plan]) /\ Reasoned(row)
    BY <2>1 DEF RowTrue, Reasoned, Verified, Failed
  <2>3. \A x \in Operations : store'[x] = IF x = c.op THEN row ELSE store[x]
    BY <1>4 DEF PromiseInv, Base, CallsOK
  <2>4. RowsTrue'
    BY <1>1, <2>2, <2>3 DEF PromiseInv, RowsTrue
  <2>5. WorldStarted'
    BY <1>1 DEF PromiseInv, WorldStarted
  <2>6. pc'[r] = "submit" /\ OthersStay(r) /\ call'[r] = d
    BY <1>4, ContinueMoves DEF PromiseInv, Base
  <2>7. ASSUME NEW s \in Runners, s # r
        PROVE  CallTrue(pc[s], call[s], store[call[s].op], world[call[s].plan])'
    <3>1. pc'[s] = pc[s] /\ call'[s] = call[s]
      BY <2>6, <2>7 DEF OthersStay
    <3>2. CallTrue(pc[s], call[s], store[call[s].op], world[call[s].plan])
      BY DEF PromiseInv, CallsTrue
    <3>3. pc[s] = "calling" => store'[call[s].op] = store[call[s].op]
      BY <1>4, <2>3, CallerUntouched
    <3> QED
      BY <1>1, <3>1, <3>2, <3>3 DEF CallTrue
  <2>8. CallTrue(pc[r], call[r], store[call[r].op], world[call[r].plan])'
    BY <2>1, <2>2, <2>6 DEF CallTrue
  <2>9. CallsTrue'
    BY <2>7, <2>8 DEF CallsTrue
  <2> QED
    BY <2>4, <2>5, <2>9 DEF PromiseInv
<1> QED
  BY <1>3, <1>4 DEF Insert

LEMMA NextKeepsPromise == PromiseInv /\ [Next]_vars => PromiseInv'
<1> SUFFICES ASSUME PromiseInv, [Next]_vars
             PROVE  PromiseInv'
  OBVIOUS
<1>1. Base'
  BY NextKeepsBase DEF PromiseInv
<1>2. ASSUME UNCHANGED <<store, pc, call, world, started>>
      PROVE  PromiseInv'
  BY <1>1, <1>2, SameWorldStays, StillKeeps DEF PromiseInv, WorldStarted
<1>3. CASE UNCHANGED vars
  BY <1>2, <1>3 DEF vars
<1>4. CASE Tick
  BY <1>2, <1>4 DEF Tick
<1>5. ASSUME NEW r \in Runners, Crash(r)
      PROVE  PromiseInv'
  BY <1>1, <1>5, ReturnKeeps DEF Crash
<1>6. ASSUME NEW r \in Runners, AskStep(r)
      PROVE  PromiseInv'
  BY <1>1, <1>6, LookPromise, CallProviderPromise, CallCancelPromise DEF AskStep
<1> QED
  BY <1>1, <1>3, <1>4, <1>5, <1>6, NextCases, StartPromise, InsertPromise,
     RowStepPromise, JobEndsPromise

LEMMA InitPromise == Init => PromiseInv
<1> SUFFICES ASSUME Init PROVE PromiseInv
  OBVIOUS
<1>1. Base
  BY ParameterAssumption
  DEF Init, Base, CallsOK, Held, LedgersOK, Points, Worlds, OnceInv, AtMostOneEffect,
      EffectIsOnRecord, OneRowPerPlan, Callers, OneCaller
<1> QED
  BY <1>1 DEF Init, PromiseInv, WorldStarted, RowsTrue, CallsTrue, CallTrue

LEMMA PromiseIsInvariant == Spec => []PromiseInv
BY InitPromise, NextKeepsPromise, PTL DEF Spec

\* An operation reported safe to retry has had no effect and can have none later:
\* a row gets a failed verdict from an answer that rules the effect out, or before
\* the plan is sent, and no runner can then be on its way to the provider.
THEOREM RetriesAreSafe == Spec => []SafeToRetryMeansNoEffect
<1>1. PromiseInv => SafeToRetryMeansNoEffect
  <2> SUFFICES ASSUME PromiseInv, NEW o \in Operations, store[o] # None,
                      SafeToRetry(store[o])
               PROVE  /\ world[store[o].plan] \in {"untouched", "void"}
                      /\ ~ \E r \in Runners :
                             pc[r] = "calling" /\ call[r].plan = store[o].plan
    BY DEF SafeToRetryMeansNoEffect
  <2>1. Failed(store[o])
    BY DEF SafeToRetry, Failed
  <2>2. world[store[o].plan] \in {"untouched", "void"}
    BY <2>1 DEF PromiseInv, RowsTrue, RowTrue
  <2>3. ASSUME NEW r \in Runners, pc[r] = "calling", call[r].plan = store[o].plan
        PROVE  FALSE
    <3>1. call[r].op = o
      BY <2>3, CallerUntouched DEF PromiseInv, Base, OnceInv, OneRowPerPlan
    <3> QED
      BY <2>1, <2>3, <3>1, CallerUntouched
  <2> QED
    BY <2>2, <2>3
<1> QED
  BY <1>1, PromiseIsInvariant, PTL

-----------------------------------------------------------------------------
(***************************************************************************)
(* The refinement.                                                         *)
(***************************************************************************)

\* The verdict of a plan is that of its only row, and open without one.
Verdicts ==
    /\ \A o \in Operations :
          store[o] # None => VerdictBar[store[o].plan] = VerdictOf(store[o])
    /\ \A p \in Plans : RowsOf(p) = {} => VerdictBar[p] = "open"

LEMMA VerdictsOfRows == PromiseInv => Verdicts
<1> SUFFICES ASSUME PromiseInv PROVE Verdicts
  OBVIOUS
<1>1. ASSUME NEW o \in Operations, store[o] # None
      PROVE  VerdictBar[store[o].plan] = VerdictOf(store[o])
  <2> DEFINE p == store[o].plan
  <2>1. p \in Plans
    BY <1>1 DEF PromiseInv, Base, CallsOK, Rows
  <2>2. RowsOf(p) = {o}
    BY <1>1 DEF RowsOf, PromiseInv, Base, OnceInv, OneRowPerPlan
  <2>3. (CHOOSE x \in RowsOf(p) : TRUE) = o
    BY <2>2
  <2> QED
    BY <2>1, <2>2, <2>3 DEF VerdictBar
<1>2. ASSUME NEW p \in Plans, RowsOf(p) = {}
      PROVE  VerdictBar[p] = "open"
  BY <1>2 DEF VerdictBar
<1> QED
  BY <1>1, <1>2 DEF Verdicts

LEMMA NextVerdicts == PromiseInv' => Verdicts'
BY VerdictsOfRows, PTL

LEMMA SameStoreSameVerdict == UNCHANGED store => UNCHANGED VerdictBar
BY DEF VerdictBar, RowsOf, VerdictOf, Verified

\* A written row changes the verdict of its own plan only.
LEMMA WrittenVerdict ==
    ASSUME PromiseInv, PromiseInv', NEW o \in Operations, NEW row \in Rows,
           store' = [store EXCEPT ![o] = row],
           store[o] = None => RowsOf(row.plan) = {},
           store[o] # None => store[o].plan = row.plan
    PROVE  VerdictBar' = [VerdictBar EXCEPT ![row.plan] = VerdictOf(row)]
<1>1. Verdicts /\ Verdicts'
  BY VerdictsOfRows, NextVerdicts
<1>2. \A x \in Operations : store'[x] = IF x = o THEN row ELSE store[x]
  BY DEF PromiseInv, Base, CallsOK
<1>3. row # None /\ row.plan \in Plans
  BY NoneAssumption DEF Rows
<1>4. VerdictBar'[row.plan] = VerdictOf(row)
  <2>1. store'[o] = row
    BY <1>2
  <2>2. VerdictBar'[store'[o].plan] = VerdictOf(store'[o])
    BY <1>1, <1>3, <2>1 DEF Verdicts, VerdictOf, Verified
  <2> QED
    BY <2>1, <2>2
<1>5. ASSUME NEW q \in Plans, q # row.plan
      PROVE  VerdictBar'[q] = VerdictBar[q]
  <2>1. RowsOf(q)' = RowsOf(q)
    BY <1>2, <1>3, <1>5 DEF RowsOf
  <2>2. CASE RowsOf(q) = {}
    BY <1>1, <2>1, <2>2 DEF Verdicts
  <2>3. CASE RowsOf(q) # {}
    <3>1. PICK x \in Operations : store[x] # None /\ store[x].plan = q
      BY <2>3 DEF RowsOf
    <3>2. store'[x] = store[x]
      BY <1>2, <1>3, <1>5, <3>1
    <3>3. VerdictBar'[store'[x].plan] = VerdictOf(store'[x])
      BY <1>1, <3>1, <3>2 DEF Verdicts, VerdictOf, Verified
    <3>4. VerdictBar[q] = VerdictOf(store[x])
      BY <1>1, <3>1 DEF Verdicts
    <3> QED
      BY <3>1, <3>2, <3>3, <3>4
  <2> QED
    BY <2>2, <2>3
<1>6. /\ VerdictBar = [q \in Plans |-> VerdictBar[q]]
      /\ VerdictBar' = [q \in Plans |-> VerdictBar'[q]]
  BY DEF VerdictBar
<1> QED
  BY <1>3, <1>4, <1>5, <1>6

\* How a written row moves the verdict, and what the provider did by then.
Rules(from, to, w) ==
    \/ from = to
    \/ from = "open" /\ to = "sent"
    \/ from = "open" /\ to = "failed" /\ w = "untouched"
    \/ from = "sent" /\ to = "done" /\ w = "applied"
    \/ from = "sent" /\ to = "failed" /\ w = "void"
    \/ from = "sent" /\ to = "review"

LEMMA ReplacementRules ==
    ASSUME PromiseInv, NEW r \in Runners, NEW o \in Operations, store[o] \in Rows,
           pc[r] \notin {"idle", "insert"}, NEW row \in Rows, NEW point \in Points,
           Replaces(r, o, row, point)
    PROVE  Rules(VerdictOf(store[o]), VerdictOf(row), world[row.plan])
<1> DEFINE old == store[o]
<1>1. /\ old # None /\ old.plan = call[r].plan /\ row.plan = old.plan
      /\ row.status \in Allowed[old.status] /\ old.status = call[r].seen.status
      /\ Judged(r, row.status, row.reason, point)
  BY NoneAssumption DEF Replaces
<1>2. Reasoned(old) /\ Reasoned(call[r].seen)
  BY <1>1, RowReasoned DEF PromiseInv, CallsTrue, CallTrue
<1>3. old.status \in Statuses
  BY DEF Rows
<1>4. CASE old.status \in {"PLANNED", "AWAITING_APPROVAL"}
  <2>1. row.status \in {"AWAITING_APPROVAL", "AUTHORIZED"}
    BY <1>1, <1>3, <1>4 DEF Allowed, Statuses
  <2> QED
    BY <1>4, <2>1 DEF Rules, VerdictOf, BeforeExecution, Unconcluded, Verified
<1>5. CASE old.status = "AUTHORIZED"
  <2>1. row.status \in {"EXECUTING", "FAILED_CONFIRMED"}
    BY <1>1, <1>5 DEF Allowed, Statuses
  <2>2. world[row.plan] = "untouched"
    BY <1>1, <1>5, OpenUntouched DEF BeforeExecution
  <2> QED
    BY <1>5, <2>1, <2>2 DEF Rules, VerdictOf, BeforeExecution, Unconcluded, Verified
<1>6. CASE old.status \in Unconcluded
  <2>1. row.status \in Unconcluded \cup
           {"EXECUTED_UNCERTAIN", "TIMED_OUT", "EXECUTED_VERIFIED", "FAILED_CONFIRMED"}
    BY <1>1, <1>6 DEF Allowed, Statuses, Unconcluded
  <2>2. /\ row.status = "EXECUTED_VERIFIED" => world[row.plan] = "applied"
        /\ row.status = "FAILED_CONFIRMED" => world[row.plan] = "void"
    BY <1>1, <1>6 DEF Judged, Unconcluded
  <2> QED
    BY <1>6, <2>1, <2>2 DEF Rules, VerdictOf, BeforeExecution, Unconcluded, Verified
<1>7. CASE old.status \in {"EXECUTED_VERIFIED", "FAILED_CONFIRMED"}
  <2>1. row.status = "COMPLETED" /\ row.reason = call[r].seen.reason
    BY <1>1, <1>7 DEF Allowed, Statuses, Judged
  <2> QED
    BY <1>1, <1>2, <1>7, <2>1
    DEF Rules, VerdictOf, BeforeExecution, Unconcluded, Verified, Reasoned
<1>8. CASE old.status \in
             {"EXECUTED_UNCERTAIN", "TIMED_OUT", "MANUAL_REVIEW_REQUIRED",
              "COMPENSATION_REQUIRED", "COMPLETED"}
  <2>1. /\ row.status \in {"MANUAL_REVIEW_REQUIRED", "COMPENSATION_REQUIRED"}
        /\ old.status # "COMPLETED"
    BY <1>1, <1>8 DEF Allowed, Statuses
  <2> QED
    BY <1>8, <2>1 DEF Rules, VerdictOf, BeforeExecution, Unconcluded, Verified
<1> QED
  BY <1>3, <1>4, <1>5, <1>6, <1>7, <1>8 DEF Statuses, Unconcluded

Promised == [Promise!Next]_<<VerdictBar, world>>

LEMMA RulesArePromised ==
    ASSUME NEW p \in Plans, NEW to, UNCHANGED world,
           VerdictBar' = [VerdictBar EXCEPT ![p] = to],
           Rules(VerdictBar[p], to, world[p])
    PROVE  Promised
<1>1. CASE VerdictBar[p] = to
  BY <1>1 DEF Promised, VerdictBar
<1>2. CASE VerdictBar[p] = "open" /\ to = "sent"
  BY <1>2 DEF Promised, Promise!Next, Promise!Send, Promise!Judge
<1>3. CASE VerdictBar[p] = "open" /\ to = "failed" /\ world[p] = "untouched"
  BY <1>3 DEF Promised, Promise!Next, Promise!Close, Promise!Judge
<1>4. CASE VerdictBar[p] = "sent" /\ to = "done" /\ world[p] = "applied"
  BY <1>4 DEF Promised, Promise!Next, Promise!Confirm, Promise!Judge
<1>5. CASE VerdictBar[p] = "sent" /\ to = "failed" /\ world[p] = "void"
  BY <1>5 DEF Promised, Promise!Next, Promise!Refute, Promise!Judge
<1>6. CASE VerdictBar[p] = "sent" /\ to = "review"
  BY <1>6 DEF Promised, Promise!Next, Promise!Defer, Promise!Judge
<1> QED
  BY <1>1, <1>2, <1>3, <1>4, <1>5, <1>6 DEF Rules

LEMMA StutterIsPromised == UNCHANGED <<store, world>> => Promised
BY SameStoreSameVerdict DEF Promised

LEMMA RowStepPromised ==
    ASSUME PromiseInv, PromiseInv', NEW r \in Runners, RowStep(r)
    PROVE  Promised
<1>1. UNCHANGED world
  BY RowStepReplaces DEF ledgers
<1>2. CASE UNCHANGED store
  BY <1>1, <1>2, StutterIsPromised
<1>3. ASSUME call[r].op \in Operations, store[call[r].op] \in Rows,
             pc[r] \notin {"idle", "insert"},
             NEW row \in Rows, NEW point \in Points, Replaces(r, call[r].op, row, point)
      PROVE  Promised
  <2> DEFINE o == call[r].op
  <2>1. /\ store' = [store EXCEPT ![o] = row] /\ row.plan = store[o].plan
        /\ store[o] # None /\ row.plan \in Plans
    BY <1>3, NoneAssumption DEF Replaces, Rows
  <2>2. VerdictBar' = [VerdictBar EXCEPT ![row.plan] = VerdictOf(row)]
    BY <1>3, <2>1, WrittenVerdict
  <2>3. VerdictBar[row.plan] = VerdictOf(store[o])
    BY <1>3, <2>1, VerdictsOfRows DEF Verdicts
  <2>4. Rules(VerdictBar[row.plan], VerdictOf(row), world[row.plan])
    BY <1>3, <2>3, ReplacementRules
  <2> QED
    BY <1>1, <2>1, <2>2, <2>4, RulesArePromised
<1> QED
  BY <1>2, <1>3, RowStepReplaces

LEMMA InsertPromised ==
    ASSUME PromiseInv, PromiseInv', NEW r \in Runners, Insert(r)
    PROVE  Promised
<1> DEFINE c == call[r]
           row == [plan |-> c.plan, status |-> "PLANNED", reason |-> "NONE",
                   polls |-> 0,
                   deadline |-> EarlierOf(Expires, c.asOf + ObservationTimeout)]
<1>1. UNCHANGED world
  BY DEF Insert, ledgers
<1>2. CASE UNCHANGED store
  BY <1>1, <1>2, StutterIsPromised
<1>3. CASE /\ store[c.op] = None /\ PlanIsFree(c.plan)
           /\ store' = [store EXCEPT ![c.op] = row]
  <2>1. c \in Calls /\ c.op \in Operations /\ c.plan \in Plans
    BY DEF Insert, PromiseInv, Base, CallsOK, Calls
  <2>2. row.plan = c.plan /\ row.status = "PLANNED"
    OBVIOUS
  <2>3. store'[c.op] = row /\ row \in Rows
    <3>1. store'[c.op] = row
      BY <1>3, <2>1 DEF PromiseInv, Base, CallsOK
    <3>2. row # None
      BY <2>1, ParameterAssumption, NoneAssumption
      DEF Rows, Statuses, Reasons, EarlierOf, Calls
    <3> QED
      BY <2>1, <3>1, <3>2 DEF PromiseInv, Base, CallsOK
  <2>4. RowsOf(c.plan) = {}
    BY <1>3 DEF PlanIsFree, RowsOf
  <2> HIDE DEF row
  <2>5. VerdictBar' = [VerdictBar EXCEPT ![c.plan] = VerdictOf(row)]
    BY <1>3, <2>1, <2>2, <2>3, <2>4, WrittenVerdict
  <2>6. VerdictOf(row) = "open"
    BY <2>2 DEF VerdictOf, BeforeExecution, Unconcluded, Verified
  <2>7. VerdictBar[c.plan] = "open"
    BY <2>1, <2>4, VerdictsOfRows DEF Verdicts
  <2>8. Rules(VerdictBar[c.plan], VerdictOf(row), world[c.plan])
    BY <2>6, <2>7 DEF Rules
  <2> QED
    BY <1>1, <2>1, <2>5, <2>8, RulesArePromised
<1> QED
  BY <1>2, <1>3 DEF Insert

\* The provider takes the one request of a plan that is on record as sent.
LEMMA CallProviderPromised ==
    ASSUME PromiseInv, NEW r \in Runners, CallProvider(r)
    PROVE  Promised
<1> DEFINE p == call[r].plan
           o == call[r].op
<1>1. /\ p \in Plans /\ o \in Operations /\ world[p] = "untouched"
      /\ store[o] # None /\ store[o].plan = p
      /\ store[o].status \notin BeforeExecution
      /\ ~Failed(store[o]) /\ ~Verified(store[o])
  BY CallerUntouched DEF CallProvider
<1>2. VerdictBar[p] \in {"sent", "review"}
  <2>1. VerdictBar[p] = VerdictOf(store[o])
    BY <1>1, VerdictsOfRows DEF Verdicts
  <2> QED
    BY <1>1, <2>1 DEF VerdictOf, Failed, Verified
<1>3. \E e \in {"queued", "applied", "void"} : world' = [world EXCEPT ![p] = e]
  BY DEF CallProvider, Worlds
<1>4. UNCHANGED VerdictBar
  BY SameStoreSameVerdict DEF CallProvider
<1>5. Promise!TakeEffect(p)
  BY <1>1, <1>2, <1>3, <1>4 DEF Promise!TakeEffect
<1> QED
  BY <1>1, <1>5 DEF Promised, Promise!Next

\* A job ends by itself or because it was cancelled.
LEMMA JobEndsPromised ==
    ASSUME NEW p \in Plans, UNCHANGED store, world[p] = "queued",
           NEW w \in {"applied", "void"}, world' = [world EXCEPT ![p] = w]
    PROVE  Promised
<1>1. Promise!JobEnds(p)
  BY SameStoreSameVerdict DEF Promise!JobEnds
<1> QED
  BY <1>1 DEF Promised, Promise!Next

LEMMA CallCancelPromised ==
    ASSUME PromiseInv, NEW r \in Runners, CallCancel(r)
    PROVE  Promised
<1> DEFINE p == call[r].plan
<1>1. UNCHANGED store /\ p \in Plans
  BY DEF CallCancel, PromiseInv, Base, CallsOK, Calls
<1>2. CASE UNCHANGED world
  BY <1>1, <1>2, StutterIsPromised
<1>3. CASE world[p] = "queued" /\ world' = [world EXCEPT ![p] = "void"]
  BY <1>1, <1>3, JobEndsPromised
<1>4. CASE world[p] = "void" /\ world' = [world EXCEPT ![p] = "void"]
  <2>1. UNCHANGED world
    BY <1>1, <1>4 DEF PromiseInv, Base, LedgersOK
  <2> QED
    BY <1>2, <2>1
<1> QED
  BY <1>2, <1>3, <1>4 DEF CallCancel

LEMMA NextIsPromised == PromiseInv /\ PromiseInv' /\ [Next]_vars => Promised
<1> SUFFICES ASSUME PromiseInv, PromiseInv', [Next]_vars
             PROVE  Promised
  OBVIOUS
<1>1. CASE UNCHANGED vars \/ Tick
  BY <1>1, StutterIsPromised DEF vars, Tick
<1>2. ASSUME NEW r \in Runners,
             Start(r) \/ Crash(r) \/ (AskStep(r) /\ ~CallProvider(r) /\ ~CallCancel(r))
      PROVE  Promised
  BY <1>2, StutterIsPromised
  DEF Start, StartExecute, StartResume, StartObserve, StartCancel, Crash, AskStep,
      CheckBurned, Burn, Reload, Preflight, Poll, ledgers, external
<1>3. ASSUME NEW p \in Plans, JobEnds(p)
      PROVE  Promised
  BY <1>3, JobEndsPromised DEF JobEnds
<1> QED
  BY <1>1, <1>2, <1>3, NextCases, RowStepPromised, InsertPromised,
     CallProviderPromised, CallCancelPromised

LEMMA InitIsPromised == Init => Promise!Init
<1> SUFFICES ASSUME Init PROVE Promise!Init
  OBVIOUS
<1>1. \A p \in Plans : RowsOf(p) = {}
  BY DEF Init, RowsOf
<1>2. VerdictBar = [p \in Plans |-> "open"]
  BY <1>1 DEF VerdictBar
<1> QED
  BY <1>2 DEF Init, Promise!Init

\* The durable lifecycle implements EffectPromise, for any number of processes,
\* operation ids and plans, through crashes and restarts at any point: a plan is
\* committed to before it is sent, sent at most once, and judged by what the
\* provider did.
THEOREM LifecycleKeepsPromise == Spec => KeepsPromise
BY InitIsPromised, NextIsPromised, PromiseIsInvariant, PTL
DEF Spec, KeepsPromise, Promise!Spec, Promised

-----------------------------------------------------------------------------
(***************************************************************************)
(* The polls of one observer.                                              *)
(***************************************************************************)

\* One process, restarted as often as it crashes.
OneRunner == \A q, r \in Runners : q = r

PollsOf(row) == IF row = None THEN 0 ELSE row.polls

Asked(o) == \E r \in Runners : pc[r] = "polled" /\ call[r].op = o

\* What the observer holds of the row, and what it learned of it.
Observes(point, c, row) ==
    /\ point \notin {"idle", "insert"} => c.seen = row
    /\ point \in {"poll", "polled"} => c.seen.status = "OBSERVING"
    /\ point = "polled" =>
           /\ c.seen.polls < MaxPolls
           /\ c.answer \in {"UNCERTAIN", "PENDING", "VERIFIED", "FAILED_CONFIRMED"}

\* Every request is a poll on record, or the one under way, or was lost to a crash.
PollInv ==
    /\ \A r \in Runners : Observes(pc[r], call[r], store[call[r].op])
    /\ \A o \in Operations :
          /\ PollsOf(store[o]) <= MaxPolls
          /\ requests[o] <= PollsOf(store[o]) + crashes + 1
          /\ ~Asked(o) => requests[o] <= PollsOf(store[o]) + crashes

\* What a step of the one runner has to show.
LEMMA MovingKeepsPolls ==
    ASSUME CallsOK, OneRunner, NEW r \in Runners, NEW point, NEW c,
           Continue(r, point, c), point # "idle" => Observes(point, c, store'[c.op]),
           \A o \in Operations :
               /\ PollsOf(store'[o]) <= MaxPolls
               /\ requests'[o] <= PollsOf(store'[o]) + crashes' + 1
               /\ ~(point = "polled" /\ c.op = o) =>
                      requests'[o] <= PollsOf(store'[o]) + crashes'
    PROVE  PollInv'
<1>1. /\ pc'[r] = point
      /\ point # "idle" => call'[r] = c
      /\ \A q \in Runners : q = r
  BY DEF CallsOK, Continue, OneRunner
<1>2. \A q \in Runners : Observes(pc'[q], call'[q], store'[call'[q].op])
  BY <1>1 DEF Observes
<1>3. \A o \in Operations : Asked(o)' <=> (point = "polled" /\ c.op = o)
  BY <1>1 DEF Asked
<1>4. QED
  BY <1>2, <1>3 DEF PollInv, Asked, Observes, PollsOf

\* A step from any point but "polled", that makes no request and counts no poll.
LEMMA QuietlyKeepsPolls ==
    ASSUME CallsOK, OneRunner, PollInv, NEW r \in Runners, NEW point, NEW c,
           Continue(r, point, c), pc[r] # "polled", point # "polled",
           point # "idle" => Observes(point, c, store'[c.op]),
           UNCHANGED <<requests, crashes>>,
           \A o \in Operations : PollsOf(store'[o]) = PollsOf(store[o])
    PROVE  PollInv'
<1>1. \A o \in Operations : ~Asked(o)
  BY DEF Asked, OneRunner
<1>2. \A o \in Operations :
          /\ PollsOf(store[o]) <= MaxPolls
          /\ requests[o] <= PollsOf(store[o]) + crashes + 1
          /\ requests[o] <= PollsOf(store[o]) + crashes
  BY <1>1 DEF PollInv
<1> HIDE DEF PollsOf, Observes
<1>3. QED
  BY <1>2, MovingKeepsPolls

LEMMA StartKeepsPolls ==
    ASSUME Base, OneRunner, PollInv, NEW r \in Runners, Start(r)
    PROVE  PollInv'
<1>1. CallsOK /\ pc[r] = "idle" /\ UNCHANGED <<store, requests, crashes>>
  BY DEF Base, Start, StartExecute, StartResume, StartObserve, StartCancel, ledgers
<1>2. PICK o \in Operations, p \in Plans, grants \in SUBSET Approvals, point \in Points :
          /\ Continue(r, point, NewCall(o, p, grants))
          /\ point # "polled"
          /\ point = "poll" => store[o].status = "OBSERVING"
  <2>1. ASSUME NEW o \in Operations, NEW p \in Plans, NEW grants \in SUBSET Approvals,
               StartExecute(r, o, p, grants)
        PROVE  \E point \in Points :
                   /\ Continue(r, point, NewCall(o, p, grants))
                   /\ point # "polled"
                   /\ point = "poll" => store[o].status = "OBSERVING"
    BY <2>1 DEF StartExecute, AfterEnsure, Points
  <2>2. ASSUME NEW o \in Operations,
               StartResume(r, o) \/ StartObserve(r, o) \/ StartCancel(r, o)
        PROVE  \E point \in Points :
                   /\ Continue(r, point, NewCall(o, store[o].plan, {}))
                   /\ point # "polled"
                   /\ point = "poll" => store[o].status = "OBSERVING"
    BY <2>2 DEF StartResume, StartObserve, StartCancel, AfterReload, Points
  <2>3. ASSUME NEW o \in Operations,
               StartResume(r, o) \/ StartObserve(r, o) \/ StartCancel(r, o)
        PROVE  store[o].plan \in Plans /\ {} \in SUBSET Approvals
    BY <1>1, <2>3 DEF StartResume, StartObserve, StartCancel, CallsOK, Rows
  <2>4. QED
    BY <2>1, <2>2, <2>3 DEF Start
<1> DEFINE c == NewCall(o, p, grants)
<1>3. c.op = o /\ c.seen = store[o]
  BY DEF NewCall
<1> HIDE DEF c
<1>4. Observes(point, c, store'[c.op])
  BY <1>1, <1>2, <1>3 DEF Observes
<1>5. QED
  BY <1>1, <1>2, <1>4, QuietlyKeepsPolls DEF c

LEMMA InsertKeepsPolls ==
    ASSUME Base, OneRunner, PollInv, NEW r \in Runners, Insert(r)
    PROVE  PollInv'
<1> DEFINE c == call[r]
           row == [plan |-> c.plan, status |-> "PLANNED", reason |-> "NONE",
                   polls |-> 0,
                   deadline |-> EarlierOf(Expires, c.asOf + ObservationTimeout)]
           d == [c EXCEPT !.seen = row]
<1>1. /\ CallsOK /\ pc[r] = "insert" /\ UNCHANGED <<requests, crashes>>
      /\ c \in Calls /\ c.op \in Operations
      /\ store \in [Operations -> Rows \cup {None}]
  BY DEF Base, Insert, ledgers, CallsOK, Calls
<1>2. CASE store[c.op] = None /\ PlanIsFree(c.plan)
  <2>1. store' = [store EXCEPT ![c.op] = row] /\ Continue(r, "submit", d)
    BY <1>2 DEF Insert
  <2>2. d.op = c.op /\ d.seen = row /\ row.polls = 0
    BY <1>1 DEF Calls
  <2> HIDE DEF row, d, c
  <2>3. store'[c.op] = row /\ \A o \in Operations : o # c.op => store'[o] = store[o]
    BY <1>1, <2>1
  <2>4. \A o \in Operations : PollsOf(store'[o]) = PollsOf(store[o])
    BY <1>2, <2>2, <2>3 DEF PollsOf
  <2>5. Observes("submit", d, store'[d.op])
    BY <2>2, <2>3 DEF Observes
  <2>6. QED
    BY <1>1, <2>1, <2>4, <2>5, QuietlyKeepsPolls
<1>3. CASE ~(store[c.op] = None /\ PlanIsFree(c.plan))
  <2>1. Continue(r, "idle", None) /\ UNCHANGED store
    BY <1>3 DEF Insert, Return
  <2>2. QED
    BY <1>1, <2>1, QuietlyKeepsPolls
<1>4. QED
  BY <1>2, <1>3

\* The row that a transition of the one observer writes, or that it leaves alone.
LEMMA TransitionsByOne ==
    ASSUME Base, PollInv, NEW r \in Runners, pc[r] \notin {"idle", "insert"},
           NEW status \in Statuses, NEW reason \in Reasons, NEW poll \in Nat,
           NEW point \in Points, Transition(r, status, reason, poll, point)
    PROVE  \/ /\ status \notin Allowed[call[r].seen.status]
              /\ Return(r) /\ UNCHANGED store
           \/ \E c \in Calls, row \in Rows :
                 /\ store' = [store EXCEPT ![c.op] = row]
                 /\ Continue(r, point, c)
                 /\ c.op = call[r].op /\ c.op \in Operations /\ c.seen = row
                 /\ row.polls = store[c.op].polls + poll
                 /\ row.status = status /\ row # None /\ store[c.op] # None
                 /\ store[c.op] \in Rows
<1> DEFINE row == Updated(call[r].seen, status, reason, poll)
           c == [call[r] EXCEPT !.seen = row]
<1>1. /\ call[r] \in Calls /\ call[r].op \in Operations /\ call[r].seen \in Rows
      /\ call[r].seen = store[call[r].op] /\ store[call[r].op] # None
  BY DEF Base, CallsOK, Held, Calls, PollInv, Observes
<1>2. /\ row \in Rows /\ row.status = status
      /\ row.polls = call[r].seen.polls + poll /\ row # None
  BY <1>1, UpdatedRow, NoneAssumption DEF Updated
<1>3. Current(r)
  BY <1>1 DEF Current
<1> HIDE DEF row
<1>4. c \in Calls /\ c.op = call[r].op /\ c.seen = row
  BY <1>1, <1>2 DEF Calls
<1>5. CASE status \in Allowed[call[r].seen.status]
  <2>1. store' = [store EXCEPT ![call[r].op] = row] /\ Continue(r, point, c)
    BY <1>3, <1>5 DEF Transition, row
  <2> HIDE DEF c
  <2>2. QED
    BY <1>1, <1>2, <1>4, <2>1
<1>6. CASE status \notin Allowed[call[r].seen.status]
  BY <1>6 DEF Transition
<1>7. QED
  BY <1>5, <1>6

\* The transitions that count no poll.
Uncounted(r) ==
    \/ Submit(r) \/ MarkInterrupted(r) \/ Resubmit(r) \/ Promote(r)
    \/ CloseExpired(r) \/ CloseDrifted(r) \/ Dispatch(r)
    \/ RecordOutcome(r) \/ Finish(r) \/ Attach(r) \/ TimeOut(r) \/ RecordCancelled(r)

LEMMA UncountedTransitions ==
    ASSUME Base, NEW r \in Runners, Uncounted(r)
    PROVE  /\ pc[r] \notin {"idle", "insert", "polled"} /\ UNCHANGED <<requests, crashes>>
           /\ \E status \in Statuses, reason \in Reasons, point \in Points :
                 /\ Transition(r, status, reason, 0, point)
                 /\ point # "polled"
                 /\ point = "poll" => status = "OBSERVING"
<1> DEFINE Some == \E status \in Statuses, reason \in Reasons, point \in Points :
                      /\ Transition(r, status, reason, 0, point)
                      /\ point # "polled"
                      /\ point = "poll" => status = "OBSERVING"
<1>1. pc[r] \notin {"idle", "insert", "polled"} /\ UNCHANGED <<requests, crashes>>
  BY DEF Uncounted, Submit, MarkInterrupted, Resubmit, Promote, CloseExpired,
         CloseDrifted, Dispatch, RecordOutcome, Finish, Attach, TimeOut,
         RecordCancelled, ledgers
<1>2. call[r] \in Calls /\ call[r].seen \in Rows
  BY <1>1 DEF Base, CallsOK, Held, Calls
<1>3. ASSUME Submit(r) \/ Resubmit(r)
      PROVE  Some
  <2>1. PICK point \in {"approve", "reload", "promote", "idle"} :
            Transition(r, "AWAITING_APPROVAL", "NONE", 0, point)
    BY <1>3 DEF Submit, Resubmit
  <2>2. QED
    BY <2>1 DEF Statuses, Reasons, Points
<1>4. ASSUME \/ MarkInterrupted(r) \/ Promote(r) \/ CloseExpired(r) \/ CloseDrifted(r)
             \/ Dispatch(r) \/ Attach(r) \/ TimeOut(r)
      PROVE  Some
  BY <1>4 DEF MarkInterrupted, Promote, CloseExpired, CloseDrifted, Dispatch, Attach,
     TimeOut, Statuses, Reasons, Points
<1>5. ASSUME RecordOutcome(r)
      PROVE  Some
  <2> DEFINE status == Outcome(call[r].answer)[1]
             reason == Outcome(call[r].answer)[2]
  <2>1. PICK point \in {"idle", "finish"} : Transition(r, status, reason, 0, point)
    BY <1>5 DEF RecordOutcome
  <2>2. status \in Statuses /\ reason \in Reasons
    BY DEF Outcome, Statuses, Reasons
  <2> HIDE DEF status, reason
  <2>3. QED
    BY <2>1, <2>2 DEF Points
<1>6. ASSUME Finish(r)
      PROVE  Some
  <2> DEFINE status == Terminal(call[r].seen.status)
             reason == call[r].seen.reason
  <2>1. Transition(r, status, reason, 0, "idle")
    BY <1>6 DEF Finish
  <2>2. status \in Statuses /\ reason \in Reasons
    BY <1>2 DEF Terminal, Statuses, Rows
  <2> HIDE DEF status, reason
  <2>3. QED
    BY <2>1, <2>2 DEF Points
<1>7. ASSUME RecordCancelled(r)
      PROVE  Some
  BY <1>7 DEF RecordCancelled, Statuses, Reasons, Points
<1>8. QED
  BY <1>1, <1>3, <1>4, <1>5, <1>6, <1>7 DEF Uncounted

LEMMA UncountedKeepsPolls ==
    ASSUME Base, OneRunner, PollInv, NEW r \in Runners, Uncounted(r)
    PROVE  PollInv'
<1>1. PICK status \in Statuses, reason \in Reasons, point \in Points :
          /\ Transition(r, status, reason, 0, point)
          /\ point # "polled"
          /\ point = "poll" => status = "OBSERVING"
  BY UncountedTransitions
<1>2. /\ CallsOK /\ pc[r] \notin {"idle", "insert", "polled"}
      /\ UNCHANGED <<requests, crashes>>
  BY UncountedTransitions DEF Base
<1>3. CASE Return(r) /\ UNCHANGED store
  BY <1>2, <1>3, QuietlyKeepsPolls DEF Return
<1>4. ASSUME NEW c \in Calls, NEW row \in Rows,
             store' = [store EXCEPT ![c.op] = row], Continue(r, point, c),
             c.op \in Operations, c.seen = row, row.polls = store[c.op].polls + 0,
             row.status = status, row # None, store[c.op] # None, store[c.op] \in Rows
      PROVE  PollInv'
  <2>1. row.polls = store[c.op].polls
    BY <1>4 DEF Rows
  <2>2. store'[c.op] = row /\ \A o \in Operations : o # c.op => store'[o] = store[o]
    BY <1>2, <1>4 DEF CallsOK
  <2>3. \A o \in Operations : PollsOf(store'[o]) = PollsOf(store[o])
    BY <1>4, <2>1, <2>2 DEF PollsOf
  <2>4. Observes(point, c, store'[c.op])
    BY <1>1, <1>4, <2>2 DEF Observes
  <2>5. QED
    BY <1>1, <1>2, <1>4, <2>3, <2>4, QuietlyKeepsPolls
<1>5. QED
  BY <1>1, <1>2, <1>3, <1>4, TransitionsByOne

\* An answer of the provider always gets on record.
LEMMA RecordingKeepsPolls ==
    ASSUME Base, OneRunner, PollInv, NEW r \in Runners,
           RecordPending(r) \/ RecordObservation(r)
    PROVE  PollInv'
<1>1. /\ CallsOK /\ pc[r] = "polled" /\ UNCHANGED <<requests, crashes>>
      /\ call[r].seen.status = "OBSERVING" /\ call[r].seen.polls < MaxPolls
      /\ call[r].answer \in {"UNCERTAIN", "PENDING", "VERIFIED", "FAILED_CONFIRMED"}
      /\ call[r].seen = store[call[r].op] /\ call[r].op \in Operations
  BY DEF Base, RecordPending, RecordObservation, ledgers, PollInv, Observes, CallsOK,
     Calls
<1>2. PICK status \in Allowed["OBSERVING"], reason \in Reasons, point \in {"idle", "finish"} :
          Transition(r, status, reason, 1, point)
  <2>1. CASE RecordPending(r)
    BY <2>1 DEF RecordPending, Allowed, Statuses, Reasons
  <2>2. CASE RecordObservation(r)
    <3> DEFINE status == Outcome(call[r].answer)[1]
               reason == Outcome(call[r].answer)[2]
    <3>1. Transition(r, status, reason, 1, "finish")
      BY <2>2 DEF RecordObservation
    <3>2. call[r].answer \in {"UNCERTAIN", "VERIFIED", "FAILED_CONFIRMED"}
      BY <1>1, <2>2 DEF RecordObservation
    <3>3. status \in Allowed["OBSERVING"] /\ reason \in Reasons
      BY <3>2 DEF Outcome, Allowed, Statuses, Reasons
    <3> HIDE DEF status, reason
    <3>4. QED
      BY <3>1, <3>3
  <2>3. QED
    BY <2>1, <2>2
<1>3. status \in Statuses /\ point \in Points
  BY DEF Allowed, Statuses, Points
<1>4. PICK c \in Calls, row \in Rows :
          /\ store' = [store EXCEPT ![c.op] = row] /\ Continue(r, point, c)
          /\ c.op = call[r].op /\ c.op \in Operations /\ c.seen = row
          /\ row.polls = store[c.op].polls + 1
          /\ row # None /\ store[c.op] # None /\ store[c.op] \in Rows
  BY <1>1, <1>2, <1>3, TransitionsByOne
<1>5. store'[c.op] = row /\ \A o \in Operations : o # c.op => store'[o] = store[o]
  BY <1>1, <1>4 DEF CallsOK
<1>6. Observes(point, c, store'[c.op])
  BY <1>4, <1>5 DEF Observes
<1>7. \A o \in Operations : o # c.op => ~Asked(o)
  BY <1>1, <1>4 DEF Asked, OneRunner
<1>8. /\ row.polls \in Nat /\ store[c.op].polls \in Nat
      /\ \A o \in Operations : requests[o] \in Nat
      /\ crashes \in Nat /\ MaxPolls \in Nat
  BY <1>4, ParameterAssumption DEF Rows, Base, LedgersOK
<1>9. ASSUME NEW o \in Operations
      PROVE  /\ PollsOf(store'[o]) <= MaxPolls
             /\ requests[o] <= PollsOf(store'[o]) + crashes + 1
             /\ requests[o] <= PollsOf(store'[o]) + crashes
  <2>1. CASE o = c.op
    <3>1. PollsOf(store'[o]) = row.polls /\ PollsOf(store[o]) = store[c.op].polls
      BY <1>4, <1>5, <2>1 DEF PollsOf
    <3>2. requests[o] <= store[c.op].polls + crashes + 1
      BY <3>1 DEF PollInv
    <3>3. row.polls = store[c.op].polls + 1 /\ store[c.op].polls < MaxPolls
      BY <1>1, <1>4
    <3>4. QED
      BY <1>8, <3>1, <3>2, <3>3
  <2>2. CASE o # c.op
    BY <1>5, <1>7, <2>2 DEF PollInv
  <2>3. QED
    BY <2>1, <2>2
<1>10. QED
  BY <1>1, <1>4, <1>6, <1>9, MovingKeepsPolls

\* The steps that wait, and count no poll and make no request for one.
Waits(r) ==
    CheckBurned(r) \/ Burn(r) \/ Reload(r) \/ Preflight(r) \/ CallProvider(r)
    \/ CallCancel(r)

LEMMA WaitingKeepsPolls ==
    ASSUME Base, OneRunner, PollInv, NEW r \in Runners, Waits(r)
    PROVE  PollInv'
<1> DEFINE c == call[r]
           Goes(d) == /\ \E point \in Points \ {"poll", "polled"} : Continue(r, point, d)
                      /\ d.op = c.op /\ d.seen = store[c.op]
<1>1. /\ CallsOK /\ pc[r] \notin {"idle", "insert", "polled"}
      /\ UNCHANGED <<store, requests, crashes>>
  BY DEF Base, Waits, CheckBurned, Burn, Reload, Preflight, CallProvider, CallCancel,
         ledgers, external
<1>2. c \in Calls /\ c.seen = store[c.op] /\ store[c.op] \in Rows
  BY <1>1 DEF Base, CallsOK, Held, PollInv, Observes, Calls
<1>3. \/ Return(r)
      \/ \E d \in Calls : Goes(d)
  <2>1. CASE CheckBurned(r)
    <3> DEFINE d == [c EXCEPT !.authorized = TRUE]
    <3>1. d \in Calls /\ d.op = c.op /\ d.seen = store[c.op]
      BY <1>2 DEF Calls
    <3>2. \/ Return(r)
          \/ Continue(r, "burn", c)
          \/ Continue(r, "reload", d)
      BY <2>1 DEF CheckBurned
    <3> HIDE DEF c, d
    <3>3. QED
      BY <1>2, <3>1, <3>2 DEF Points
  <2>2. CASE Burn(r)
    <3> DEFINE d == [c EXCEPT !.authorized = TRUE]
    <3>1. d \in Calls /\ d.op = c.op /\ d.seen = store[c.op]
      BY <1>2 DEF Calls
    <3>2. Return(r) \/ Continue(r, "reload", d)
      BY <2>2 DEF Burn
    <3> HIDE DEF c, d
    <3>3. QED
      BY <1>2, <3>1, <3>2 DEF Points
  <2>3. CASE Reload(r)
    <3> DEFINE d == [c EXCEPT !.seen = store[c.op]]
    <3>1. d \in Calls /\ d.op = c.op /\ d.seen = store[c.op]
      BY <1>2 DEF Calls
    <3>2. Continue(r, AfterReload(store[c.op], c.authorized), d)
      BY <2>3 DEF Reload
    <3>3. AfterReload(store[c.op], c.authorized) \in Points \ {"poll", "polled"}
      BY DEF AfterReload, Points
    <3> HIDE DEF d
    <3>4. QED
      BY <3>1, <3>2, <3>3
  <2>4. CASE Preflight(r)
    BY <1>2, <2>4 DEF Preflight, Points
  <2>5. CASE CallProvider(r)
    <3>1. PICK a \in Answers : Continue(r, "answered", [c EXCEPT !.answer = a])
      <4>1. \A w \in Worlds \ {"untouched"} : ExecutionAnswers(w) \subseteq Answers
        BY DEF ExecutionAnswers, Answers, Worlds
      <4>2. QED
        BY <2>5, <4>1 DEF CallProvider
    <3> DEFINE d == [c EXCEPT !.answer = a]
    <3>2. d \in Calls /\ d.op = c.op /\ d.seen = c.seen
      BY <1>2 DEF Calls
    <3> HIDE DEF d
    <3>3. QED
      BY <1>2, <3>1, <3>2 DEF d, Points
  <2>6. CASE CallCancel(r)
    BY <1>2, <2>6 DEF CallCancel, Points
  <2>7. QED
    BY <2>1, <2>2, <2>3, <2>4, <2>5, <2>6 DEF Waits
<1>4. CASE Return(r)
  BY <1>1, <1>4, QuietlyKeepsPolls DEF Return
<1>5. ASSUME NEW d \in Calls, Goes(d)
      PROVE  PollInv'
  <2>1. PICK point \in Points \ {"poll", "polled"} : Continue(r, point, d)
    BY <1>5
  <2>2. Observes(point, d, store'[d.op])
    BY <1>1, <1>5 DEF Observes
  <2>3. QED
    BY <1>1, <2>1, <2>2, QuietlyKeepsPolls
<1>6. QED
  BY <1>3, <1>4, <1>5

\* A request is under way: the poll it will be is still to be counted.
LEMMA PollingKeepsPolls ==
    ASSUME Base, OneRunner, PollInv, NEW r \in Runners, Poll(r)
    PROVE  PollInv'
<1> DEFINE c == call[r]
<1>1. /\ CallsOK /\ pc[r] = "poll" /\ UNCHANGED <<store, crashes>>
      /\ requests' = [requests EXCEPT ![c.op] = @ + 1]
      /\ c \in Calls /\ c.op \in Operations /\ ~LimitReached(c)
  BY DEF Base, Poll, CallsOK, Calls
<1>2. c.seen = store[c.op] /\ c.seen.status = "OBSERVING" /\ c.seen \in Rows
  BY <1>1 DEF PollInv, Observes, Base, CallsOK, Held
<1>3. c.seen.polls < MaxPolls
  BY <1>1, <1>2, ParameterAssumption DEF LimitReached, Rows
<1>4. PICK a \in {"UNCERTAIN", "PENDING", "VERIFIED", "FAILED_CONFIRMED"} :
          Continue(r, "polled", [c EXCEPT !.answer = a])
  <2>1. \A w \in Worlds : ObservationAnswers(w) \subseteq
                              {"UNCERTAIN", "PENDING", "VERIFIED", "FAILED_CONFIRMED"}
    BY DEF ObservationAnswers, Worlds
  <2>2. world[c.plan] \in Worlds
    BY <1>1 DEF Base, LedgersOK, Calls
  <2>3. QED
    BY <2>1, <2>2 DEF Poll
<1> DEFINE d == [c EXCEPT !.answer = a]
<1>5. d.op = c.op /\ d.seen = c.seen /\ d.answer = a
  BY <1>1 DEF Calls
<1> HIDE DEF d, c
<1>6. Observes("polled", d, store'[d.op])
  BY <1>1, <1>2, <1>3, <1>5 DEF Observes
<1>7. \A o \in Operations : ~Asked(o)
  BY <1>1 DEF Asked, OneRunner
<1>8. ASSUME NEW o \in Operations
      PROVE  /\ PollsOf(store'[o]) <= MaxPolls
             /\ requests'[o] <= PollsOf(store'[o]) + crashes' + 1
             /\ d.op # o =>
                    requests'[o] <= PollsOf(store'[o]) + crashes'
  <2>1. /\ PollsOf(store[o]) <= MaxPolls
        /\ requests[o] <= PollsOf(store[o]) + crashes
        /\ requests[o] <= PollsOf(store[o]) + crashes + 1
    BY <1>7 DEF PollInv
  <2>2. /\ requests'[o] = IF o = c.op THEN requests[o] + 1 ELSE requests[o]
        /\ requests[o] \in Nat /\ crashes \in Nat
    BY <1>1, ParameterAssumption DEF Base, LedgersOK
  <2>3. PollsOf(store[o]) \in Nat
    BY DEF PollsOf, Base, CallsOK, Rows
  <2> HIDE DEF PollsOf
  <2>4. QED
    BY <1>1, <1>5, <2>1, <2>2, <2>3
<1>9. QED
  BY <1>1, <1>4, <1>6, <1>8, MovingKeepsPolls DEF d

\* A crash pays for the request it loses.
LEMMA CrashKeepsPolls ==
    ASSUME Base, OneRunner, PollInv, NEW r \in Runners, Crash(r)
    PROVE  PollInv'
<1>1. /\ CallsOK /\ UNCHANGED <<store, requests>> /\ Continue(r, "idle", None)
      /\ crashes' = crashes + 1
  BY DEF Base, Crash, Return
<1>2. ASSUME NEW o \in Operations
      PROVE  /\ PollsOf(store'[o]) <= MaxPolls
             /\ requests'[o] <= PollsOf(store'[o]) + crashes' + 1
             /\ requests'[o] <= PollsOf(store'[o]) + crashes'
  <2>1. PollsOf(store[o]) \in Nat /\ requests[o] \in Nat /\ crashes \in Nat
    BY ParameterAssumption DEF PollsOf, Base, CallsOK, Rows, LedgersOK
  <2>2. PollsOf(store[o]) <= MaxPolls /\ requests[o] <= PollsOf(store[o]) + crashes + 1
    BY DEF PollInv
  <2> HIDE DEF PollsOf
  <2>3. QED
    BY <1>1, <2>1, <2>2
<1>3. QED
  BY <1>1, <1>2, MovingKeepsPolls

LEMMA PollsStep ==
    ASSUME Base, OneRunner, PollInv, [Next]_vars
    PROVE  PollInv'
<1>1. ASSUME UNCHANGED <<store, pc, call, requests, crashes>>
      PROVE  PollInv'
  BY <1>1 DEF PollInv, Asked, Observes, PollsOf
<1>2. CASE UNCHANGED vars
  BY <1>1, <1>2 DEF vars
<1>3. CASE Tick \/ \E p \in Plans : JobEnds(p)
  BY <1>1, <1>3 DEF Tick, JobEnds
<1>4. ASSUME NEW r \in Runners, RowStep(r)
      PROVE  PollInv'
  BY <1>4, UncountedKeepsPolls, RecordingKeepsPolls DEF RowStep, Uncounted
<1>5. ASSUME NEW r \in Runners, AskStep(r)
      PROVE  PollInv'
  BY <1>5, WaitingKeepsPolls, PollingKeepsPolls DEF AskStep, Waits
<1>6. QED
  BY <1>2, <1>3, <1>4, <1>5, NextCases, StartKeepsPolls, InsertKeepsPolls, CrashKeepsPolls

\* With one observer, for any plans, windows and answers, an operation is asked for at most
\* as often as its plan allows, and once more for each crash.
THEOREM OnlyCrashesLosePolls ==
    ASSUME OneRunner
    PROVE  Spec => []PollsLostOnlyToCrashes
<1>1. Init => PollInv
  BY ParameterAssumption DEF Init, PollInv, Observes, PollsOf
<1>2. Base /\ PollInv /\ [Next]_vars => PollInv'
  BY PollsStep
<1>3. Base /\ PollInv => PollsLostOnlyToCrashes
  <2> SUFFICES ASSUME Base, PollInv, NEW o \in Operations
               PROVE  requests[o] <= MaxPolls + crashes
    BY DEF PollsLostOnlyToCrashes
  <2>1. /\ PollsOf(store[o]) \in Nat /\ requests[o] \in Nat /\ crashes \in Nat
        /\ MaxPolls \in Nat
    BY ParameterAssumption DEF PollsOf, Base, CallsOK, Rows, LedgersOK
  <2>2. CASE Asked(o)
    <3>1. PICK r \in Runners : pc[r] = "polled" /\ call[r].op = o
      BY <2>2 DEF Asked
    <3>2. call[r].seen = store[o] /\ call[r].seen.polls < MaxPolls /\ store[o] # None
      BY <3>1 DEF PollInv, Observes, Base, Held
    <3>3. PollsOf(store[o]) < MaxPolls
      BY <3>2 DEF PollsOf
    <3>4. requests[o] <= PollsOf(store[o]) + crashes + 1
      BY DEF PollInv
    <3> HIDE DEF PollsOf
    <3>5. QED
      BY <2>1, <3>3, <3>4
  <2>3. CASE ~Asked(o)
    <3>1. PollsOf(store[o]) <= MaxPolls /\ requests[o] <= PollsOf(store[o]) + crashes
      BY <2>3 DEF PollInv
    <3> HIDE DEF PollsOf
    <3>2. QED
      BY <2>1, <3>1
  <2>4. QED
    BY <2>2, <2>3
<1>4. Spec => []Base
  BY PromiseIsInvariant, PTL DEF PromiseInv
<1>5. QED
  BY <1>1, <1>2, <1>3, <1>4, PTL DEF Spec

=============================================================================
