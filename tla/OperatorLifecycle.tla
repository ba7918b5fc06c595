------------------------- MODULE OperatorLifecycle -------------------------
(***************************************************************************)
(* The T2/T3 effect path: ChangeSafeOperator.execute_effectful, the        *)
(* approval ledger, DurableOperationStore and DurableOperatorLifecycle,    *)
(* run by several processes that share the two SQLite files.               *)
(*                                                                         *)
(* A runner is one process serving one call of execute_effectful, execute, *)
(* observe or cancel.  Every SQLite transaction and every awaited provider *)
(* request is one step, so runners interleave between any two of them, and *)
(* a runner may crash (or its task be cancelled) at any of them, losing    *)
(* what it holds in memory; the next call of the same runner is the        *)
(* restarted process.  A record keeps what the control flow reads: the     *)
(* plan digest, the status, the number of polls, the observation deadline  *)
(* and the terminal reason.  Handles and evidence references are left out: *)
(* a record that was accepted always has its handle.                       *)
(***************************************************************************)
EXTENDS Naturals, FiniteSets

CONSTANTS
    Runners,               \* processes that may run a call
    Operations,            \* operation_id values
    Plans,                 \* immutable plans, named by their digest
    Approvals,             \* signed approval grants
    ApprovedPlan,          \* [Approvals -> Plans]: the plan a grant signs
    SignedBy,              \* [Approvals -> authorities]
    GrantUntil,            \* [Approvals -> Nat]: expires_at of the grant
    RequiredCount,         \* [Plans -> {1, 2}]: explicit_plan or dual_control
    NotBefore, Expires,    \* window of every plan
    ObservationTimeout,    \* observation_timeout_seconds of every plan
    MaxPolls,              \* maximum_observation_polls of every plan
    AsyncAllowed,          \* async_requirement is not synchronous_only
    SupportsCancellation,  \* the provider adapter offers cancel
    MaxTime, MaxCrashes,   \* bounds on the clock and on crashes
    None                   \* no row, no call

Statuses ==
    {"PLANNED", "AWAITING_APPROVAL", "AUTHORIZED", "EXECUTING",
     "EXECUTED_ACCEPTED", "OBSERVING", "EXECUTED_VERIFIED",
     "EXECUTED_UNCERTAIN", "TIMED_OUT", "FAILED_CONFIRMED",
     "MANUAL_REVIEW_REQUIRED", "COMPENSATION_REQUIRED", "COMPLETED"}

BeforeExecution == {"PLANNED", "AWAITING_APPROVAL", "AUTHORIZED"}

\* Terminal reasons, the uncertain ones under one name.
Reasons ==
    {"NONE", "PLAN_WINDOW_EXPIRED", "TOCTOU_PRECONDITION_CHANGED",
     "PROVIDER_FAILED_CONFIRMED", "TRANSPORT_FAILURE_BEFORE_COMMIT",
     "PROVIDER_CANCELLATION_CONFIRMED", "OBSERVATION_LIMIT_REACHED",
     "OUTCOME_UNCERTAIN"}

\* What a provider request returns: a result kind, where "UNCERTAIN" also stands
\* for an exception that leaves a commit possible, or "NOT_SENT" for a transport
\* error that rules it out.
Answers ==
    {"VERIFIED", "ACCEPTED", "FAILED_CONFIRMED", "UNCERTAIN", "PENDING",
     "NOT_SENT"}

\* What the provider did with the effect of a plan: nothing yet, a job still
\* running, the effect, or a final refusal.
Worlds == {"untouched", "queued", "applied", "void"}

Points ==
    {"idle", "insert", "submit", "approve", "burn", "reload", "interrupted",
     "resubmit", "promote", "window", "drifted", "dispatch", "calling",
     "answered", "finish", "attach", "poll", "polled", "cancelling",
     "cancelled"}

Rows ==
    [plan : Plans, status : Statuses, reason : Reasons,
     polls : Nat, deadline : Nat]

Calls ==
    [op : Operations, plan : Plans, asOf : Nat,
     approvals : SUBSET Approvals, authorized : BOOLEAN,
     seen : Rows \cup {None}, answer : Answers]

ASSUME ParameterAssumption ==
    /\ ApprovedPlan \in [Approvals -> Plans]
    /\ GrantUntil \in [Approvals -> Nat]
    /\ RequiredCount \in [Plans -> {1, 2}]
    /\ {NotBefore, Expires, ObservationTimeout, MaxTime, MaxCrashes} \subseteq Nat
    /\ MaxPolls \in Nat \ {0}
    /\ {AsyncAllowed, SupportsCancellation} \subseteq BOOLEAN

ASSUME NoneAssumption ==
    /\ None \notin Plans
    /\ None \notin Rows
    /\ None \notin Calls

VARIABLES
    store,     \* operation_lifecycle: the row of every operation
    consumed,  \* consumed_operator_approvals: the plan a grant was burned for
    pc, call,  \* where each runner is, and the call it holds in memory
    world,     \* the provider's side of every plan
    started,   \* provider.execute requests made for every plan
    requests,  \* provider.observe requests made for every operation
    now, crashes

vars == <<store, consumed, pc, call, world, started, requests, now, crashes>>

Init ==
    /\ store = [o \in Operations |-> None]
    /\ consumed = [a \in Approvals |-> None]
    /\ pc = [r \in Runners |-> "idle"]
    /\ call = [r \in Runners |-> None]
    /\ world = [p \in Plans |-> "untouched"]
    /\ started = [p \in Plans |-> 0]
    /\ requests = [o \in Operations |-> 0]
    /\ now = 0
    /\ crashes = 0

-----------------------------------------------------------------------------
(***************************************************************************)
(* Transitions of a row.                                                   *)
(***************************************************************************)

\* _ALLOWED_TRANSITIONS.
Allowed ==
    [s \in Statuses |->
       CASE s = "PLANNED" -> {"AWAITING_APPROVAL"}
         [] s = "AWAITING_APPROVAL" -> {"AUTHORIZED"}
         [] s = "AUTHORIZED" -> {"EXECUTING", "FAILED_CONFIRMED"}
         [] s = "EXECUTING" ->
              {"EXECUTED_ACCEPTED", "EXECUTED_UNCERTAIN",
               "EXECUTED_VERIFIED", "FAILED_CONFIRMED"}
         [] s = "EXECUTED_ACCEPTED" -> {"OBSERVING"}
         [] s = "OBSERVING" ->
              {"OBSERVING", "EXECUTED_UNCERTAIN", "EXECUTED_VERIFIED",
               "FAILED_CONFIRMED", "TIMED_OUT"}
         [] s \in {"EXECUTED_VERIFIED", "FAILED_CONFIRMED"} -> {"COMPLETED"}
         [] s \in {"EXECUTED_UNCERTAIN", "TIMED_OUT"} ->
              {"MANUAL_REVIEW_REQUIRED"}
         [] s = "MANUAL_REVIEW_REQUIRED" -> {"COMPENSATION_REQUIRED"}
         [] OTHER -> {}]

\* A runner goes on with its call, or returns (or raises) and forgets it.
Continue(r, point, c) ==
    /\ pc' = [pc EXCEPT ![r] = point]
    /\ call' = [call EXCEPT ![r] = IF point = "idle" THEN None ELSE c]

Return(r) == Continue(r, "idle", None)

\* Mutant of Current: the UPDATE without "AND status = ?".
CurrentWhateverStatus(r) ==
    LET row == store[call[r].op] IN
    row # None /\ row.plan = call[r].seen.plan

\* The UPDATE of transition() finds its row: the stored status and plan are
\* still those of the record the runner read.  Nothing else is compared.
Current(r) ==
    LET row == store[call[r].op] IN
    /\ row # None
    /\ row.status = call[r].seen.status
    /\ row.plan = call[r].seen.plan

\* The copy of a record that transition() writes.
Updated(row, status, reason, poll) ==
    [plan |-> row.plan, status |-> status, reason |-> reason,
     polls |-> row.polls + poll, deadline |-> row.deadline]

\* transition(): the whole record is written back from the copy in memory, or
\* SecurityError is raised and the call ends.
Transition(r, status, reason, poll, point) ==
    LET c == call[r]
        row == Updated(c.seen, status, reason, poll)
    IN \/ /\ status \in Allowed[c.seen.status]
          /\ Current(r)
          /\ store' = [store EXCEPT ![c.op] = row]
          /\ Continue(r, point, [c EXCEPT !.seen = row])
       \/ /\ ~(status \in Allowed[c.seen.status] /\ Current(r))
          /\ Return(r)
          /\ UNCHANGED store

ledgers == <<consumed, world, started, requests, now, crashes>>
external == <<world, started, requests, now, crashes>>

InWindow(t) == NotBefore <= t /\ t < Expires

-----------------------------------------------------------------------------
(***************************************************************************)
(* execute_effectful: durable row, submission, approval burn.              *)
(***************************************************************************)

AfterEnsure(row, grants) ==
    IF row.status = "PLANNED" THEN "submit"
    ELSE IF row.status = "AWAITING_APPROVAL" /\ grants # {} THEN "approve"
    ELSE "reload"

NewCall(o, p, grants) ==
    [op |-> o, plan |-> p, asOf |-> now, approvals |-> grants,
     authorized |-> FALSE, seen |-> store[o], answer |-> "PENDING"]

\* ensure(), the read: a row of another plan is refused.
StartExecute(r, o, p, grants) ==
    /\ pc[r] = "idle"
    /\ store[o] # None => store[o].plan = p
    /\ Continue(r, IF store[o] = None THEN "insert"
                   ELSE AfterEnsure(store[o], grants),
                NewCall(o, p, grants))
    /\ UNCHANGED <<store, ledgers>>

EarlierOf(a, b) == IF a < b THEN a ELSE b

\* Mutant of PlanIsFree: the column without UNIQUE.
PlanIsFreeWithoutUnique(p) == p \in Plans

\* plan_digest TEXT NOT NULL UNIQUE.
PlanIsFree(p) == \A o \in Operations : store[o] # None => store[o].plan # p

\* ensure(), the INSERT: primary key and unique plan digest decide.
Insert(r) ==
    LET c == call[r]
        row == [plan |-> c.plan, status |-> "PLANNED", reason |-> "NONE",
                polls |-> 0,
                deadline |-> EarlierOf(Expires, c.asOf + ObservationTimeout)]
    IN /\ pc[r] = "insert"
       /\ \/ /\ store[c.op] = None /\ PlanIsFree(c.plan)
             /\ store' = [store EXCEPT ![c.op] = row]
             /\ Continue(r, "submit", [c EXCEPT !.seen = row])
          \/ /\ ~(store[c.op] = None /\ PlanIsFree(c.plan))
             /\ Return(r)
             /\ UNCHANGED store
       /\ UNCHANGED ledgers

Submit(r) ==
    /\ pc[r] = "submit"
    /\ Transition(r, "AWAITING_APPROVAL", "NONE", 0,
                  IF call[r].approvals # {} THEN "approve" ELSE "reload")
    /\ UNCHANGED ledgers

\* consumed_exact(): all grants burned for this plan, none burned, or refused.
CheckBurned(r) ==
    LET c == call[r] IN
    /\ pc[r] = "approve"
    /\ \/ /\ \A a \in c.approvals : consumed[a] = None
          /\ Continue(r, "burn", c)
       \/ /\ \A a \in c.approvals : consumed[a] = c.plan
          /\ Continue(r, "reload", [c EXCEPT !.authorized = TRUE])
       \/ /\ \E a \in c.approvals : consumed[a] # None
          /\ \E a \in c.approvals : consumed[a] # c.plan
          /\ Return(r)
    /\ UNCHANGED <<store, ledgers>>

\* ApprovalSetValidator.validate() for execution.
ValidApprovals(p, grants, t) ==
    /\ Cardinality(grants) = RequiredCount[p]
    /\ InWindow(t)
    /\ \A a \in grants :
          ApprovedPlan[a] = p /\ t < GrantUntil[a] /\ GrantUntil[a] <= Expires
    /\ \A a, b \in grants : a # b => SignedBy[a] # SignedBy[b]

\* validate() and consume(): one transaction burns every grant or none.
Burn(r) ==
    LET c == call[r]
        granted == /\ ValidApprovals(c.plan, c.approvals, c.asOf)
                   /\ \A a \in c.approvals : consumed[a] = None
    IN /\ pc[r] = "burn"
       /\ \/ /\ granted
             /\ consumed' = [a \in Approvals |->
                               IF a \in c.approvals THEN c.plan
                               ELSE consumed[a]]
             /\ Continue(r, "reload", [c EXCEPT !.authorized = TRUE])
          \/ /\ ~granted
             /\ Return(r)
             /\ UNCHANGED consumed
       /\ UNCHANGED <<store, external>>

-----------------------------------------------------------------------------
(***************************************************************************)
(* DurableOperatorLifecycle.execute.                                       *)
(***************************************************************************)

\* Mutants of AfterReload: a submitted row is promoted without approvals, or an
\* interrupted one is left as it is.
AfterReloadUnapproved(row, authorized) ==
    CASE row.status = "EXECUTING" -> "interrupted"
      [] row.status = "PLANNED" -> "resubmit"
      [] row.status = "AWAITING_APPROVAL" -> "promote"
      [] row.status = "AUTHORIZED" -> "window"
      [] OTHER -> "idle"

AfterReloadForgetful(row, authorized) ==
    CASE row.status = "PLANNED" -> "resubmit"
      [] row.status = "AWAITING_APPROVAL" /\ authorized -> "promote"
      [] row.status = "AUTHORIZED" -> "window"
      [] OTHER -> "idle"

\* The branch execute() takes on the status it finds.
AfterReload(row, authorized) ==
    CASE row.status = "EXECUTING" -> "interrupted"
      [] row.status = "PLANNED" -> "resubmit"
      [] row.status = "AWAITING_APPROVAL" /\ authorized -> "promote"
      [] row.status = "AUTHORIZED" -> "window"
      [] OTHER -> "idle"

\* execute() reads the row again after the approvals.
Reload(r) ==
    LET c == call[r] IN
    /\ pc[r] = "reload"
    /\ Continue(r, AfterReload(store[c.op], c.authorized),
                [c EXCEPT !.seen = store[c.op]])
    /\ UNCHANGED <<store, ledgers>>

\* execute() called without approvals, to resume an operation that has a row.
StartResume(r, o) ==
    /\ pc[r] = "idle"
    /\ store[o] # None
    /\ Continue(r, AfterReload(store[o], FALSE),
                NewCall(o, store[o].plan, {}))
    /\ UNCHANGED <<store, ledgers>>

\* A row found EXECUTING may have taken effect: it is never sent again.
MarkInterrupted(r) ==
    /\ pc[r] = "interrupted"
    /\ Transition(r, "EXECUTED_UNCERTAIN", "OUTCOME_UNCERTAIN", 0, "finish")
    /\ UNCHANGED ledgers

Resubmit(r) ==
    /\ pc[r] = "resubmit"
    /\ Transition(r, "AWAITING_APPROVAL", "NONE", 0,
                  IF call[r].authorized THEN "promote" ELSE "idle")
    /\ UNCHANGED ledgers

Promote(r) ==
    /\ pc[r] = "promote"
    /\ Transition(r, "AUTHORIZED", "NONE", 0, "window")
    /\ UNCHANGED ledgers

CloseExpired(r) ==
    /\ pc[r] = "window"
    /\ ~InWindow(call[r].asOf)
    /\ Transition(r, "FAILED_CONFIRMED", "PLAN_WINDOW_EXPIRED", 0, "finish")
    /\ UNCHANGED ledgers

\* await provider.preflight(): unchanged, changed, or an exception.
Preflight(r) ==
    /\ pc[r] = "window"
    /\ InWindow(call[r].asOf)
    /\ \E point \in {"dispatch", "drifted", "idle"} :
          Continue(r, point, call[r])
    /\ UNCHANGED <<store, ledgers>>

CloseDrifted(r) ==
    /\ pc[r] = "drifted"
    /\ Transition(r, "FAILED_CONFIRMED", "TOCTOU_PRECONDITION_CHANGED", 0,
                  "finish")
    /\ UNCHANGED ledgers

Dispatch(r) ==
    /\ pc[r] = "dispatch"
    /\ Transition(r, "EXECUTING", "NONE", 0, "calling")
    /\ UNCHANGED ledgers

\* What the adapter may answer once the provider has put the effect in w.
\* A confirmed failure, or NOT_SENT, means the effect will never happen.
ExecutionAnswers(w) ==
    {"UNCERTAIN"} \cup
    CASE w = "applied" -> {"VERIFIED"}
      [] w = "queued" -> {"ACCEPTED"}
      [] w = "void" -> {"FAILED_CONFIRMED", "NOT_SENT"}

\* await provider.execute(): the effect is decided and the answer composed.
CallProvider(r) ==
    LET c == call[r] IN
    /\ pc[r] = "calling"
    /\ started' = [started EXCEPT ![c.plan] = @ + 1]
    /\ \E w \in Worlds \ {"untouched"} :
          /\ world' = [world EXCEPT ![c.plan] = w]
          /\ \E a \in ExecutionAnswers(w) :
                Continue(r, "answered", [c EXCEPT !.answer = a])
    /\ UNCHANGED <<store, consumed, requests, now, crashes>>

\* Mutant of Outcome: an ambiguous answer is taken for a failure.
OutcomeOptimistic(answer) ==
    CASE answer = "VERIFIED" -> <<"EXECUTED_VERIFIED", "NONE">>
      [] answer = "ACCEPTED" -> <<"EXECUTED_ACCEPTED", "NONE">>
      [] OTHER -> <<"FAILED_CONFIRMED", "PROVIDER_FAILED_CONFIRMED">>

\* The status and the terminal reason of a provider's answer.
Outcome(answer) ==
    CASE answer = "VERIFIED" -> <<"EXECUTED_VERIFIED", "NONE">>
      [] answer = "ACCEPTED" ->
           IF AsyncAllowed THEN <<"EXECUTED_ACCEPTED", "NONE">>
           ELSE <<"EXECUTED_UNCERTAIN", "OUTCOME_UNCERTAIN">>
      [] answer = "FAILED_CONFIRMED" ->
           <<"FAILED_CONFIRMED", "PROVIDER_FAILED_CONFIRMED">>
      [] answer = "NOT_SENT" ->
           <<"FAILED_CONFIRMED", "TRANSPORT_FAILURE_BEFORE_COMMIT">>
      [] OTHER -> <<"EXECUTED_UNCERTAIN", "OUTCOME_UNCERTAIN">>

RecordOutcome(r) ==
    LET outcome == Outcome(call[r].answer) IN
    /\ pc[r] = "answered"
    /\ Transition(r, outcome[1], outcome[2], 0,
                  IF outcome[1] = "EXECUTED_ACCEPTED" THEN "idle" ELSE "finish")
    /\ UNCHANGED ledgers

\* The second transition of every conclusion, in a transaction of its own.
Terminal(status) ==
    IF status \in {"EXECUTED_UNCERTAIN", "TIMED_OUT"}
    THEN "MANUAL_REVIEW_REQUIRED"
    ELSE "COMPLETED"

Finish(r) ==
    /\ pc[r] = "finish"
    /\ Transition(r, Terminal(call[r].seen.status), call[r].seen.reason, 0,
                  "idle")
    /\ UNCHANGED ledgers

-----------------------------------------------------------------------------
(***************************************************************************)
(* DurableOperatorLifecycle.observe.                                       *)
(***************************************************************************)

\* observe() returns at once unless the operation is accepted or observed.
StartObserve(r, o) ==
    /\ pc[r] = "idle"
    /\ store[o] # None
    /\ store[o].status \in {"EXECUTED_ACCEPTED", "OBSERVING"}
    /\ Continue(r, IF store[o].status = "OBSERVING" THEN "poll" ELSE "attach",
                NewCall(o, store[o].plan, {}))
    /\ UNCHANGED <<store, ledgers>>

Attach(r) ==
    /\ pc[r] = "attach"
    /\ Transition(r, "OBSERVING", "NONE", 0, "poll")
    /\ UNCHANGED ledgers

LimitReached(c) == c.asOf >= c.seen.deadline \/ c.seen.polls >= MaxPolls

TimeOut(r) ==
    /\ pc[r] = "poll"
    /\ LimitReached(call[r])
    /\ Transition(r, "TIMED_OUT", "OBSERVATION_LIMIT_REACHED", 0, "finish")
    /\ UNCHANGED ledgers

\* A provider may report a finished job late, or not be able to tell.
ObservationAnswers(w) ==
    {"UNCERTAIN", "PENDING"} \cup
    CASE w = "applied" -> {"VERIFIED"}
      [] w = "void" -> {"FAILED_CONFIRMED"}
      [] OTHER -> {}

\* await provider.observe().
Poll(r) ==
    LET c == call[r] IN
    /\ pc[r] = "poll"
    /\ ~LimitReached(c)
    /\ requests' = [requests EXCEPT ![c.op] = @ + 1]
    /\ \E a \in ObservationAnswers(world[c.plan]) :
          Continue(r, "polled", [c EXCEPT !.answer = a])
    /\ UNCHANGED <<store, consumed, world, started, now, crashes>>

\* Mutant of RecordPending: a pending answer is not counted as a poll.
RecordPendingUncounted(r) ==
    /\ pc[r] = "polled"
    /\ call[r].answer = "PENDING"
    /\ Transition(r, "OBSERVING", "NONE", 0, "idle")
    /\ UNCHANGED ledgers

\* A pending job goes back to OBSERVING with one more poll on the runner's copy.
RecordPending(r) ==
    /\ pc[r] = "polled"
    /\ call[r].answer = "PENDING"
    /\ Transition(r, "OBSERVING", "NONE", 1, "idle")
    /\ UNCHANGED ledgers

RecordObservation(r) ==
    LET outcome == Outcome(call[r].answer) IN
    /\ pc[r] = "polled"
    /\ call[r].answer # "PENDING"
    /\ Transition(r, outcome[1], outcome[2], 1, "finish")
    /\ UNCHANGED ledgers

-----------------------------------------------------------------------------
(***************************************************************************)
(* DurableOperatorLifecycle.cancel.                                        *)
(***************************************************************************)

StartCancel(r, o) ==
    /\ SupportsCancellation
    /\ pc[r] = "idle"
    /\ store[o] # None
    /\ store[o].status \in {"EXECUTED_ACCEPTED", "OBSERVING"}
    /\ Continue(r, "cancelling", NewCall(o, store[o].plan, {}))
    /\ UNCHANGED <<store, ledgers>>

\* Mutant of CallCancel: any answer of the provider counts as a confirmation.
CallCancelUnconfirmed(r) ==
    /\ pc[r] = "cancelling"
    /\ Continue(r, "cancelled", call[r])
    /\ UNCHANGED <<store, ledgers>>

\* await provider.cancel(): only a confirmed non-effect goes on; any other
\* answer raises and leaves the row as it is.
CallCancel(r) ==
    LET c == call[r] IN
    /\ pc[r] = "cancelling"
    /\ \/ /\ world[c.plan] \in {"queued", "void"}
          /\ world' = [world EXCEPT ![c.plan] = "void"]
          /\ Continue(r, "cancelled", c)
       \/ /\ Return(r)
          /\ UNCHANGED world
    /\ UNCHANGED <<store, consumed, started, requests, now, crashes>>

RecordCancelled(r) ==
    /\ pc[r] = "cancelled"
    /\ IF call[r].seen.status = "EXECUTED_ACCEPTED"
       THEN Transition(r, "OBSERVING", "NONE", 0, "cancelled")
       ELSE Transition(r, "FAILED_CONFIRMED", "PROVIDER_CANCELLATION_CONFIRMED",
                       0, "finish")
    /\ UNCHANGED ledgers

-----------------------------------------------------------------------------
(***************************************************************************)
(* The environment, and the specification.                                 *)
(***************************************************************************)

\* An accepted job ends on the provider's side, with or without the effect.
JobEnds(p) ==
    /\ world[p] = "queued"
    /\ \E w \in {"applied", "void"} : world' = [world EXCEPT ![p] = w]
    /\ UNCHANGED <<store, consumed, pc, call, started, requests, now, crashes>>

\* The process dies, or the task is cancelled, between two steps of a call.
Crash(r) ==
    /\ pc[r] # "idle"
    /\ crashes < MaxCrashes
    /\ crashes' = crashes + 1
    /\ Return(r)
    /\ UNCHANGED <<store, consumed, world, started, requests, now>>

Tick ==
    /\ now < MaxTime
    /\ now' = now + 1
    /\ UNCHANGED <<store, consumed, pc, call, world, started, requests, crashes>>

\* The steps a runner takes on its own once it is inside a call.
Step(r) ==
    \/ Insert(r) \/ Submit(r) \/ CheckBurned(r) \/ Burn(r) \/ Reload(r)
    \/ MarkInterrupted(r) \/ Resubmit(r) \/ Promote(r) \/ CloseExpired(r)
    \/ Preflight(r) \/ CloseDrifted(r) \/ Dispatch(r) \/ CallProvider(r)
    \/ RecordOutcome(r) \/ Finish(r)
    \/ Attach(r) \/ TimeOut(r) \/ Poll(r) \/ RecordPending(r)
    \/ RecordObservation(r) \/ CallCancel(r) \/ RecordCancelled(r)

Start(r) ==
    \/ \E o \in Operations, p \in Plans, grants \in SUBSET Approvals :
          StartExecute(r, o, p, grants)
    \/ \E o \in Operations :
          StartResume(r, o) \/ StartObserve(r, o) \/ StartCancel(r, o)

Next ==
    \/ \E r \in Runners : Start(r) \/ Step(r) \/ Crash(r)
    \/ \E p \in Plans : JobEnds(p)
    \/ Tick

Spec == Init /\ [][Next]_vars

\* A call runs to its end (provider requests time out), and the operator acts
\* on the public progress record: it resumes what is EXECUTING and observes
\* what was accepted, again and again.
Fairness ==
    /\ \A r \in Runners : WF_vars(Step(r))
    /\ \A r \in Runners, o \in Operations :
          /\ SF_vars(StartResume(r, o))
          /\ SF_vars(StartObserve(r, o))

FairSpec == Spec /\ Fairness

-----------------------------------------------------------------------------
(***************************************************************************)
(* Properties.                                                             *)
(***************************************************************************)

RowsOf(p) == {o \in Operations : store[o] # None /\ store[o].plan = p}

\* public(): what the caller is told about trying again.
SafeToRetry(row) ==
    \/ row.status = "FAILED_CONFIRMED"
    \/ /\ row.status = "COMPLETED"
       /\ row.reason \in {"PROVIDER_FAILED_CONFIRMED",
                          "TRANSPORT_FAILURE_BEFORE_COMMIT"}

Verified(row) ==
    \/ row.status = "EXECUTED_VERIFIED"
    \/ row.status = "COMPLETED" /\ row.reason = "NONE"

\* The ledgers, the clock and every call in flight have their types.
TypeOK ==
    /\ store \in [Operations -> Rows \cup {None}]
    /\ consumed \in [Approvals -> Plans \cup {None}]
    /\ pc \in [Runners -> Points]
    /\ call \in [Runners -> Calls \cup {None}]
    /\ \A r \in Runners : call[r] = None <=> pc[r] = "idle"
    /\ world \in [Plans -> Worlds]
    /\ started \in [Plans -> Nat]
    /\ requests \in [Operations -> Nat]
    /\ now \in 0..MaxTime
    /\ crashes \in 0..MaxCrashes

\* One plan reaches the provider at most once, whatever the number of processes
\* that resume it, of operation ids it is filed under, and of crashes.
AtMostOneEffect == \A p \in Plans : started[p] <= 1

\* An operation reported safe to retry had no effect and can have none later:
\* no request is on its way and no accepted job is still running.
SafeToRetryMeansNoEffect ==
    \A o \in Operations :
        store[o] # None /\ SafeToRetry(store[o]) =>
            /\ world[store[o].plan] \in {"untouched", "void"}
            /\ ~ \E r \in Runners :
                   pc[r] = "calling" /\ call[r].plan = store[o].plan

\* The grants a ledger records as burned for a plan are as many as its mode asks
\* for, of distinct authorities, and sign that plan.
Approved(ledger, p) ==
    \E grants \in SUBSET Approvals :
        /\ Cardinality(grants) = RequiredCount[p]
        /\ \A a \in grants : ledger[a] = p /\ ApprovedPlan[a] = p
        /\ \A a, b \in grants : a # b => SignedBy[a] # SignedBy[b]

\* No effect without approval: whatever row, process or restart a plan was sent
\* from, its grants were burned for it, all of them.
EffectWasApproved == \A p \in Plans : started[p] > 0 => Approved(consumed, p)

\* The effect is on record before it can happen: once a plan was sent, a
\* restarted process finds its row at EXECUTING or later.
EffectIsOnRecord ==
    \A p \in Plans :
        started[p] > 0 =>
            \E o \in RowsOf(p) : store[o].status \notin BeforeExecution

\* With a single observer only a crash loses a poll: every lost request beyond
\* the signed limit is paid for by one.
PollsLostOnlyToCrashes ==
    \A o \in Operations : requests[o] <= MaxPolls + crashes

\* With one process, however often it crashes, an operation that was sent does
\* not stay open: it is found interrupted, or observed until a verdict or until
\* its polls or its deadline run out.
Unconcluded == {"EXECUTING", "EXECUTED_ACCEPTED", "OBSERVING"}

SentConcludes ==
    \A o \in Operations :
        (store[o] # None /\ store[o].status \in Unconcluded)
            ~> (store[o] # None /\ store[o].status \notin Unconcluded)

\* A verified operation gets its receipt finalized, as the public progress
\* record announces ("runtime.finalize_receipt").
VerifiedIsFinalized ==
    \A o \in Operations :
        (store[o] # None /\ store[o].status = "EXECUTED_VERIFIED")
            ~> (store[o] # None /\ store[o].status = "COMPLETED")

-----------------------------------------------------------------------------
(***************************************************************************)
(* Refinement of EffectPromise.                                            *)
(***************************************************************************)

VerdictOf(row) ==
    CASE row.status \in BeforeExecution -> "open"
      [] row.status \in Unconcluded -> "sent"
      [] Verified(row) -> "done"
      [] row.status \in {"FAILED_CONFIRMED", "COMPLETED"} /\ ~Verified(row) -> "failed"
      [] OTHER -> "review"

VerdictBar ==
    [p \in Plans |->
        IF RowsOf(p) = {} THEN "open"
        ELSE VerdictOf(store[CHOOSE o \in RowsOf(p) : TRUE])]

Promise == INSTANCE EffectPromise WITH verdict <- VerdictBar, effect <- world

\* The durable lifecycle keeps the promise: the verdict a row stands for and the
\* provider's side of its plan only change together the way EffectPromise allows.
KeepsPromise == Promise!Spec

=============================================================================
