---------------------------- MODULE WriteLedger ----------------------------
(***************************************************************************)
(* Every write tool: ToolRunner.call, IdempotencyStore and the write loop  *)
(* of the Graph client, for tasks of several server processes that share   *)
(* one SQLite ledger.                                                      *)
(*                                                                         *)
(* A task serves one tool call.  Ledger transactions and awaited requests  *)
(* are separate steps.  The write counters of a process are shared by all  *)
(* its tasks; a task only ever asks whether a counter moved since its call *)
(* began, so each call keeps the set of counters that did.  Ages of rows   *)
(* are one bit: older than pending_seconds or not.  A call refused by the  *)
(* audit log or the rate limiter never reaches the ledger and is left out. *)
(***************************************************************************)
EXTENDS Naturals, FiniteSets

CONSTANTS
    Tasks,        \* tool calls in progress, over all processes
    ProcessOf,    \* [Tasks -> server processes]
    Keys,         \* (tool, idempotency_key) pairs
    Payloads,     \* request payloads, named by their hash
    MaxRetries,   \* graph_max_retries
    MaxLosses,    \* bound on crashes and cancellations
    None

Processes == {ProcessOf[t] : t \in Tasks}

Statuses == {"pending", "completed", "rejected", "uncertain"}

Counters == {"attempted", "confirmed", "ambiguous"}

\* What the operation raised: a local check (authentication, policy, value), a
\* failed post-read comparison, a GraphError with a 4xx status, one with any other
\* or no status, one marked write_may_have_committed, anything else.
Errors ==
    {"none", "local", "unverified", "client", "server", "ambiguous", "other"}

Points ==
    {"idle", "claiming", "checking", "writing", "waiting", "verifying",
     "failed", "done", "explaining"}

Rows == [payload : Payloads, status : Statuses, aged : BOOLEAN]

Calls ==
    [key : Keys, payload : Payloads, counted : SUBSET Counters, error : Errors,
     attempt : 0..MaxRetries, refreshed : BOOLEAN, landed : BOOLEAN]

Replies ==
    [safe : BOOLEAN, receipt : Statuses \cup {None}, landed : BOOLEAN]

ASSUME LedgerAssumption ==
    /\ MaxRetries \in Nat
    /\ MaxLosses \in Nat
    /\ None \notin Rows \cup Calls \cup Replies \cup Statuses

VARIABLES
    rows,      \* operations: the ledger row of every key
    pc, call,  \* where each task is, and its call
    reply,     \* the last envelope each task returned
    applied,   \* how often the write of a key took effect in the tenant
    losses

vars == <<rows, pc, call, reply, applied, losses>>

Init ==
    /\ rows = [k \in Keys |-> None]
    /\ pc = [t \in Tasks |-> "idle"]
    /\ call = [t \in Tasks |-> None]
    /\ reply = [t \in Tasks |-> None]
    /\ applied = [k \in Keys |-> 0]
    /\ losses = 0

-----------------------------------------------------------------------------
(***************************************************************************)
(* ToolRunner.call and the reservation.                                    *)
(***************************************************************************)

At(t, point) == pc[t] = point

Goto(t, point) == pc' = [pc EXCEPT ![t] = point]

Update(t, c) == call' = [call EXCEPT ![t] = c]

\* The operation raises: IdempotencyStore.execute classifies it next.
Raise(t, error) ==
    /\ Goto(t, "failed")
    /\ Update(t, [call[t] EXCEPT !.error = error])

\* The call ends with an envelope.
Answer(t, safe, receipt) ==
    /\ Goto(t, "idle")
    /\ Update(t, None)
    /\ reply' = [reply EXCEPT
                   ![t] = [safe |-> safe, receipt |-> receipt,
                           landed |-> call[t].landed]]

Start(t, k, p) ==
    /\ At(t, "idle")
    /\ Goto(t, "claiming")
    /\ Update(t, [key |-> k, payload |-> p, counted |-> {}, error |-> "none",
                  attempt |-> 0, refreshed |-> FALSE, landed |-> FALSE])
    /\ reply' = [reply EXCEPT ![t] = None]
    /\ UNCHANGED <<rows, applied, losses>>

SetStatus(k, status) == rows' = [rows EXCEPT ![k].status = status]

\* Mutant of Reserve: an orphaned reservation is taken over.
ReserveOrphan(t) ==
    LET c == call[t] IN
    /\ At(t, "claiming")
    /\ \/ rows[c.key] = None
       \/ /\ rows[c.key] # None
          /\ rows[c.key].payload = c.payload
          /\ rows[c.key].status = "rejected" \/ rows[c.key].aged
    /\ rows' = [rows EXCEPT ![c.key] =
                  [payload |-> c.payload, status |-> "pending", aged |-> FALSE]]
    /\ Goto(t, "checking")
    /\ UNCHANGED <<call, reply, applied, losses>>

\* A free or rejected key is reserved before Graph is called.
Reserve(t) ==
    LET c == call[t] IN
    /\ At(t, "claiming")
    /\ \/ rows[c.key] = None
       \/ /\ rows[c.key] # None
          /\ rows[c.key].payload = c.payload
          /\ rows[c.key].status = "rejected"
    /\ rows' = [rows EXCEPT ![c.key] =
                  [payload |-> c.payload, status |-> "pending", aged |-> FALSE]]
    /\ Goto(t, "checking")
    /\ UNCHANGED <<call, reply, applied, losses>>

\* A key of another payload is a SecurityError.
RefusePayload(t) ==
    LET c == call[t] IN
    /\ At(t, "claiming")
    /\ rows[c.key] # None
    /\ rows[c.key].payload # c.payload
    /\ Goto(t, "explaining")
    /\ Update(t, [c EXCEPT !.error = "other"])
    /\ UNCHANGED <<rows, reply, applied, losses>>

\* Mutant of Replay: reservations do not age.
ReplayWithoutAging(t) ==
    LET c == call[t]
        row == rows[c.key]
    IN /\ At(t, "claiming")
       /\ row # None
       /\ row.payload = c.payload
       /\ row.status # "rejected"
       /\ Answer(t, FALSE, row.status)
       /\ UNCHANGED <<rows, applied, losses>>

\* A completed key is answered from the ledger; a pending or uncertain one is
\* refused, and a reservation older than pending_seconds becomes uncertain.
Replay(t) ==
    LET c == call[t]
        row == rows[c.key]
        orphan == row.status = "pending" /\ row.aged
    IN /\ At(t, "claiming")
       /\ row # None
       /\ row.payload = c.payload
       /\ row.status # "rejected"
       /\ IF orphan THEN SetStatus(c.key, "uncertain") ELSE UNCHANGED rows
       /\ Answer(t, FALSE, IF orphan THEN "uncertain" ELSE row.status)
       /\ UNCHANGED <<applied, losses>>

-----------------------------------------------------------------------------
(***************************************************************************)
(* The operation: local checks and reads, one Graph write, a read back.    *)
(***************************************************************************)

\* The counters move for every call in progress in the process of t.
Count(p, counters, calls) ==
    [u \in Tasks |->
        IF ProcessOf[u] = p /\ calls[u] # None
        THEN [calls[u] EXCEPT !.counted = @ \cup counters]
        ELSE calls[u]]

Check(t) ==
    /\ At(t, "checking")
    /\ \/ Goto(t, "writing") /\ UNCHANGED call
       \/ \E error \in {"local", "client", "server", "other"} : Raise(t, error)
    /\ UNCHANGED <<rows, reply, applied, losses>>

\* The request leaves, and Microsoft Graph applies it or not.
Send(t) ==
    LET c == call[t] IN
    /\ At(t, "writing")
    /\ Goto(t, "waiting")
    /\ \E landed \in BOOLEAN :
          /\ call' = Count(ProcessOf[t], {"attempted"},
                           [call EXCEPT ![t].landed = landed])
          /\ applied' = [applied EXCEPT ![c.key] = @ + IF landed THEN 1 ELSE 0]
    /\ UNCHANGED <<rows, reply, losses>>

Failing(t, error) == [call EXCEPT ![t].error = error]

\* A 2xx answer is counted before its body is read.
Accepted(t) ==
    /\ At(t, "waiting")
    /\ call[t].landed
    /\ \/ /\ Goto(t, "verifying")
          /\ call' = Count(ProcessOf[t], {"confirmed"}, call)
       \/ /\ Goto(t, "failed")
          /\ call' = Count(ProcessOf[t], {"confirmed", "ambiguous"},
                           Failing(t, "ambiguous"))
    /\ UNCHANGED <<rows, reply, applied, losses>>

\* No answer, an unexpected redirect, or 502, 503, 504.
Lost(t) ==
    /\ At(t, "waiting")
    /\ Goto(t, "failed")
    /\ call' = Count(ProcessOf[t], {"ambiguous"}, Failing(t, "ambiguous"))
    /\ UNCHANGED <<rows, reply, applied, losses>>

\* Any other 5xx is raised without write_may_have_committed.
ServerError(t) ==
    /\ At(t, "waiting")
    /\ Raise(t, "server")
    /\ UNCHANGED <<rows, reply, applied, losses>>

\* The request is sent again while the retry budget lasts.
Resend(t, c) ==
    /\ c.attempt < MaxRetries
    /\ Goto(t, "writing")
    /\ Update(t, [c EXCEPT !.attempt = @ + 1])

Throttled(t) ==
    /\ At(t, "waiting")
    /\ ~call[t].landed
    /\ \/ Resend(t, call[t])
       \/ call[t].attempt = MaxRetries /\ Raise(t, "client")
    /\ UNCHANGED <<rows, reply, applied, losses>>

\* A first 401 refreshes the token and spends one attempt of the budget.
Unauthorized(t) ==
    LET c == call[t] IN
    /\ At(t, "waiting")
    /\ ~c.landed
    /\ \/ ~c.refreshed /\ Resend(t, [c EXCEPT !.refreshed = TRUE])
       \/ ~c.refreshed /\ c.attempt = MaxRetries /\ Raise(t, "server")
       \/ ~c.refreshed /\ Raise(t, "local")
       \/ c.refreshed /\ Raise(t, "client")
    /\ UNCHANGED <<rows, reply, applied, losses>>

\* Any other 4xx.
Refused(t) ==
    /\ At(t, "waiting")
    /\ ~call[t].landed
    /\ Raise(t, "client")
    /\ UNCHANGED <<rows, reply, applied, losses>>

Verify(t) ==
    /\ At(t, "verifying")
    /\ \/ Goto(t, "done") /\ UNCHANGED call
       \/ \E error \in {"unverified", "local", "client", "server", "other"} :
             Raise(t, error)
    /\ UNCHANGED <<rows, reply, applied, losses>>

-----------------------------------------------------------------------------
(***************************************************************************)
(* Classification, the closing update and the envelope.                    *)
(***************************************************************************)

\* Mutants of FailureStatus: a 5xx counts as a rejection, or the status of the
\* exception is looked at before the counters.
FailureStatusOfAnyAnswer(c) ==
    IF c.counted \cap {"confirmed", "ambiguous"} # {} \/ c.error = "ambiguous"
    THEN "uncertain"
    ELSE IF c.error \in {"client", "server"} THEN "rejected"
    ELSE IF "attempted" \in c.counted THEN "uncertain"
    ELSE "rejected"

FailureStatusClientFirst(c) ==
    IF c.error = "client" THEN "rejected"
    ELSE IF c.counted # {} \/ c.error \notin {"local", "unverified"}
    THEN "uncertain"
    ELSE "rejected"

\* _failure_status.
FailureStatus(c) ==
    IF c.counted \cap {"confirmed", "ambiguous"} # {} \/ c.error = "ambiguous"
    THEN "uncertain"
    ELSE IF c.error = "client" THEN "rejected"
    ELSE IF "attempted" \in c.counted THEN "uncertain"
    ELSE IF c.error \in {"local", "unverified"} THEN "rejected"
    ELSE "uncertain"

\* Mutant of RecordFailure: a failing UPDATE is swallowed.
RecordFailureQuietly(t) ==
    /\ At(t, "failed")
    /\ Goto(t, "explaining")
    /\ SetStatus(call[t].key, FailureStatus(call[t])) \/ UNCHANGED rows
    /\ UNCHANGED <<call, reply, applied, losses>>

\* The UPDATE may itself fail: its own exception then replaces the first one.
RecordFailure(t) ==
    LET c == call[t] IN
    /\ At(t, "failed")
    /\ Goto(t, "explaining")
    /\ \/ SetStatus(c.key, FailureStatus(c)) /\ UNCHANGED call
       \/ UNCHANGED rows /\ Update(t, [c EXCEPT !.error = "other"])
    /\ UNCHANGED <<reply, applied, losses>>

RecordSuccess(t) ==
    LET c == call[t] IN
    /\ At(t, "done")
    /\ \/ SetStatus(c.key, "completed") /\ Answer(t, FALSE, "completed")
       \/ /\ Goto(t, "explaining")
          /\ Update(t, [c EXCEPT !.error = "other"])
          /\ UNCHANGED <<rows, reply>>
    /\ UNCHANGED <<applied, losses>>

\* classify_agent_error: 409, 412, 429, 5xx and a failure without status are safe
\* to retry, and so are some governed refusals before the write.
SafeToRetry(error) ==
    IF error \in {"client", "server", "local"} THEN BOOLEAN ELSE {FALSE}

\* get_receipt and error_response; the receipt is read again and may be missing.
Explain(t) ==
    LET c == call[t] IN
    /\ At(t, "explaining")
    /\ \E receipt \in {rows[c.key].status, None}, safe \in SafeToRetry(c.error) :
          Answer(t, safe /\ receipt # "uncertain", receipt)
    /\ UNCHANGED <<rows, applied, losses>>

-----------------------------------------------------------------------------
(***************************************************************************)
(* The environment, and the specification.                                 *)
(***************************************************************************)

\* A cancelled task (CancelledError is no Exception) or a killed process: the
\* reservation stays.
Lose(tasks) ==
    /\ losses < MaxLosses
    /\ \E t \in tasks : pc[t] # "idle"
    /\ losses' = losses + 1
    /\ pc' = [t \in Tasks |-> IF t \in tasks THEN "idle" ELSE pc[t]]
    /\ call' = [t \in Tasks |-> IF t \in tasks THEN None ELSE call[t]]
    /\ UNCHANGED <<rows, reply, applied>>

\* Another request of the process moves its counters: a write under another key,
\* or a read that Graph serves over POST.
OtherRequest(p) ==
    /\ \E counters \in {{"attempted"}, {"attempted", "confirmed"},
                        {"attempted", "ambiguous"}} :
          call' = Count(p, counters, call)
    /\ call' # call
    /\ UNCHANGED <<rows, pc, reply, applied, losses>>

\* A reservation grows older than pending_seconds.
Age(k) ==
    /\ rows[k] # None
    /\ rows[k].status = "pending"
    /\ ~rows[k].aged
    /\ rows' = [rows EXCEPT ![k].aged = TRUE]
    /\ UNCHANGED <<pc, call, reply, applied, losses>>

Step(t) ==
    \/ Reserve(t) \/ RefusePayload(t) \/ Replay(t) \/ Check(t) \/ Send(t)
    \/ Accepted(t) \/ Lost(t) \/ ServerError(t) \/ Throttled(t)
    \/ Unauthorized(t) \/ Refused(t) \/ Verify(t)
    \/ RecordFailure(t) \/ RecordSuccess(t) \/ Explain(t)

Next ==
    \/ \E t \in Tasks :
          \/ \E k \in Keys, p \in Payloads : Start(t, k, p)
          \/ Step(t)
          \/ Lose({t})
    \/ \E p \in Processes :
          Lose({t \in Tasks : ProcessOf[t] = p}) \/ OtherRequest(p)
    \/ \E k \in Keys : Age(k)

Spec == Init /\ [][Next]_vars

\* A call ends (requests time out), time passes, and the caller of a key that is
\* still reserved asks again.
Retry(t, k) == rows[k] # None /\ Start(t, k, rows[k].payload)

Fairness ==
    /\ \A t \in Tasks : WF_vars(Step(t))
    /\ \A k \in Keys : WF_vars(Age(k))
    /\ \A t \in Tasks, k \in Keys : SF_vars(Retry(t, k))

FairSpec == Spec /\ Fairness

-----------------------------------------------------------------------------
(***************************************************************************)
(* Properties.                                                             *)
(***************************************************************************)

\* The ledger, the calls in progress and the envelopes have their types.
TypeOK ==
    /\ rows \in [Keys -> Rows \cup {None}]
    /\ pc \in [Tasks -> Points]
    /\ call \in [Tasks -> Calls \cup {None}]
    /\ \A t \in Tasks : call[t] = None <=> pc[t] = "idle"
    /\ reply \in [Tasks -> Replies \cup {None}]
    /\ applied \in [Keys -> Nat]
    /\ losses \in 0..MaxLosses

Operating(t) ==
    pc[t] \in {"checking", "writing", "waiting", "verifying", "failed", "done"}

\* However often a key is retried, by whatever process, and whatever is lost on
\* the way, its write takes effect at most once.
AtMostOneCommit == \A k \in Keys : applied[k] <= 1

\* Two tasks never run the operation of one key at the same time, also when the
\* reservation of a slow one aged and was declared interrupted.
OneExecution ==
    \A t, u \in Tasks :
        Operating(t) /\ Operating(u) /\ call[t].key = call[u].key => t = u

\* A rejected row, the only one that may be retried, stands for no effect, now or
\* later: none was applied and no task is still writing.
RejectedMeansNoEffect ==
    \A k \in Keys :
        rows[k] # None /\ rows[k].status = "rejected" =>
            /\ applied[k] = 0
            /\ \A t \in Tasks : Operating(t) => call[t].key # k

\* A caller who got a receipt and was told that a retry is safe was told so of a
\* write without effect, although the envelope is composed from the exception of
\* the call and from a row read after other processes could change it.
SafeReceiptMeansNoEffect ==
    \A t \in Tasks :
        reply[t] # None /\ reply[t].receipt # None /\ reply[t].safe =>
            ~reply[t].landed

\* A reservation does not stay pending: its call closes it, or it ages and the
\* next retry finds it uncertain.
PendingResolves ==
    \A k \in Keys :
        (rows[k] # None /\ rows[k].status = "pending")
            ~> (rows[k] # None /\ rows[k].status # "pending")

=============================================================================
