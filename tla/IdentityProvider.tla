-------------------------- MODULE IdentityProvider --------------------------
(***************************************************************************)
(* The provider behind one T2 identity operation: preflight() and          *)
(* execute() of IdentityOperationProvider over MicrosoftGraphIdentityBackend*)
(* and the Graph client, as DurableOperatorLifecycle.execute calls them.   *)
(*                                                                         *)
(* The provider looks at the directory three times: for preflight, before  *)
(* the write and after it.  A look is a list of awaited requests, and      *)
(* between any two of them others change the directory, so what the        *)
(* provider has seen is not the state of any one instant.  The write may   *)
(* be lost, refused, taken at once or taken late.                          *)
(*                                                                         *)
(* The signed allowlists and the shape of the plan do not change during a  *)
(* call and only refuse it; they are left out.                             *)
(***************************************************************************)
EXTENDS Naturals, Sequences, SequencesExt

CONSTANTS
    Operations,   \* the operations a plan may name
    MaxRetries,   \* graph_max_retries
    MaxChanges,   \* bound on changes by other administrators
    Nothing       \* evidence that was not read

AllOperations ==
    {"sessions.revoke", "account.enable", "account.disable", "membership.add",
     "membership.remove", "license.assign", "license.remove"}

ASSUME IdentityAssumption ==
    /\ Operations \subseteq AllOperations
    /\ MaxRetries \in Nat
    /\ MaxChanges \in Nat

VARIABLES
    directory,   \* the tenant: what Graph would answer now
    op, planned, \* the plan: its operation, and the evidence its digest binds
    round, at,   \* which look the provider is at, and how many requests into it
    seen,        \* the snapshot of this look
    attempt, refreshed,   \* of the write request
    answer,      \* what the lifecycle is told, "none" before
    response,    \* Graph's last answer to the write
    applied,     \* how often Graph took the write
    late,        \* taken, not yet visible
    changes,
    held,        \* the desired state was there since the second look began
    matched      \* planned evidence that was true since the first look began

vars == <<directory, op, planned, round, at, seen, attempt, refreshed, answer,
          response, applied, late, changes, held, matched>>

provider == <<op, planned, round, at, seen, attempt, refreshed, answer, response>>

Memberships == {"membership.add", "membership.remove"}
Licenses == {"license.assign", "license.remove"}

\* The sources of privilege, in the order they are asked.
RoleSources == <<"group", "assignment", "schedule", "eligibility">>

Requests(o) ==
    <<"user">> \o RoleSources
    \o (IF o \in Memberships THEN <<"fence", "member">> ELSE <<>>)
    \o (IF o \in Licenses THEN <<"sku">> ELSE <<>>)

AllRequests == {"user", "fence", "member", "sku"} \cup ToSet(RoleSources)

\* native: a Member that is not synchronized. fence: the group is neither dynamic
\* nor role-assignable. license: absent, with the planned service plans disabled,
\* or with others. located: the user has a usage location.
Directories ==
    [enabled : BOOLEAN, native : BOOLEAN, located : BOOLEAN,
     roles : SUBSET ToSet(RoleSources), fence : BOOLEAN, member : BOOLEAN,
     license : {"none", "planned", "other"}, seats : 0..1]

UserEvidence(d) ==
    [enabled |-> d.enabled, native |-> d.native, license |-> d.license,
     located |-> d.located]

GroupIsSafe(d) == d.fence

\* 404 is an answer here: no such member.
MembershipExists(d) == d.member

AvailableUnits(d) == d.seats

\* What one request returns.
Evidence(request, d) ==
    CASE request = "user" -> UserEvidence(d)
      [] request = "fence" -> GroupIsSafe(d)
      [] request = "member" -> MembershipExists(d)
      [] request = "sku" -> AvailableUnits(d)
      [] OTHER -> request \in d.roles

Evidences(request) ==
    CASE request = "user" ->
           [enabled : BOOLEAN, native : BOOLEAN, license : {"none", "planned", "other"},
            located : BOOLEAN]
      [] request = "sku" -> 0..1
      [] OTHER -> BOOLEAN

\* Evidence that was not read is none of the answers.
ASSUME NothingAssumption == \A r \in AllRequests : Nothing \notin Evidences(r)

Snapshot(o, d) ==
    [r \in AllRequests |->
        IF Contains(Requests(o), r) THEN Evidence(r, d) ELSE Nothing]

Unseen == [r \in AllRequests |-> Nothing]

\* The check that follows a request, given the evidence so far.
Safe(o, request, s) ==
    CASE request = "eligibility" ->
           /\ s["user"].native
           /\ \A r \in ToSet(RoleSources) : ~s[r]
      [] request = "fence" -> s["fence"]
      [] request = "sku" ->
           o = "license.assign" =>
               /\ s["user"].license # "none" \/ s["sku"] >= 1
               /\ s["user"].located
      [] OTHER -> TRUE

\* The state the operation is to bring about, as a snapshot shows it.
Desired(o, s) ==
    CASE o = "sessions.revoke" -> FALSE
      [] o = "account.enable" -> s["user"].enabled
      [] o = "account.disable" -> ~s["user"].enabled
      [] o = "membership.add" -> s["member"]
      [] o = "membership.remove" -> ~s["member"]
      [] o = "license.assign" -> s["user"].license = "planned"
      [] o = "license.remove" -> s["user"].license = "none"

\* Graph takes the write: the directory it leads to.
Effect(o, d) ==
    CASE o = "sessions.revoke" -> d
      [] o = "account.enable" -> [d EXCEPT !.enabled = TRUE]
      [] o = "account.disable" -> [d EXCEPT !.enabled = FALSE]
      [] o = "membership.add" -> [d EXCEPT !.member = TRUE]
      [] o = "membership.remove" -> [d EXCEPT !.member = FALSE]
      [] o = "license.assign" ->
           [d EXCEPT !.license = "planned",
                     !.seats = IF d.license = "none" THEN 0 ELSE @]
      [] o = "license.remove" -> [d EXCEPT !.license = "none", !.seats = 1]

\* Without a free seat Graph assigns no license.
CanTake(o, d) == o = "license.assign" => d.license # "none" \/ d.seats > 0

TypeOK ==
    /\ directory \in Directories
    /\ op \in Operations
    /\ \A r \in AllRequests :
          /\ planned[r] # Nothing <=> Contains(Requests(op), r)
          /\ planned[r] # Nothing => planned[r] \in Evidences(r)
          /\ seen[r] # Nothing => seen[r] \in Evidences(r)
    /\ round \in {"planned", "preflight", "before", "write", "after", "done"}
    /\ at \in 0..Len(Requests(op))
    /\ attempt \in 0..MaxRetries
    /\ refreshed \in BOOLEAN
    /\ answer \in {"none", "undecided", "drifted", "VERIFIED", "ACCEPTED",
                   "UNCERTAIN", "NOT_SENT"}
    /\ applied \in Nat
    /\ late \in BOOLEAN /\ held \in BOOLEAN
    /\ changes \in 0..MaxChanges
    /\ matched \subseteq AllRequests

\* The plan was drawn from an unprivileged user; who drew it is not modelled.
Init ==
    /\ directory \in {d \in Directories :
                         d.native /\ d.located /\ d.fence /\ d.roles = {}}
    /\ op \in Operations
    /\ planned = Snapshot(op, directory)
    /\ round = "planned" /\ at = 0 /\ seen = Unseen
    /\ attempt = 0 /\ refreshed = FALSE
    /\ answer = "none" /\ response = "none"
    /\ applied = 0 /\ late = FALSE /\ changes = 0
    /\ held = FALSE /\ matched = {}

\* Others change one thing.
ChangeDirectory ==
    /\ changes < MaxChanges /\ round # "done"
    /\ changes' = changes + 1
    /\ \/ directory' = [directory EXCEPT !.enabled = ~@]
       \/ directory' = [directory EXCEPT !.native = ~@]
       \/ directory' = [directory EXCEPT !.located = ~@]
       \/ directory' = [directory EXCEPT !.fence = ~@]
       \/ directory' = [directory EXCEPT !.member = ~@]
       \/ directory' = [directory EXCEPT !.seats = 1 - @]
       \/ \E l \in {"none", "planned", "other"} :
             directory' = [directory EXCEPT !.license = l]
       \/ \E r \in ToSet(RoleSources) :
             directory' = [directory EXCEPT !.roles =
                              IF r \in @ THEN @ \ {r} ELSE @ \cup {r}]
    /\ UNCHANGED <<provider, applied, late>>

\* A write that Graph took becomes visible.
LateEffect ==
    /\ late
    /\ late' = FALSE
    /\ \/ CanTake(op, directory) /\ directory' = Effect(op, directory)
       \/ ~CanTake(op, directory) /\ directory' = directory
    /\ UNCHANGED <<provider, applied, changes>>

Look(which) ==
    /\ round' = which /\ at' = 0 /\ seen' = Unseen
    /\ UNCHANGED <<answer, response, attempt, refreshed>>

Answer(a) ==
    /\ round' = "done" /\ answer' = a /\ at' = 0 /\ seen' = Unseen
    /\ UNCHANGED <<attempt, refreshed>>

\* An exception that is no ProviderTransportError: out of preflight it leaves the
\* lifecycle at AUTHORIZED, out of execute() it is an unclassified failure.
Raise == Answer(IF round = "preflight" THEN "undecided" ELSE "UNCERTAIN")

Start ==
    /\ round = "planned"
    /\ Look("preflight")
    /\ UNCHANGED <<directory, op, planned, applied, late, changes>>

\* Mutants of Conclude: the drift of the plan is not compared, the state after
\* the write is taken for granted.
ConcludeUncompared(s) ==
    CASE round = "preflight" -> Look("before")
      [] round = "before" ->
           IF Desired(op, s) THEN Answer("VERIFIED") /\ UNCHANGED response
           ELSE Look("write")
      [] round = "after" ->
           /\ Answer(IF Desired(op, s) THEN "VERIFIED" ELSE "UNCERTAIN")
           /\ UNCHANGED response

ConcludeTrusting(s) ==
    CASE round = "preflight" ->
           IF s = planned THEN Look("before")
           ELSE Answer("drifted") /\ UNCHANGED response
      [] round = "before" ->
           IF Desired(op, s) THEN Answer("VERIFIED") /\ UNCHANGED response
           ELSE Look("write")
      [] round = "after" -> Answer("VERIFIED") /\ UNCHANGED response

\* What follows a complete look s.
Conclude(s) ==
    CASE round = "preflight" ->
           IF s = planned THEN Look("before")
           ELSE Answer("drifted") /\ UNCHANGED response
      [] round = "before" ->
           IF Desired(op, s) THEN Answer("VERIFIED") /\ UNCHANGED response
           ELSE Look("write")
      [] round = "after" ->
           /\ Answer(IF Desired(op, s) THEN "VERIFIED" ELSE "UNCERTAIN")
           /\ UNCHANGED response

\* One request of a look. A failed request, an incomplete answer and unsafe
\* evidence all raise.
Read ==
    /\ round \in {"preflight", "before", "after"}
    /\ LET request == Requests(op)[at + 1]
           s == [seen EXCEPT ![request] = Evidence(request, directory)]
       IN  \/ Raise /\ UNCHANGED response
           \/ /\ Safe(op, request, s)
              /\ IF at + 1 = Len(Requests(op)) THEN Conclude(s)
                 ELSE /\ at' = at + 1 /\ seen' = s
                      /\ UNCHANGED <<round, answer, response, attempt, refreshed>>
    /\ UNCHANGED <<directory, op, planned, applied, late, changes>>

\* Graph's answers to a write: "unreadable" is a success whose body fails a local
\* check, "gateway" is 502, 503 or 504, "server" a 500, "refused" another 4xx.
Responses ==
    {"success", "unreadable", "redirect", "lost", "gateway", "server", "refused",
     "throttled", "unauthorized"}

MayHaveTaken == {"lost", "gateway", "server"}

\* Graph takes the write now or later, or not at all, as the answer r allows.
Taken(r) ==
    \/ /\ r \in {"success", "unreadable"} \cup MayHaveTaken
       /\ CanTake(op, directory)
       /\ applied' = applied + 1
       /\ \/ directory' = Effect(op, directory) /\ UNCHANGED late
          \/ late' = TRUE /\ UNCHANGED directory
    \/ /\ r \notin {"success", "unreadable"}
       /\ UNCHANGED <<directory, applied, late>>

\* Mutant of Resent: a gateway error is repeated like a 429.
ResentAlways(r) ==
    /\ op # "membership.remove"
    /\ r \in {"throttled", "gateway"} /\ attempt < MaxRetries

\* The answers after which _request_json_internal sends the write again. The
\* removal of a membership is sent once.
Resent(r) ==
    /\ op # "membership.remove"
    /\ \/ r = "throttled"
       \/ r = "unauthorized" /\ ~refreshed
    /\ attempt < MaxRetries

\* Mutant of Verdict: the counter of ambiguous writes is kept, the mark on the
\* exception is forgotten.
VerdictUnmarked(r) ==
    CASE r = "success" -> "taken"
      [] OTHER -> "NOT_SENT"

\* The removal of a membership has a request of its own, which marks only lost and
\* unexpected answers.
RemovalVerdict(r) ==
    CASE r = "success" -> "taken"
      [] r \in {"unreadable", "redirect", "lost"} -> "UNCERTAIN"
      [] OTHER -> "NOT_SENT"

\* What the provider makes of the last answer: the GraphError is marked
\* write_may_have_committed or not.
Verdict(r) ==
    IF op = "membership.remove" THEN RemovalVerdict(r)
    ELSE CASE r = "success" -> "taken"
           [] r \in {"unreadable", "redirect", "lost", "gateway"} -> "UNCERTAIN"
           [] OTHER -> "NOT_SENT"

\* The write request. A revocation is accepted when Graph says true.
Write ==
    /\ round = "write"
    /\ \E r \in Responses :
          /\ response' = r
          /\ Taken(r)
          /\ IF Resent(r)
             THEN /\ attempt' = attempt + 1
                  /\ refreshed' = (refreshed \/ r = "unauthorized")
                  /\ UNCHANGED <<round, at, seen, answer>>
             ELSE IF Verdict(r) # "taken" THEN Answer(Verdict(r))
             ELSE IF op = "sessions.revoke"
             THEN \E a \in {"ACCEPTED", "UNCERTAIN"} : Answer(a)
             ELSE /\ round' = "after" /\ at' = 0 /\ seen' = Unseen
                  /\ UNCHANGED <<answer, attempt, refreshed>>
    /\ UNCHANGED <<op, planned, changes>>

\* A token cannot be had or refreshed: AuthenticationError is no GraphError.
LoseToken ==
    /\ round = "write"
    /\ Raise
    /\ UNCHANGED <<directory, op, planned, response, applied, late, changes>>

Steps == Start \/ Read \/ Write \/ LoseToken

\* What was true at some instant of the call.
Witness ==
    /\ held' = (held \/ (/\ round' \in {"before", "write", "after", "done"}
                         /\ answer = "none"
                         /\ Desired(op, Snapshot(op, directory))))
    /\ matched' = IF round = "planned" THEN {}
                  ELSE matched \cup
                       {r \in AllRequests : Snapshot(op, directory)[r] = planned[r]}

Next == (Steps \/ ChangeDirectory \/ LateEffect) /\ Witness

Spec == Init /\ [][Next]_vars

-----------------------------------------------------------------------------

\* The two answers that claim too little: a 500 to any write, and any server
\* error to the removal of a membership.
Misread ==
    \/ response = "server"
    \/ response = "gateway" /\ op = "membership.remove"

\* NOT_SENT makes the lifecycle report FAILED_CONFIRMED, safe to retry with a new
\* plan. Whatever answers preceded the last one, the write then never took effect,
\* except after the answers of Misread.
NotSentMeansNoEffect ==
    answer = "NOT_SENT" /\ ~Misread => applied = 0 /\ ~late

\* VERIFIED is never said of a state that did not exist: at some instant since
\* execute() began the user was as the plan wants, although reads are stale when
\* they are used and a write that was taken may show later than the look after it.
VerifiedWasThere == answer = "VERIFIED" => held

\* However often 429 and 401 are met, one execution takes effect at most once.
OneEffectPerExecution == applied <= 1

\* The write is sent only onto the state that was approved: every piece of
\* evidence the plan binds was true at some instant of this call, no source of
\* privilege was missed and the group was a safe one.
EffectOnApprovedState ==
    applied > 0 =>
        /\ ToSet(Requests(op)) \subseteq matched
        /\ \A r \in ToSet(Requests(op)) : Safe(op, r, planned)

\* SECURITY.md: "A lost/uncertain response, a write-side timeout, or a
\* 502/503/504 blocks automatic retry indefinitely." NOT_SENT does not block it.
UncertainResponseBlocksRetry ==
    response \in {"lost", "gateway"} => answer # "NOT_SENT"
=============================================================================
