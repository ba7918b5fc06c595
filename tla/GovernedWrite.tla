--------------------------- MODULE GovernedWrite ---------------------------
(***************************************************************************)
(* The governed T1 write: EntraOperationalProfileService.execute with the  *)
(* external approval broker, the ledger of consumed approvals and the      *)
(* recovery capsules, called by several server processes for one user.     *)
(*                                                                         *)
(* A process serves one call at a time; a call stands for its idempotency  *)
(* key, from which the plan id and with it the names of the request and    *)
(* approval files follow.  Awaited requests, files and ledger transactions *)
(* are separate steps.  The write ledger is WriteLedger seen from outside: *)
(* a key is free, claimed, or closed for good.  The approver, the owner of *)
(* the policy and other administrators act between any two steps.          *)
(***************************************************************************)
EXTENDS Naturals, FiniteSets

CONSTANTS
    Processes,
    Keys,        \* idempotency keys
    Profiles,    \* operational profiles a user may have
    Wanted,      \* [Keys -> Profiles]: the user's profile after the write
    Policies,    \* authorization modes the signed policy may give the contract;
                 \* "prohibited" stands for every reason to refuse it
    PlanTTL,     \* plan_ttl_seconds of the contract
    GrantTTL,    \* --ttl-seconds of the approver
    WindowEnd,   \* the instant the signed write window closes
    MaxTime,
    MaxGrants,
    MaxChanges,  \* bound on changes of the user or the policy by others
    MaxLosses,   \* bound on crashes and cancellations
    None

Times == 0..MaxTime

Deadlines == 0..(MaxTime + PlanTTL)

\* The meaning of a plan, and the time it was made.
Plans == [key : Keys, pre : Profiles, policy : Policies, created : Times]

Grants == [id : 1..MaxGrants, plan : Plans, issued : Times, expires : Deadlines]

Users == [profile : Profiles, eligible : BOOLEAN, privileged : BOOLEAN]

Statuses ==
    {"DENIED_BY_POLICY", "BLOCKED_PRECONDITION", "AWAITING_APPROVAL",
     "PLAN_EXPIRED", "EXECUTED_VERIFIED", "EXECUTED_UNCERTAIN", "ERROR"}

Points ==
    {"idle", "authorize", "read", "roles", "prepare", "gate", "refresh",
     "reread", "reroles", "capsule", "burn", "patch", "verify"}

Calls ==
    [key : Keys, seen : Profiles \cup {None}, plan : Plans \cup {None},
     grant : Grants \cup {None}, moved : SUBSET {"policy", "user", "roles"}]

ASSUME GovernedAssumption ==
    /\ {MaxTime, MaxGrants, MaxChanges, MaxLosses, WindowEnd} \subseteq Nat
    /\ {PlanTTL, GrantTTL} \subseteq Nat \ {0}
    /\ Policies \subseteq {"standing", "explicit", "dual", "prohibited"}
    /\ Wanted \in [Keys -> Profiles]

ASSUME NoneAssumption ==
    None \notin Profiles \cup Plans \cup Grants \cup Calls \cup Statuses

VARIABLES
    now,
    user,       \* the target in the tenant
    policy,     \* the signed policy on disk
    loaded,     \* the policy each process loaded when it started
    ledger,     \* the row of every key, as the next call finds it
    requests,   \* <plan id>.request.json
    approvals,  \* <plan id>.approval.json
    consumed,   \* consumed_approvals
    capsules,   \* the recovery capsules on disk
    pc, call,   \* where each process is, and the call it serves
    record,     \* the status last returned for a key
    effects,    \* PATCHes of every key that Graph took
    late,       \* keys whose PATCH was taken and is not yet visible
    sent,       \* PATCHes sent under every grant
    replaced,   \* the profile a PATCH overwrote, if it was still the one re-read
    issued, changes, losses

files == <<requests, approvals, consumed, capsules>>
tenant == <<user, effects, late, replaced>>
history == <<sent, issued, changes, losses>>
vars ==
    <<now, policy, loaded, ledger, files, pc, call, record, tenant, history>>

Init ==
    /\ now = 0
    /\ user \in [profile : Profiles, eligible : {TRUE}, privileged : {FALSE}]
    /\ policy \in Policies
    /\ loaded = [p \in Processes |-> policy]
    /\ ledger = [k \in Keys |-> "free"]
    /\ requests = [k \in Keys |-> None]
    /\ approvals = [k \in Keys |-> None]
    /\ consumed = {}
    /\ capsules = {}
    /\ pc = [p \in Processes |-> "idle"]
    /\ call = [p \in Processes |-> None]
    /\ record = [k \in Keys |-> None]
    /\ effects = [k \in Keys |-> 0]
    /\ late = {}
    /\ sent = [g \in 1..MaxGrants |-> 0]
    /\ replaced = [k \in Keys |-> None]
    /\ issued = 0
    /\ changes = 0
    /\ losses = 0

-----------------------------------------------------------------------------
(***************************************************************************)
(* How a call goes on and how it ends.                                     *)
(***************************************************************************)

At(p, point) == pc[p] = point

Goto(p, point) == pc' = [pc EXCEPT ![p] = point]

With(p, c) == call' = [call EXCEPT ![p] = c]

\* The call ends: its status is returned and its row is left free or closed.
Finish(p, status, row) ==
    LET k == call[p].key IN
    /\ Goto(p, "idle")
    /\ With(p, None)
    /\ record' = [record EXCEPT ![k] = status]
    /\ ledger' = [ledger EXCEPT ![k] = row]

\* A local refusal before the PATCH frees the key, unless other writes of the
\* process moved the counters meanwhile: then the ledger closes it.
Refuse(p, status) == \E row \in {"free", "closed"} : Finish(p, status, row)

Pass(p, point) == Goto(p, point) /\ UNCHANGED <<call, record, ledger>>

\* The ledger reserves a free key; a closed or claimed one is refused there.
Claim(p, k) ==
    /\ At(p, "idle")
    /\ ledger[k] = "free"
    /\ ledger' = [ledger EXCEPT ![k] = "claimed"]
    /\ record' = [record EXCEPT ![k] = None]
    /\ With(p, [key |-> k, seen |-> None, plan |-> None, grant |-> None,
                moved |-> {}])
    /\ Goto(p, "authorize")
    /\ UNCHANGED <<now, policy, loaded, files, tenant, history>>

-----------------------------------------------------------------------------
(***************************************************************************)
(* preflight() and the authorization gate.                                 *)
(***************************************************************************)

\* authorize(): a policy that resolves to a write mode, inside its write window.
Authorizes(signed) == signed # "prohibited" /\ now < WindowEnd

Authorize(p) ==
    /\ At(p, "authorize")
    /\ \/ Authorizes(loaded[p]) /\ Pass(p, "read")
       \/ ~Authorizes(loaded[p]) /\ Refuse(p, "DENIED_BY_POLICY")
    /\ UNCHANGED <<now, policy, loaded, files, tenant, history>>

\* _read_user(): a cloud-managed member, or the call is refused.
ReadUser(p, here, next, refusal) ==
    /\ At(p, here)
    /\ \/ /\ user.eligible
          /\ With(p, [call[p] EXCEPT !.seen = user.profile])
          /\ Goto(p, next)
          /\ UNCHANGED <<record, ledger>>
       \/ ~user.eligible /\ Refuse(p, refusal)
    /\ UNCHANGED <<now, policy, loaded, files, tenant, history>>

PreRead(p) == ReadUser(p, "read", "roles", "BLOCKED_PRECONDITION")

\* effective_changes is empty.
Useless(c) == c.seen = Wanted[c.key]

\* _ensure_non_privileged(), and a change that would change nothing.
PreRoles(p) ==
    /\ At(p, "roles")
    /\ \/ ~user.privileged /\ ~Useless(call[p]) /\ Pass(p, "prepare")
       \/ (user.privileged \/ Useless(call[p])) /\ Refuse(p, "BLOCKED_PRECONDITION")
    /\ UNCHANGED <<now, policy, loaded, files, tenant, history>>

Expires(plan) == plan.created + PlanTTL

\* semantic_digest: equal but for the times.
SameMeaning(plan, other) == [plan EXCEPT !.created = other.created] = other

\* build_plan(): the plan of this call, made now.
NewPlan(p) ==
    [key |-> call[p].key, pre |-> call[p].seen, policy |-> loaded[p],
     created |-> now]

Reusable(plan, request) ==
    /\ request # None
    /\ SameMeaning(plan, request)
    /\ now < Expires(request)

\* prepare(): where an approval is needed, an unexpired request of the same meaning
\* is reused and any other one overwritten.
Prepare(p) ==
    LET plan == NewPlan(p)
        request == requests[plan.key]
        explicit == plan.policy = "explicit"
        reuse == explicit /\ Reusable(plan, request)
    IN /\ At(p, "prepare")
       /\ With(p, [call[p] EXCEPT !.plan = IF reuse THEN request ELSE plan])
       /\ requests' = IF explicit /\ ~reuse
                      THEN [requests EXCEPT ![plan.key] = plan]
                      ELSE requests
       /\ Goto(p, "gate")
       /\ UNCHANGED <<now, policy, loaded, ledger, approvals, consumed, capsules,
                      record, tenant, history>>

\* Mutant of Valid: the approval need not bind the plan at hand.
ValidUnbound(grant, plan) ==
    /\ grant.issued <= now
    /\ now < grant.expires
    /\ now < Expires(plan)

\* ExternalApprovalBroker.validate().
Valid(grant, plan) ==
    /\ grant.plan = plan
    /\ grant.issued <= now
    /\ now < grant.expires
    /\ now < Expires(plan)

\* authorization_gate() and ensure_fresh().
Gate(p) ==
    LET plan == call[p].plan
        grant == approvals[plan.key]
    IN /\ At(p, "gate")
       /\ \/ /\ plan.policy = "dual"
             /\ Refuse(p, "DENIED_BY_POLICY")
          \/ /\ plan.policy = "explicit"
             /\ grant = None
             /\ Refuse(p, "AWAITING_APPROVAL")
          \/ /\ plan.policy = "explicit"
             /\ grant # None
             /\ ~Valid(grant, plan)
             /\ Refuse(p, "BLOCKED_PRECONDITION")
          \/ /\ plan.policy = "explicit"
             /\ grant # None
             /\ Valid(grant, plan)
             /\ With(p, [call[p] EXCEPT !.grant = grant])
             /\ Goto(p, "refresh")
             /\ UNCHANGED <<record, ledger>>
          \/ /\ plan.policy = "standing"
             /\ now >= Expires(plan)
             /\ Refuse(p, "PLAN_EXPIRED")
          \/ /\ plan.policy = "standing"
             /\ now < Expires(plan)
             /\ Pass(p, "refresh")
       /\ UNCHANGED <<now, policy, loaded, files, tenant, history>>

-----------------------------------------------------------------------------
(***************************************************************************)
(* Everything is checked again, the capsule is stored, the approval burned.*)
(***************************************************************************)

\* Mutant of UnchangedPolicy: refresh() does not compare the digests.
UnchangedSincePlan(p) == TRUE

\* refresh(): the policy on disk is the one the process has loaded.
UnchangedPolicy(p) == policy = loaded[p]

Refresh(p) ==
    /\ At(p, "refresh")
    /\ \/ UnchangedPolicy(p) /\ Authorizes(policy) /\ Pass(p, "reread")
       \/ ~(UnchangedPolicy(p) /\ Authorizes(policy)) /\ Refuse(p, "ERROR")
    /\ UNCHANGED <<now, policy, loaded, files, tenant, history>>

ReRead(p) == ReadUser(p, "reread", "reroles", "ERROR")

\* Mutant of ReRoles: the digest of the second read is not compared.
ReRolesUncompared(p) ==
    /\ At(p, "reroles")
    /\ \/ ~user.privileged /\ Pass(p, "capsule")
       \/ user.privileged /\ Refuse(p, "ERROR")
    /\ UNCHANGED <<now, policy, loaded, files, tenant, history>>

ReRoles(p) ==
    LET fresh == call[p].seen = call[p].plan.pre IN
    /\ At(p, "reroles")
    /\ \/ ~user.privileged /\ fresh /\ Pass(p, "capsule")
       \/ ~user.privileged /\ ~fresh /\ Refuse(p, "PLAN_EXPIRED")
       \/ user.privileged /\ Refuse(p, "ERROR")
    /\ UNCHANGED <<now, policy, loaded, files, tenant, history>>

\* RecoveryCapsuleStore.store(): the profile the plan was made from.
StoreCapsule(p) ==
    LET c == call[p] IN
    /\ At(p, "capsule")
    /\ capsules' = capsules \cup {[key |-> c.key, previous |-> c.plan.pre]}
    /\ Pass(p, "burn")
    /\ UNCHANGED <<now, policy, loaded, requests, approvals, consumed, tenant,
                   history>>

\* Mutant of Burn: a consumed approval is not refused.
BurnAgain(p) ==
    LET grant == call[p].grant IN
    /\ At(p, "burn")
    /\ consumed' = IF grant = None THEN consumed ELSE consumed \cup {grant.id}
    /\ Pass(p, "patch")
    /\ UNCHANGED <<now, policy, loaded, requests, approvals, capsules, tenant,
                   history>>

\* consume_approval(): one transaction, and nothing to do under standing policy.
Burn(p) ==
    LET grant == call[p].grant IN
    /\ At(p, "burn")
    /\ \/ grant = None /\ Pass(p, "patch") /\ UNCHANGED consumed
       \/ /\ grant # None
          /\ grant.id \notin consumed
          /\ consumed' = consumed \cup {grant.id}
          /\ Pass(p, "patch")
       \/ /\ grant # None
          /\ grant.id \in consumed
          /\ Refuse(p, "BLOCKED_PRECONDITION")
          /\ UNCHANGED consumed
    /\ UNCHANGED <<now, policy, loaded, requests, approvals, capsules, tenant,
                   history>>

\* A request that is not the PATCH fails, or a file cannot be written.
Fail(p) ==
    /\ pc[p] \in {"read", "roles", "reread", "reroles", "capsule", "burn"}
    /\ Refuse(p, "ERROR")
    /\ UNCHANGED <<now, policy, loaded, files, tenant, history>>

-----------------------------------------------------------------------------
(***************************************************************************)
(* The PATCH and its answer.                                               *)
(***************************************************************************)

\* Points at which a call relies on what it re-read.
ReliesOn(what) ==
    CASE what = "policy" -> {"reread", "reroles", "capsule", "burn", "patch"}
      [] what = "user" -> {"reroles", "capsule", "burn", "patch"}
      [] what = "roles" -> {"capsule", "burn", "patch"}

\* Something changed under the calls that had already checked it.
Moved(what) ==
    [p \in Processes |->
        IF pc[p] \in ReliesOn(what)
        THEN [call[p] EXCEPT !.moved = @ \cup {what}]
        ELSE call[p]]

\* Graph takes the PATCH: the profile changes at once, or becomes visible later.
Taken(p) ==
    LET k == call[p].key IN
    /\ effects' = [effects EXCEPT ![k] = @ + 1]
    /\ \/ /\ user' = [user EXCEPT !.profile = Wanted[k]]
          /\ replaced' = [replaced EXCEPT
                             ![k] = IF "user" \in call[p].moved THEN None
                                    ELSE user.profile]
          /\ UNCHANGED late
       \/ late' = late \cup {k} /\ UNCHANGED <<user, replaced>>

\* Mutant of RowAfter: any answer of Graph frees the key.
RowAfterAnyAnswer(answer) ==
    IF answer \in {"refused", "failed"} THEN {"free", "closed"} ELSE {"closed"}

\* The row after an answer that was not 2xx: a 4xx is proof that nothing was
\* written, unless other writes of the process were confirmed meanwhile.
RowAfter(answer) == IF answer = "refused" THEN {"free", "closed"} ELSE {"closed"}

\* A 429 or 401 is sent again within this step.  "refused" is a 4xx; "failed" is a
\* 5xx the client does not mark as ambiguous (500); "ambiguous" is a lost answer,
\* 502, 503 or 504.
Patch(p) ==
    LET c == call[p]
        spent == IF c.grant = None THEN sent
                 ELSE [sent EXCEPT ![c.grant.id] = @ + 1]
        others == IF user' # user THEN Moved("user") ELSE call
        finish(status, rows) ==
            \E row \in rows :
                /\ Goto(p, "idle")
                /\ call' = [others EXCEPT ![p] = None]
                /\ record' = [record EXCEPT ![c.key] = status]
                /\ ledger' = [ledger EXCEPT ![c.key] = row]
    IN /\ At(p, "patch")
       /\ sent' = spent
       /\ \/ /\ Taken(p)
             /\ call' = others
             /\ Goto(p, "verify")
             /\ UNCHANGED <<record, ledger>>
          \/ /\ UNCHANGED tenant
             /\ finish("BLOCKED_PRECONDITION", RowAfter("refused"))
          \/ /\ Taken(p) \/ UNCHANGED tenant
             /\ finish("BLOCKED_PRECONDITION", RowAfter("failed"))
          \/ /\ Taken(p) \/ UNCHANGED tenant
             /\ finish("EXECUTED_UNCERTAIN", RowAfter("ambiguous"))
       /\ UNCHANGED <<now, policy, loaded, files, issued, changes, losses>>

\* The read back: every requested field as requested, or the outcome is uncertain.
Verify(p) ==
    LET k == call[p].key
        matches == user.eligible /\ user.profile = Wanted[k]
    IN /\ At(p, "verify")
       /\ \/ matches /\ Finish(p, "EXECUTED_VERIFIED", "closed")
          \/ Finish(p, "EXECUTED_UNCERTAIN", "closed")
       /\ UNCHANGED <<now, policy, loaded, files, tenant, history>>

LateEffect(k) ==
    /\ k \in late
    /\ late' = late \ {k}
    /\ user' = [user EXCEPT !.profile = Wanted[k]]
    /\ call' = IF user' # user THEN Moved("user") ELSE call
    /\ UNCHANGED <<now, policy, loaded, ledger, files, pc, record, effects,
                   replaced, history>>

-----------------------------------------------------------------------------
(***************************************************************************)
(* Everybody else.                                                         *)
(***************************************************************************)

Least(a, b) == IF a <= b THEN a ELSE b

\* m365-approval sign: an unexpired request, to a file that must not exist yet.
Sign(k) ==
    LET plan == requests[k] IN
    /\ plan # None
    /\ approvals[k] = None
    /\ now < Expires(plan)
    /\ issued < MaxGrants
    /\ issued' = issued + 1
    /\ approvals' = [approvals EXCEPT
                        ![k] = [id |-> issued + 1, plan |-> plan, issued |-> now,
                                expires |-> Least(now + GrantTTL, Expires(plan))]]
    /\ UNCHANGED <<now, policy, loaded, ledger, requests, consumed, capsules, pc,
                   call, record, tenant, sent, changes, losses>>

\* The operator removes an approval to make room for another one.
Discard(k) ==
    /\ approvals[k] # None
    /\ approvals' = [approvals EXCEPT ![k] = None]
    /\ UNCHANGED <<now, policy, loaded, ledger, requests, consumed, capsules, pc,
                   call, record, tenant, history>>

ChangeCounted ==
    /\ changes < MaxChanges
    /\ changes' = changes + 1

ChangePolicy ==
    /\ ChangeCounted
    /\ policy' \in Policies \ {policy}
    /\ call' = Moved("policy")
    /\ UNCHANGED <<now, loaded, ledger, files, pc, record, tenant, sent, issued,
                   losses>>

\* Another administrator, or a directory synchronization.
ChangeUser ==
    /\ ChangeCounted
    /\ \/ /\ user' \in [profile : Profiles, eligible : BOOLEAN,
                        privileged : {user.privileged}] \ {user}
          /\ call' = Moved("user")
       \/ /\ user' = [user EXCEPT !.privileged = ~@]
          /\ call' = Moved("roles")
    /\ UNCHANGED <<now, policy, loaded, ledger, files, pc, record, effects, late,
                   replaced, sent, issued, losses>>

\* A call is lost: its task is cancelled, or its process dies.  The key stays
\* claimed.
Lose(p) ==
    /\ ~At(p, "idle")
    /\ losses < MaxLosses
    /\ losses' = losses + 1
    /\ Goto(p, "idle")
    /\ With(p, None)
    /\ UNCHANGED <<now, policy, loaded, ledger, files, record, tenant, sent,
                   issued, changes>>

\* A process starts anew and loads the policy on disk.
Restart(p) ==
    /\ At(p, "idle")
    /\ loaded[p] # policy
    /\ loaded' = [loaded EXCEPT ![p] = policy]
    /\ UNCHANGED <<now, policy, ledger, files, pc, call, record, tenant, history>>

Tick ==
    /\ now < MaxTime
    /\ now' = now + 1
    /\ UNCHANGED <<policy, loaded, ledger, files, pc, call, record, tenant,
                   history>>

Step(p) ==
    \/ \E k \in Keys : Claim(p, k)
    \/ Authorize(p) \/ PreRead(p) \/ PreRoles(p) \/ Prepare(p) \/ Gate(p)
    \/ Refresh(p) \/ ReRead(p) \/ ReRoles(p) \/ StoreCapsule(p) \/ Burn(p)
    \/ Patch(p) \/ Verify(p) \/ Fail(p)

Next ==
    \/ \E p \in Processes : Step(p) \/ Lose(p) \/ Restart(p)
    \/ \E k \in Keys : LateEffect(k) \/ Sign(k) \/ Discard(k)
    \/ ChangePolicy \/ ChangeUser \/ Tick

Spec == Init /\ [][Next]_vars

-----------------------------------------------------------------------------
(***************************************************************************)
(* Properties.                                                             *)
(***************************************************************************)

\* Files, ledgers and the calls in progress have their types.
TypeOK ==
    /\ now \in Times
    /\ user \in Users
    /\ policy \in Policies
    /\ loaded \in [Processes -> Policies]
    /\ ledger \in [Keys -> {"free", "claimed", "closed"}]
    /\ requests \in [Keys -> Plans \cup {None}]
    /\ approvals \in [Keys -> Grants \cup {None}]
    /\ consumed \subseteq 1..MaxGrants
    /\ capsules \subseteq [key : Keys, previous : Profiles]
    /\ pc \in [Processes -> Points]
    /\ call \in [Processes -> Calls \cup {None}]
    /\ \A p \in Processes : call[p] = None <=> pc[p] = "idle"
    /\ record \in [Keys -> Statuses \cup {None}]
    /\ effects \in [Keys -> Nat]
    /\ late \subseteq Keys
    /\ sent \in [1..MaxGrants -> Nat]
    /\ replaced \in [Keys -> Profiles \cup {None}]
    /\ issued \in 0..MaxGrants
    /\ changes \in 0..MaxChanges
    /\ losses \in 0..MaxLosses

\* An approval pays for one PATCH, whatever is refused, lost or repeated.
GrantSpentOnce == \A g \in 1..MaxGrants : sent[g] <= 1

\* Graph takes the PATCH of a key at most once, over all calls and processes.
KeyTakesEffectOnce == \A k \in Keys : effects[k] <= 1

\* Where the policy asks for an explicit plan, a PATCH is only sent with a consumed
\* approval of exactly that plan.
EffectAsApproved ==
    \A p \in Processes :
        At(p, "patch") /\ call[p].plan.policy = "explicit" =>
            /\ call[p].grant # None
            /\ call[p].grant.plan = call[p].plan
            /\ call[p].grant.id \in consumed

\* A PATCH is only sent to the user the plan was made for, under the policy it was
\* made under, but for what others changed after it had been checked again.
EffectOnPlannedTarget ==
    \A p \in Processes :
        At(p, "patch") =>
            /\ "user" \notin call[p].moved =>
                   user.eligible /\ user.profile = call[p].plan.pre
            /\ "roles" \notin call[p].moved => ~user.privileged
            /\ "policy" \notin call[p].moved =>
                   /\ policy = call[p].plan.policy
                   /\ policy \in {"standing", "explicit"}

\* What a PATCH overwrote can be restored from a capsule of its key.
CapsuleRestores ==
    \A k \in Keys :
        replaced[k] # None => [key |-> k, previous |-> replaced[k]] \in capsules

\* A plan reported expired, the one record that allows a retry, had no effect, under
\* this or any earlier call of its key.
RetryableMeansNoEffect ==
    \A k \in Keys : record[k] = "PLAN_EXPIRED" => effects[k] = 0

=============================================================================
