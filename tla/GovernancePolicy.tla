--------------------------- MODULE GovernancePolicy ---------------------------
(***************************************************************************)
(* The policy of a tenant in use: an administrator replaces the document   *)
(* and restarts the server, or the live lab of the operator foundation, at *)
(* any time; the process that loaded a policy authorizes reads, playbooks, *)
(* writes and, through plans that outlive a restart, operator effects.     *)
(*                                                                         *)
(* Each decision is kept with the policy it was taken under.  Time is the  *)
(* clock of authorize and validate, which a call reads once.  The ledger   *)
(* rows of an operation, the windows of its grants, its preflight and what *)
(* its provider does are in OperatorLifecycle, the reload of the policy    *)
(* between plan and write in GovernedWrite.                                *)
(***************************************************************************)
EXTENDS GovernanceRules, Sequences

CONSTANTS
    Documents,    \* the documents an administrator may put in place
    Registries,   \* authority id -> [identity, key, group, state]
    Tenant,       \* the tenant the process runs for
    Local,        \* users the local settings allow writes to
    MaxTime,      \* bound on the clock
    PlanLife      \* how long a plan may be used

ASSUME GovernanceAssumption ==
    /\ MaxTime \in Nat /\ PlanLife \in Nat /\ Day \in Nat \ {0}
    /\ None \notin {"server", "lab", "AWAITING_APPROVAL", "AUTHORIZED"}
    /\ \A c \in DOMAIN Manifest : Manifest[c].mode \in DOMAIN Strength
    /\ \A op \in DOMAIN Candidate : /\ Candidate[op].tier \in DOMAIN TierStrength
                                    /\ Candidate[op].mode \in DOMAIN Strength

\* The enumerations and times of a document are of their types.
ASSUME DocumentsAssumption ==
    \A p \in Documents :
        /\ p.issued \in Nat
        /\ p.expires # None => p.expires \in Nat
        /\ p.profiles["break_glass"].ttl # None => p.profiles["break_glass"].ttl \in Nat
        /\ \A c \in DOMAIN p.overrides : p.overrides[c] \in DOMAIN Strength
        /\ p.operations # None =>
               \A b \in p.operations.bindings :
                   b.mode \in DOMAIN Strength /\ b.tier \in DOMAIN TierStrength

VARIABLES
    now,
    role,         \* what runs: "server", "lab", or None
    held,         \* the policy it loaded
    registry,     \* the approval trust registry a lab loaded
    plan,         \* the operator plan in private state, or None
    row,          \* the status of its operation in the lifecycle store
    burn,         \* the approvals last burned for it, or None
    decision      \* the last decision, or None

private == <<plan, row, burn>>

vars == <<now, role, held, registry, private, decision>>

Kinds == {"read", "playbook", "write", "effect"}

TypeOK ==
    /\ now \in 0..MaxTime
    /\ role \in {"server", "lab", None}
    /\ held # None => Loadable(held)
    /\ (role = None) <=> (held = None)
    /\ (role = "lab") <=> (registry # None)
    /\ (plan = None) <=> (row = None)
    /\ row \in {None, "AWAITING_APPROVAL", "AUTHORIZED", "EXECUTING", "COMPLETED"}
    /\ decision # None => decision.kind \in Kinds /\ decision.at \in 0..now

Init ==
    /\ now = 0
    /\ role = None /\ held = None /\ registry = None
    /\ plan = None /\ row = None /\ burn = None
    /\ decision = None

Tick ==
    /\ now < MaxTime
    /\ now' = now + 1
    /\ UNCHANGED <<role, held, registry, private, decision>>

-----------------------------------------------------------------------------
(* Start: the document and the registry are read once. What was called is lost, what is *)
(* in private state is not.                                                             *)

\* The live lab asks for selected-write and resolves every operation it enables.
FitsLab(p) ==
    /\ p.schema = 3
    /\ p.boundContracts = "candidate"
    /\ p.tenant = Tenant
    /\ p.active = "selected_write"
    /\ \A op \in Active(p).contracts \cap DOMAIN Candidate : Resolves(p, op)

Usable == [server |-> {p \in Documents : Loadable(p) /\ FitsManifests(p)},
           lab |-> {p \in Documents : Loadable(p) /\ FitsLab(p)}]

Start(p, r, kind) ==
    /\ p \in Usable[kind]
    /\ role' = kind /\ held' = p /\ registry' = r
    /\ decision' = None
    /\ UNCHANGED <<now, private>>

\* The server knows of no approval authorities.
StartServer(p) == Start(p, None, "server")

StartLab(p, r) == Start(p, r, "lab")

-----------------------------------------------------------------------------
(* The server. *)

Decide(d) ==
    /\ decision' = d
    /\ UNCHANGED <<now, role, held, registry, private>>

Read(c) ==
    /\ role = "server"
    /\ ReadAuthorized(held, c, Tenant, now)
    /\ Decide([kind |-> "read", contract |-> c, policy |-> held, at |-> now])

ReadPlaybook(b) ==
    /\ role = "server"
    /\ PlaybookAuthorized(held, b, Tenant, now)
    /\ Decide([kind |-> "playbook", playbook |-> b, policy |-> held, at |-> now])

Write(c, u) ==
    /\ role = "server"
    /\ WriteAuthorized(held, c, u, Tenant, now, Local)
    /\ Decide([kind |-> "write", contract |-> c, user |-> u, policy |-> held, at |-> now,
               mode |-> WriteMode(held, c)])

-----------------------------------------------------------------------------
(* The operator foundation. *)

\* OperatorPlan: T2 means explicit_plan and T3 dual_control, nothing else.
TierFitsMode(tier, mode) ==
    \/ tier = "T2" /\ mode = "explicit_plan"
    \/ tier = "T3" /\ mode = "dual_control"

\* Plans do not share rows or approvals, so that one at a time is enough.
BuildPlan(op) ==
    /\ role = "lab"
    /\ Resolves(held, op)
    /\ LET e == Effective(held, op)
       IN  /\ TierFitsMode(e.tier, e.mode)
           /\ e.effect # "object_delete"
           /\ plan' = [operation |-> op, policy |-> held, tier |-> e.tier, mode |-> e.mode,
                       from |-> now, until |-> now + PlanLife]
    /\ row' = "AWAITING_APPROVAL" /\ burn' = None
    /\ UNCHANGED <<now, role, held, registry, decision>>

\* validate_governance: everything but the tier is compared, the policy by digest.
PlanMatches(pl, e) ==
    /\ pl.operation = e.operation
    /\ pl.policy = e.policy
    /\ pl.mode = e.mode

\* The registry and the policy must agree on the authority.
SameAuthority(a, r) == a.identity = r.identity /\ a.key = r.key /\ a.group = r.group

\* ApprovalSetValidator.validate, for the execution of a plan: one approval for an
\* explicit plan and two for any other, by active authorities of the policy, each
\* another identity and key, from every group the binding asks for.
Approved(pl, e, s) ==
    /\ Len(s) = IF e.mode = "explicit_plan" THEN 1 ELSE 2
    /\ pl.from <= now /\ now < pl.until
    /\ \A i \in DOMAIN s : \E a \in e.authorities :
          a.id = s[i] /\ SameAuthority(a, registry[a.id]) /\ registry[a.id].state = "active"
    /\ \A i, j \in DOMAIN s :
          i # j => /\ registry[s[i]].identity # registry[s[j]].identity
                   /\ registry[s[i]].key # registry[s[j]].key
    /\ e.groups \subseteq {registry[s[i]].group : i \in DOMAIN s}

(* execute_effectful, in any number of calls: a process may be gone, and another one be   *)
(* started, after each of the following. The durable steps of a call are actions of their *)
(* own.                                                                                   *)

\* Every call resolves the operation and compares the plan with what is loaded now.
Governed ==
    /\ role = "lab" /\ plan # None
    /\ Resolves(held, plan.operation)
    /\ PlanMatches(plan, Effective(held, plan.operation))

\* The approvals are validated against the policy and the registry loaded now and burned,
\* in one transaction; approvals burned before need fresh ones.
Burn(s) ==
    /\ row = "AWAITING_APPROVAL"
    /\ Governed /\ Approved(plan, Effective(held, plan.operation), s)
    /\ burn' = [signers |-> Range(s), registry |-> registry]
    /\ UNCHANGED <<now, role, held, registry, plan, row, decision>>

\* Mutant of Promote: approvals are taken for burned because they are presented.
PromotePresented ==
    /\ row = "AWAITING_APPROVAL"
    /\ Governed
    /\ \E a \in DOMAIN registry :
          burn' = IF burn = None THEN [signers |-> {a}, registry |-> registry] ELSE burn
    /\ row' = "AUTHORIZED"
    /\ UNCHANGED <<now, role, held, registry, plan, decision>>

\* What this call burned, or consumed_exact finds burned for the plan by an earlier one, is
\* not validated again.
Promote ==
    /\ row = "AWAITING_APPROVAL"
    /\ Governed
    /\ burn # None
    /\ row' = "AUTHORIZED"
    /\ UNCHANGED <<now, role, held, registry, plan, burn, decision>>

\* lifecycle.execute, up to the provider, of a row that is authorized, in this call or in
\* an earlier one: no approval is looked at.
AuthorizeEffect ==
    /\ row = "AUTHORIZED"
    /\ Governed
    /\ IF plan.from <= now /\ now < plan.until
       THEN /\ row' = "EXECUTING"
            /\ decision' = [kind |-> "effect", operation |-> plan.operation,
                            mode |-> plan.mode, signers |-> burn.signers,
                            registry |-> burn.registry, policy |-> held, at |-> now]
       ELSE row' = "COMPLETED" /\ UNCHANGED decision
    /\ UNCHANGED <<now, role, held, registry, plan, burn>>

\* The tools ask authorize only for contracts of their own, which write.
WriteContracts == {c \in DOMAIN Manifest : Manifest[c].method # "GET"}

Authorities == UNION {DOMAIN r : r \in Registries}

Signers == {<<a>> : a \in Authorities} \cup (Authorities \X Authorities)

Next ==
    \/ Tick
    \/ \E p \in Documents : StartServer(p)
    \/ \E p \in Documents, r \in Registries : StartLab(p, r)
    \/ \E c \in DOMAIN Manifest : Read(c)
    \/ \E b \in DOMAIN Playbooks : ReadPlaybook(b)
    \/ \E c \in WriteContracts, u \in Local : Write(c, u)
    \/ \E op \in DOMAIN Candidate : BuildPlan(op)
    \/ \E s \in Signers : Burn(s)
    \/ Promote
    \/ AuthorizeEffect

Spec == Init /\ [][Next]_vars

-----------------------------------------------------------------------------

\* Neither authorize nor the resolution of an operation looks at the kind of profile
\* that is active; that no effect is authorized under a read profile, and none above T1
\* under routine-write, is up to the checks at start. Reads and playbooks are authorized
\* for contracts that only read.
EffectsOnlyFromWriteProfiles ==
    /\ decision # None /\ decision.kind \in {"write", "effect"} =>
          /\ decision.policy.active \notin ReadProfiles
          /\ decision.policy.active = "routine_write" =>
                decision.kind = "write" /\ Manifest[decision.contract].tier \in {"T0", "T1"}
    /\ decision # None /\ decision.kind = "playbook" =>
          \A c \in Playbooks[decision.playbook].nodes : Manifest[c].method = "GET"
    /\ decision # None /\ decision.kind = "read" =>
          Manifest[decision.contract].method = "GET"

\* Overrides, bindings and plans only ever harden: what is decided is at least as strong
\* as the floor compiled into the contract and as what the tenant signed for it.
NoDowngrade ==
    /\ decision # None /\ decision.kind = "write" =>
          Strength[decision.mode] >= Strength[Manifest[decision.contract].mode]
    /\ decision # None /\ decision.kind = "effect" =>
          /\ Strength[decision.mode] >= Strength[Candidate[decision.operation].mode]
          /\ Strength[decision.mode] >=
                 Strength[Binding(decision.policy, decision.operation).mode]

\* SECURITY.md: T3 needs two independent approvers. An operation compiled as T3 has an
\* effect only on the signatures of two authorities of different groups whom the policy
\* loaded at the effect names, and who were active in the registry loaded when their
\* approvals were burned: whatever crashes and restarts, with whatever policy and
\* registry, come in between, and however binding, override and plan are combined. That
\* they are active still is not looked at: see README.md.
TwoGroupsForT3 ==
    decision # None /\ decision.kind = "effect"
        /\ Candidate[decision.operation].tier = "T3" =>
        \E a, b \in decision.signers :
            LET x == decision.registry[a]
                y == decision.registry[b]
            IN  /\ x.identity # y.identity /\ x.group # y.group
                /\ x.state = "active" /\ y.state = "active"
                /\ {a, b} \subseteq {z.id : z \in decision.policy.operations.authorities}

\* A plan does not carry the policy it was built under past a restart: what it is
\* executed as is what the policy of today makes of the operation.
PlanFollowsPolicy ==
    decision # None /\ decision.kind = "effect" =>
        decision.mode = EffectiveMode(decision.policy, decision.operation)
        /\ plan.policy = decision.policy

\* Emergency and break-glass accounts are never the target of a write, and a write under
\* an active break-glass profile is decided within its TTL of the policy's issue.
EmergencyIsFenced ==
    decision # None /\ decision.kind = "write" =>
        /\ decision.user \notin decision.policy.special
        /\ decision.policy.active = "break_glass" =>
              decision.at < decision.policy.issued + Active(decision.policy).ttl
=============================================================================
