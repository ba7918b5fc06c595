------------------------ MODULE GovernancePolicyProofs ------------------------
(***************************************************************************)
(* What a tenant policy can authorize, for every set of documents, every   *)
(* manifest, every registry and every clock.  The inductive invariant says *)
(* that the loaded policy passed the checks of its process, that a plan is *)
(* of a tier that fits its mode, that what was burned for it satisfied the *)
(* policy of the plan and the registry of that moment, and that the last   *)
(* decision satisfies the conditions it was taken under, in terms of the   *)
(* policy still loaded.                                                    *)
(***************************************************************************)
EXTENDS GovernancePolicy, TLAPS

HeldUsable ==
    /\ role = "server" => held \in Usable["server"]
    /\ role = "lab" => held \in Usable["lab"]

PlanFits ==
    plan # None =>
        /\ plan.operation \in DOMAIN Candidate
        /\ TierFitsMode(plan.tier, plan.mode)
        /\ plan.tier = Binding(plan.policy, plan.operation).tier

\* The signatures of d were valid for e against the registry kept with them.
SignedBy(d, e) ==
    \E s \in Signers :
        /\ d.signers = Range(s)
        /\ \A i \in DOMAIN s : \E a \in e.authorities :
              a.id = s[i] /\ d.registry[a.id].state = "active"
        /\ \A i, j \in DOMAIN s :
              i # j => d.registry[s[i]].identity # d.registry[s[j]].identity
        /\ e.groups \subseteq {d.registry[s[i]].group : i \in DOMAIN s}

\* A burn was made under the policy of the plan, whatever is loaded now; a row is past its
\* approval only after one.
BurnHolds ==
    /\ burn # None => plan # None /\ SignedBy(burn, Effective(plan.policy, plan.operation))
    /\ row = "AUTHORIZED" => burn # None

WriteHolds(d) ==
    /\ role = "server"
    /\ d.contract \in WriteContracts
    /\ d.mode = WriteMode(held, d.contract)
    /\ WriteAuthorized(held, d.contract, d.user, Tenant, d.at, Local)

EffectHolds(d) ==
    /\ role = "lab"
    /\ d.operation \in DOMAIN Candidate
    /\ Resolves(held, d.operation)
    /\ TierFitsMode(Binding(held, d.operation).tier, d.mode)
    /\ d.mode = EffectiveMode(held, d.operation)
    /\ SignedBy(d, Effective(held, d.operation))
    /\ plan.policy = held

DecisionHolds ==
    decision # None =>
        /\ decision.policy = held
        /\ decision.at \in Nat
        /\ decision.kind = "read" => Manifest[decision.contract].method = "GET"
        /\ decision.kind = "playbook" =>
              \A c \in Playbooks[decision.playbook].nodes : Manifest[c].method = "GET"
        /\ decision.kind = "write" => WriteHolds(decision)
        /\ decision.kind = "effect" => EffectHolds(decision)

IInv == now \in Nat /\ HeldUsable /\ PlanFits /\ BurnHolds /\ DecisionHolds

-----------------------------------------------------------------------------

\* Of the policies a server loads: no write contract is enabled in a read profile, and
\* nothing above T1 in routine-write.
LEMMA ServerProfiles ==
    ASSUME NEW p \in Usable["server"], NEW c \in p.profiles[p.active].contracts
    PROVE  /\ c \in DOMAIN Manifest
           /\ p.active \in ReadProfiles => Manifest[c].method = "GET"
           /\ p.active = "routine_write" => Manifest[c].tier \in {"T0", "T1"}
<1>1. Loadable(p) /\ FitsManifests(p)
  BY DEF Usable
<1>2. p.active \in ProfileNames
  BY <1>1 DEF Loadable, PolicyValid
<1> QED
  BY <1>1, <1>2 DEF FitsManifests, ProfilesFit

\* A document that governs operations has bindings that fit their tier.
LEMMA BindingFits ==
    ASSUME NEW p \in Usable["lab"], NEW op, Resolves(p, op)
    PROVE  /\ Binding(p, op) \in p.operations.bindings
           /\ Binding(p, op).mode \in DOMAIN Strength
           /\ Binding(p, op).tier \in DOMAIN TierStrength
           /\ BindingValid(Binding(p, op))
           /\ Binding(p, op).approvers \subseteq {a.id : a \in p.operations.authorities}
<1>1. p \in Documents /\ Loadable(p) /\ p.schema = 3
  BY DEF Usable, FitsLab
<1>2. p.operations # None /\ OperationsValid(p.operations)
  BY <1>1 DEF Loadable, SchemaValid
<1>3. Binding(p, op) \in p.operations.bindings
  BY DEF Resolves, Binding
<1>4. /\ Binding(p, op).mode \in DOMAIN Strength
      /\ Binding(p, op).tier \in DOMAIN TierStrength
  BY <1>1, <1>2, <1>3, DocumentsAssumption
<1> QED
  BY <1>2, <1>3, <1>4 DEF OperationsValid

\* A T3 plan stands for a binding of dual control: the effective mode is dual control and
\* at least as strong as the binding's, which is at least dual control.
LEMMA DualControlBinding ==
    ASSUME NEW p \in Usable["lab"], NEW op \in DOMAIN Candidate, Resolves(p, op),
           Candidate[op].tier = "T3",
           TierFitsMode(Binding(p, op).tier, EffectiveMode(p, op))
    PROVE  Several(Binding(p, op).groups)
<1> DEFINE b == Binding(p, op)
<1>1. /\ b.mode \in DOMAIN Strength
      /\ b.tier \in DOMAIN TierStrength
      /\ BindingValid(b)
  BY BindingFits
<1>2. TierStrength[b.tier] >= TierStrength["T3"]
  BY DEF Resolves
<1>3. b.tier \in {"T3", "T4"}
  BY <1>1, <1>2 DEF TierStrength
<1>4. b.tier = "T3" /\ EffectiveMode(p, op) = "dual_control"
  BY <1>3 DEF TierFitsMode
<1>5. AtLeast(b.mode, "dual_control")
  BY <1>1, <1>4 DEF BindingValid
<1>6. AtLeast("dual_control", b.mode)
  BY <1>4 DEF Resolves
<1>7. b.mode = "dual_control"
  BY <1>1, <1>5, <1>6 DEF AtLeast, Strength
<1> HIDE DEF b
<1> QED
  BY <1>1, <1>4, <1>7 DEF BindingValid, b

-----------------------------------------------------------------------------

LEMMA InitIInv == Init => IInv
BY GovernanceAssumption DEF Init, IInv, HeldUsable, PlanFits, BurnHolds, DecisionHolds

\* A decision that satisfies the conditions of its kind is one the invariant allows.
LEMMA DecideHolds ==
    ASSUME IInv, NEW d, decision' = d, d.policy = held, d.at = now,
           UNCHANGED <<now, role, held, registry, plan>>,
           d.kind = "read" => Manifest[d.contract].method = "GET",
           d.kind = "playbook" =>
               \A c \in Playbooks[d.playbook].nodes : Manifest[c].method = "GET",
           d.kind = "write" => WriteHolds(d),
           d.kind = "effect" => EffectHolds(d)
    PROVE  DecisionHolds'
<1>1. d.kind = "write" => WriteHolds(d)'
  BY DEF WriteHolds
<1>2. d.kind = "effect" => EffectHolds(d)'
  BY DEF EffectHolds, SignedBy
<1> QED
  BY <1>1, <1>2 DEF DecisionHolds, IInv

\* What decides only leaves private state alone.
LEMMA DecideIInv ==
    ASSUME IInv, NEW d, Decide(d), DecisionHolds'
    PROVE  IInv'
<1>1. UNCHANGED <<now, role, held, plan, row, burn>>
  BY DEF Decide, private
<1> QED
  BY <1>1 DEF IInv, HeldUsable, PlanFits, BurnHolds, SignedBy

\* The last decision does not depend on private state, but for the policy of the plan.
LEMMA DecisionKept ==
    ASSUME IInv, UNCHANGED <<role, held, decision>>, now' \in Nat,
           plan' = plan \/ plan'.policy = held
    PROVE  DecisionHolds'
BY DEF IInv, DecisionHolds, WriteHolds, EffectHolds, SignedBy

LEMMA NextIInv == IInv /\ [Next]_vars => IInv'
<1> SUFFICES ASSUME IInv, [Next]_vars PROVE IInv'
  OBVIOUS
<1>1. CASE Tick
  <2>1. now' \in Nat /\ UNCHANGED <<role, held, plan, row, burn, decision>>
    BY <1>1 DEF Tick, IInv, private
  <2>2. DecisionHolds'
    BY <2>1, DecisionKept
  <2> QED
    BY <2>1, <2>2 DEF IInv, HeldUsable, PlanFits, BurnHolds, SignedBy
<1>2. ASSUME NEW p \in Documents, NEW r, NEW kind \in {"server", "lab"}, Start(p, r, kind)
      PROVE  IInv'
  <2>1. /\ p \in Usable[kind] /\ role' = kind /\ held' = p /\ decision' = None
        /\ UNCHANGED <<now, plan, row, burn>>
    BY <1>2 DEF Start, private
  <2> QED
    BY <2>1 DEF IInv, HeldUsable, PlanFits, BurnHolds, SignedBy, DecisionHolds
<1>3. ASSUME NEW c \in DOMAIN Manifest, Read(c) PROVE IInv'
  <2> DEFINE d == [kind |-> "read", contract |-> c, policy |-> held, at |-> now]
  <2>1. Decide(d) /\ Manifest[c].method = "GET"
    BY <1>3 DEF Read, ReadAuthorized
  <2>2. d.kind = "read" /\ d.contract = c /\ d.policy = held /\ d.at = now
    OBVIOUS
  <2> HIDE DEF d
  <2>3. DecisionHolds'
    BY <2>1, <2>2, DecideHolds DEF Decide, private
  <2> QED
    BY <2>1, <2>3, DecideIInv
<1>4. ASSUME NEW b \in DOMAIN Playbooks, ReadPlaybook(b) PROVE IInv'
  <2> DEFINE d == [kind |-> "playbook", playbook |-> b, policy |-> held, at |-> now]
  <2>1. Decide(d) /\ \A c \in Playbooks[b].nodes : Manifest[c].method = "GET"
    BY <1>4 DEF ReadPlaybook, PlaybookAuthorized, ReadAuthorized
  <2>2. d.kind = "playbook" /\ d.playbook = b /\ d.policy = held /\ d.at = now
    OBVIOUS
  <2> HIDE DEF d
  <2>3. DecisionHolds'
    BY <2>1, <2>2, DecideHolds DEF Decide, private
  <2> QED
    BY <2>1, <2>3, DecideIInv
<1>5. ASSUME NEW c \in WriteContracts, NEW u \in Local, Write(c, u) PROVE IInv'
  <2> DEFINE d == [kind |-> "write", contract |-> c, user |-> u, policy |-> held, at |-> now,
                   mode |-> WriteMode(held, c)]
  <2>1. Decide(d) /\ role = "server" /\ WriteAuthorized(held, c, u, Tenant, now, Local)
    BY <1>5 DEF Write
  <2>2. /\ d.kind = "write" /\ d.contract = c /\ d.user = u /\ d.policy = held
        /\ d.at = now /\ d.mode = WriteMode(held, c)
    OBVIOUS
  <2> HIDE DEF d
  <2>3. WriteHolds(d)
    BY <2>1, <2>2 DEF WriteHolds
  <2>4. DecisionHolds'
    BY <2>1, <2>2, <2>3, DecideHolds DEF Decide, private
  <2> QED
    BY <2>1, <2>4, DecideIInv
<1>6. ASSUME NEW op \in DOMAIN Candidate, BuildPlan(op) PROVE IInv'
  <2> DEFINE e == Effective(held, op)
             pl == [operation |-> op, policy |-> held, tier |-> e.tier, mode |-> e.mode,
                    from |-> now, until |-> now + PlanLife]
  <2>1. /\ plan' = pl /\ row' = "AWAITING_APPROVAL" /\ burn' = None
        /\ TierFitsMode(e.tier, e.mode)
        /\ UNCHANGED <<now, role, held, decision>>
    BY <1>6 DEF BuildPlan
  <2>2. e.tier = Binding(held, op).tier
    BY DEF Effective
  <2>3. /\ pl.operation = op /\ pl.policy = held /\ pl.tier = e.tier /\ pl.mode = e.mode
    OBVIOUS
  <2> HIDE DEF e, pl
  <2>4. PlanFits'
    BY <2>1, <2>2, <2>3 DEF PlanFits
  <2>5. DecisionHolds'
    BY <2>1, <2>3, DecisionKept DEF IInv
  <2>6. BurnHolds'
    BY <2>1 DEF BurnHolds
  <2> QED
    BY <2>1, <2>4, <2>5, <2>6 DEF IInv, HeldUsable
<1>7. ASSUME NEW s \in Signers, Burn(s) PROVE IInv'
  <2> DEFINE e == Effective(held, plan.operation)
             b == [signers |-> Range(s), registry |-> registry]
  <2>1. /\ row = "AWAITING_APPROVAL" /\ plan # None /\ burn' = b
        /\ PlanMatches(plan, e) /\ Approved(plan, e, s)
        /\ UNCHANGED <<now, role, held, plan, row, decision>>
    BY <1>7 DEF Burn, Governed
  <2>2. b.signers = Range(s) /\ b.registry = registry
    OBVIOUS
  <2>3. e.policy = held
    BY DEF Effective
  <2>4. plan.policy = held
    BY <2>1, <2>3 DEF PlanMatches
  <2> HIDE DEF e, b
  <2>5. SignedBy(b, e)
    BY <2>1, <2>2 DEF SignedBy, Approved
  <2>6. SignedBy(burn, Effective(plan.policy, plan.operation))'
    BY <2>1, <2>4, <2>5 DEF SignedBy, e
  <2>7. BurnHolds'
    BY <2>1, <2>6 DEF BurnHolds
  <2>8. DecisionHolds'
    BY <2>1, DecisionKept DEF IInv
  <2> QED
    BY <2>1, <2>7, <2>8 DEF IInv, HeldUsable, PlanFits
<1>8. CASE Promote
  <2>1. /\ burn # None
        /\ UNCHANGED <<now, role, held, plan, burn, decision>>
    BY <1>8 DEF Promote
  <2>2. DecisionHolds'
    BY <2>1, DecisionKept DEF IInv
  <2> QED
    BY <2>1, <2>2 DEF IInv, HeldUsable, PlanFits, BurnHolds, SignedBy
<1>9. CASE AuthorizeEffect
  <2> DEFINE op == plan.operation
             e == Effective(held, op)
             d == [kind |-> "effect", operation |-> op, mode |-> plan.mode,
                   signers |-> burn.signers, registry |-> burn.registry,
                   policy |-> held, at |-> now]
  <2>1. /\ row = "AUTHORIZED" /\ row' # "AUTHORIZED"
        /\ role = "lab" /\ plan # None /\ Resolves(held, op) /\ PlanMatches(plan, e)
        /\ decision' = d \/ decision' = decision
        /\ UNCHANGED <<now, role, held, registry, plan, burn>>
    BY <1>9 DEF AuthorizeEffect, Governed
  <2>2. /\ d.kind = "effect" /\ d.operation = op /\ d.mode = plan.mode
        /\ d.signers = burn.signers /\ d.registry = burn.registry
        /\ d.policy = held /\ d.at = now
    OBVIOUS
  <2>3. /\ e.policy = held /\ e.mode = EffectiveMode(held, op)
    BY DEF Effective
  <2> HIDE DEF d
  <2>4. /\ op \in DOMAIN Candidate /\ plan.policy = held
        /\ plan.mode = EffectiveMode(held, op)
    BY <2>1, <2>3 DEF PlanMatches, IInv, PlanFits
  <2>5. TierFitsMode(Binding(held, op).tier, plan.mode)
    BY <2>1, <2>4 DEF IInv, PlanFits
  <2>6. SignedBy(burn, e)
    BY <2>1, <2>4 DEF IInv, BurnHolds
  <2>7. SignedBy(d, e)
    <3> HIDE DEF e
    <3> QED
      BY <2>2, <2>6 DEF SignedBy
  <2>8. EffectHolds(d)
    BY <2>1, <2>2, <2>4, <2>5, <2>7 DEF EffectHolds
  <2>9. DecisionHolds'
    <3>1. CASE decision' = d
      BY <2>1, <2>2, <2>8, <3>1, DecideHolds
    <3>2. CASE decision' = decision
      BY <2>1, <3>2, DecisionKept DEF IInv
    <3> QED
      BY <2>1, <3>1, <3>2
  <2> QED
    BY <2>1, <2>9 DEF IInv, HeldUsable, PlanFits, BurnHolds, SignedBy
<1>10. CASE UNCHANGED vars
  BY <1>10 DEF vars, private, IInv, HeldUsable, PlanFits, BurnHolds, DecisionHolds,
               WriteHolds, EffectHolds, SignedBy
<1> QED
  BY <1>1, <1>2, <1>3, <1>4, <1>5, <1>6, <1>7, <1>8, <1>9, <1>10
  DEF Next, StartServer, StartLab

\* The inductive invariant holds of every behaviour.
THEOREM Invariance == Spec => []IInv
BY InitIInv, NextIInv, PTL DEF Spec

-----------------------------------------------------------------------------

\* No effect is authorized under a read profile, none above T1 under routine-write, and
\* what is authorized as a read reads: authorize does not look at the kind of profile,
\* the checks at start have to be enough.
THEOREM WriteProfilesTheorem == Spec => []EffectsOnlyFromWriteProfiles
<1>1. IInv => EffectsOnlyFromWriteProfiles
  <2> SUFFICES ASSUME IInv, decision # None PROVE EffectsOnlyFromWriteProfiles
    BY DEF EffectsOnlyFromWriteProfiles
  <2>1. decision.policy = held
    BY DEF IInv, DecisionHolds
  <2>2. CASE decision.kind = "write"
    <3>1. WriteHolds(decision)
      BY <2>2 DEF IInv, DecisionHolds
    <3>2. held \in Usable["server"] /\ decision.contract \in held.profiles[held.active].contracts
      BY <3>1 DEF IInv, HeldUsable, WriteHolds, WriteAuthorized, Active
    <3>3. Manifest[decision.contract].method # "GET"
      BY <3>1 DEF WriteHolds, WriteContracts
    <3> QED
      BY <2>1, <2>2, <3>2, <3>3, ServerProfiles DEF EffectsOnlyFromWriteProfiles
  <2>3. CASE decision.kind = "effect"
    <3>1. held \in Usable["lab"]
      BY <2>3 DEF IInv, DecisionHolds, EffectHolds, HeldUsable
    <3>2. held.active = "selected_write"
      BY <3>1 DEF Usable, FitsLab
    <3> QED
      BY <2>1, <2>3, <3>2 DEF EffectsOnlyFromWriteProfiles, ReadProfiles
  <2>4. CASE decision.kind \notin {"write", "effect"}
    BY <2>4 DEF EffectsOnlyFromWriteProfiles, IInv, DecisionHolds
  <2> QED
    BY <2>2, <2>3, <2>4
<1> QED
  BY <1>1, Invariance, PTL

\* Whatever a tenant signs, a decision is at least as strong as the compiled floor and,
\* for an operation, as its binding.
THEOREM NoDowngradeTheorem == Spec => []NoDowngrade
<1>1. IInv => NoDowngrade
  <2> SUFFICES ASSUME IInv, decision # None PROVE NoDowngrade
    BY DEF NoDowngrade
  <2>1. decision.policy = held
    BY DEF IInv, DecisionHolds
  <2>2. CASE decision.kind = "write"
    <3>1. WriteHolds(decision)
      BY <2>2 DEF IInv, DecisionHolds
    <3> QED
      BY <2>2, <3>1 DEF NoDowngrade, WriteHolds, WriteAuthorized, AtLeast
  <2>3. CASE decision.kind = "effect"
    <3>1. EffectHolds(decision) /\ held \in Usable["lab"]
      BY <2>3 DEF IInv, DecisionHolds, EffectHolds, HeldUsable
    <3> DEFINE op == decision.operation
               m == decision.mode
               b == Binding(held, op)
    <3>3. b.mode \in DOMAIN Strength
      BY <3>1, BindingFits DEF EffectHolds
    <3>4. op \in DOMAIN Candidate
      BY <3>1 DEF EffectHolds
    <3>6. Candidate[op].mode \in DOMAIN Strength
      BY <3>4, GovernanceAssumption
    <3>7. m \in {"explicit_plan", "dual_control"}
      BY <3>1 DEF EffectHolds, TierFitsMode
    <3>8. Strength[b.mode] >= Strength[Candidate[op].mode] /\ Strength[m] >= Strength[b.mode]
      BY <3>1 DEF EffectHolds, Resolves, AtLeast
    <3>9. \A x \in DOMAIN Strength : Strength[x] \in Nat
      BY DEF Strength
    <3>10. Strength[m] \in Nat
      BY <3>7 DEF Strength
    <3>11. Strength[m] >= Strength[Candidate[op].mode]
      BY <3>3, <3>6, <3>8, <3>9, <3>10
    <3> QED
      BY <2>1, <2>3, <3>8, <3>11 DEF NoDowngrade
  <2>4. CASE decision.kind \notin {"write", "effect"}
    BY <2>4 DEF NoDowngrade
  <2> QED
    BY <2>2, <2>3, <2>4
<1> QED
  BY <1>1, Invariance, PTL

\* An operation compiled as T3 has an effect only on the signatures of two authorities of
\* different identities and groups, active when their approvals were burned, whom the
\* policy at the effect names; also when the process that burned them is long gone.
THEOREM TwoGroupsTheorem == Spec => []TwoGroupsForT3
<1>1. IInv => TwoGroupsForT3
  <2> SUFFICES ASSUME IInv, decision # None, decision.kind = "effect",
                      Candidate[decision.operation].tier = "T3"
               PROVE  TwoGroupsForT3
    BY DEF TwoGroupsForT3
  <2> DEFINE op == decision.operation
             b == Binding(held, op)
             r == decision.registry
             e == Effective(held, op)
  <2>1. /\ decision.policy = held /\ EffectHolds(decision) /\ held \in Usable["lab"]
    BY DEF IInv, DecisionHolds, EffectHolds, HeldUsable
  <2>5. Several(b.groups)
    BY <2>1, DualControlBinding DEF EffectHolds
  <2>6. /\ e.groups = b.groups
        /\ e.authorities = {a \in held.operations.authorities : a.id \in b.approvers}
    BY DEF Effective
  <2> HIDE DEF e, b, r, op
  <2>7. PICK s \in Signers :
          /\ decision.signers = Range(s)
          /\ \A i \in DOMAIN s : \E a \in e.authorities :
                a.id = s[i] /\ r[a.id].state = "active"
          /\ \A i, j \in DOMAIN s :
                i # j => r[s[i]].identity # r[s[j]].identity
          /\ e.groups \subseteq {r[s[i]].group : i \in DOMAIN s}
    BY <2>1 DEF EffectHolds, SignedBy, e, r, op
  <2>8. PICK g, h \in e.groups : g # h
    BY <2>5, <2>6 DEF Several
  <2>9. PICK i, j \in DOMAIN s : r[s[i]].group = g /\ r[s[j]].group = h
    BY <2>7, <2>8
  <2>10. i # j
    BY <2>8, <2>9
  <2>11. r[s[i]].identity # r[s[j]].identity
    BY <2>7, <2>10
  <2>12. /\ r[s[i]].state = "active" /\ r[s[j]].state = "active"
         /\ {s[i], s[j]} \subseteq {x.id : x \in held.operations.authorities}
    BY <2>6, <2>7
  <2>13. s[i] \in decision.signers /\ s[j] \in decision.signers
    BY <2>7 DEF Range
  <2> QED
    BY <2>1, <2>8, <2>9, <2>11, <2>12, <2>13 DEF TwoGroupsForT3, r
<1> QED
  BY <1>1, Invariance, PTL

\* An old plan does not survive a change of policy: it is executed as what the loaded
\* policy makes of the operation, or not at all.
THEOREM PlanFollowsPolicyTheorem == Spec => []PlanFollowsPolicy
<1>1. IInv => PlanFollowsPolicy
  BY DEF IInv, DecisionHolds, EffectHolds, PlanFollowsPolicy
<1> QED
  BY <1>1, Invariance, PTL

\* Emergency accounts are never written to, and an active break-glass policy authorizes
\* nothing past its TTL.
THEOREM EmergencyTheorem == Spec => []EmergencyIsFenced
<1>1. IInv => EmergencyIsFenced
  <2> SUFFICES ASSUME IInv, decision # None, decision.kind = "write"
               PROVE  EmergencyIsFenced
    BY DEF EmergencyIsFenced
  <2>1. /\ decision.policy = held /\ decision.at \in Nat /\ WriteHolds(decision)
    BY DEF IInv, DecisionHolds
  <2>2. /\ held \in Documents /\ ResourcesValid(held) /\ PolicyValid(held)
    BY <2>1 DEF IInv, HeldUsable, WriteHolds, Usable, Loadable
  <2>3. decision.user \notin held.special
    BY <2>1, <2>2 DEF WriteHolds, WriteAuthorized, ResourcesValid
  <2>4. ASSUME held.active = "break_glass"
        PROVE  decision.at < held.issued + Active(held).ttl
    <3> DEFINE ttl == held.profiles["break_glass"].ttl
    <3>1. /\ held.expires # None /\ held.expires <= held.issued + ttl
          /\ "break_glass" \in DOMAIN held.profiles
      BY <2>2, <2>4 DEF PolicyValid, BreakGlassValid, ProfileNames
    <3>2. ttl # None
      BY <2>2, <3>1 DEF PolicyValid, BreakGlassValid
    <3>3. /\ held.issued \in Nat /\ held.expires \in Nat /\ ttl \in Nat
      BY <2>2, <3>1, <3>2, DocumentsAssumption
    <3>4. ~(held.expires <= decision.at)
      BY <2>1, <3>1 DEF WriteHolds, WriteAuthorized, Expired
    <3>5. Active(held).ttl = ttl
      BY <2>4 DEF Active
    <3> HIDE DEF ttl
    <3> QED
      BY <2>1, <3>1, <3>3, <3>4, <3>5
  <2> QED
    BY <2>1, <2>3, <2>4 DEF EmergencyIsFenced
<1> QED
  BY <1>1, Invariance, PTL
=============================================================================
