--------------------------- MODULE GovernanceRules ---------------------------
(***************************************************************************)
(* The signed tenant policy (governance.py): what a document must satisfy  *)
(* to be read, what it must satisfy to be used with the compiled contract, *)
(* playbook and control manifests, and what it then authorizes.            *)
(*                                                                         *)
(* A policy is a record.  Identifiers, digests and keys are opaque: a      *)
(* policy "binds" a manifest by naming it, and binds another one otherwise.*)
(* The documents are sets and functions, so that ordering and uniqueness   *)
(* of lists is not modelled.                                               *)
(***************************************************************************)
EXTENDS Naturals, FiniteSets, Functions

CONSTANTS
    Manifest,    \* contract id -> [method, tier, mode]
    Playbooks,   \* playbook id -> [tier, mode, writes, nodes]
    Candidate,   \* contract id of schema 2 -> [digest, effect, tier, mode, verification,
                 \*                             safety, fences, synthetic]
    Controls,    \* control id -> [major, retired, age, kinds]
    Day,         \* length of the day a write window is a part of
    None

Strength == [automatic_read |-> 0, standing_policy |-> 1, explicit_plan |-> 2,
             dual_control |-> 3, break_glass_only |-> 4, prohibited |-> 5]

\* Mutant of AtLeast: the operands are swapped.
AtLeastSwapped(mode, floor) == Strength[floor] >= Strength[mode]

AtLeast(mode, floor) == Strength[mode] >= Strength[floor]

ReadProfiles == {"routine_read", "privileged_read"}
ProfileNames == ReadProfiles \cup {"routine_write", "selected_write", "break_glass"}

TierStrength == [T0 |-> 0, T1 |-> 1, T2 |-> 2, T3 |-> 3, T4 |-> 4]

-----------------------------------------------------------------------------
(* What a document must satisfy to be read. *)

ResourcesValid(p) ==
    /\ p.protected \subseteq p.users
    /\ p.special \subseteq p.protected
    /\ p.protectedGroups \subseteq p.groups

\* Only the break-glass profile has a TTL; while it is active the policy ends within it.
BreakGlassValid(p) ==
    /\ \A n \in DOMAIN p.profiles : (n = "break_glass") <=> (p.profiles[n].ttl # None)
    /\ p.active = "break_glass" =>
           /\ p.expires # None
           /\ p.expires <= p.issued + p.profiles["break_glass"].ttl

Principals(targets) == {t.principal : t \in targets}
Applications(targets) == {t.application : t \in targets}

\* Controls of one credential, and of the application as a whole.
KeyControls == {"invalid_window", "no_expiry", "expired", "expiring", "password_prohibited"}
ApplicationControls == {"owner_count", "active_passwords", "active_keys"}

\* One target for each object.
OneEach(targets, key) == \A t, u \in targets : t[key] = u[key] => t = u

\* A baseline is captured before the policy is issued, its targets are inside the fences,
\* its exceptions are of its targets, and select a credential where the control is of one.
BaselinesValid(p) ==
    /\ p.posture # None => p.posture.captured <= p.issued
    /\ p.drift # None =>
          /\ OneEach(p.drift.targets, "principal")
          /\ Principals(p.drift.targets) \subseteq p.principals
          /\ Principals(p.drift.exceptions) \subseteq Principals(p.drift.targets)
          /\ \A x \in p.drift.exceptions : (x.kind = "application") <=> (x.consent = None)
    /\ p.credentials # None =>
          /\ OneEach(p.credentials.targets, "application")
          /\ Applications(p.credentials.targets) \subseteq p.applications
          /\ Applications(p.credentials.exceptions) \subseteq Applications(p.credentials.targets)
          /\ \A t \in p.credentials.targets : t.passwords \/ t.maximum.password = 0
          /\ \A x \in p.credentials.exceptions :
                /\ x.control \in KeyControls \cup ApplicationControls
                /\ (x.control \in KeyControls) <=> (x.key # None)
    /\ p.debt # None =>
          \A x, y \in p.debt.exceptions :
              x.control = y.control /\ x.subject = y.subject => x = y

PolicyValid(p) ==
    /\ p.tenants = {p.tenant}
    /\ DOMAIN p.profiles = ProfileNames
    /\ p.active \in ProfileNames
    /\ (\E n \in ProfileNames : p.profiles[n].playbooks # {}) => p.boundPlaybooks # None
    /\ p.expires # None => p.expires > p.issued
    /\ BreakGlassValid(p)
    /\ BaselinesValid(p)

\* A selector is one object, one profile or the whole control.
Selector(x) == <<x.kind, x.object>>

\* Every exception is for an enabled control of the same major version; two exceptions
\* of one control never cover the same subject, whenever they are in force.
LibraryValid(l) ==
    /\ \A x \in l.exceptions :
          /\ x.control \in DOMAIN l.controls
          /\ x.major = l.controls[x.control].major
          /\ x.expires > x.issued
    /\ \A x, y \in l.exceptions :
          x # y /\ x.control = y.control =>
              /\ Selector(x) # Selector(y)
              /\ "control_wide" \notin {x.kind, y.kind}

Fence(p, kind) ==
    CASE kind = "user" -> p.users
      [] kind = "group" -> p.groups
      [] kind = "application" -> p.applications
      [] kind = "service_principal" -> p.principals
      [] kind = "profile" -> {p.active}

ExceptionsFenced(p) ==
    \A x \in p.library.exceptions :
        /\ x.issued <= p.issued
        /\ IF x.kind = "control_wide"
           THEN p.library.controls[x.control].wide
           ELSE x.object \in Fence(p, x.kind)

Several(S) == \E x, y \in S : x # y

BindingValid(b) ==
    /\ b.approvers # {} /\ b.groups # {} /\ b.fences # {}
    /\ IF b.tier = "T4" THEN b.mode = "prohibited"
       ELSE /\ b.tier \in {"T2", "T3"}
            /\ AtLeast(b.mode, IF b.tier = "T2" THEN "explicit_plan" ELSE "dual_control")
            /\ b.mode = "explicit_plan" => Cardinality(b.groups) = 1
            /\ b.mode = "dual_control" => Several(b.approvers) /\ Several(b.groups)
            /\ b.verification # "not_verifiable"

\* One identity, one key and one fingerprint per authority; bindings by operation id.
OperationsValid(o) ==
    /\ \A a, c \in o.authorities :
          a # c => /\ a.id # c.id /\ a.identity # c.identity /\ a.key # c.key
    /\ \A b, c \in o.bindings : b.operation = c.operation => b = c
    /\ \A b \in o.bindings :
          BindingValid(b) /\ b.approvers \subseteq {a.id : a \in o.authorities}

SchemaValid(p) ==
    /\ p.schema = 1 => p.library = None /\ p.operations = None
    /\ p.schema = 2 => p.operations = None /\ p.library # None
    /\ p.schema = 3 =>
          /\ p.operations # None
          /\ OperationsValid(p.operations)
          /\ p.operations.boundContracts = p.boundContracts
          /\ p.operations.boundEffects = "effects"
          /\ \A b \in p.operations.bindings :
                \E n \in ProfileNames : b.operation \in p.profiles[n].contracts
    /\ p.library # None => LibraryValid(p.library) /\ ExceptionsFenced(p)

\* load_verified_governance_policy: signed by the deployment's key, and well formed.
Loadable(p) ==
    /\ p.signed
    /\ ResourcesValid(p)
    /\ PolicyValid(p)
    /\ SchemaValid(p)

-----------------------------------------------------------------------------
(* What a document must satisfy to be used with the installed manifests. *)

\* Mutant of ProfilesFit: the read profiles may enable writes.
ProfilesFitWrites(p) ==
    \A n \in ProfileNames : \A c \in p.profiles[n].contracts :
        /\ c \in DOMAIN Manifest
        /\ n = "routine_write" => Manifest[c].tier \in {"T0", "T1"}
        /\ Manifest[c].tier # "T4"

ProfilesFit(p) ==
    \A n \in ProfileNames : \A c \in p.profiles[n].contracts :
        /\ c \in DOMAIN Manifest
        /\ n \in ReadProfiles => Manifest[c].method = "GET"
        /\ n = "routine_write" => Manifest[c].tier \in {"T0", "T1"}
        /\ Manifest[c].tier # "T4"

ReadsOnly(b) ==
    /\ Playbooks[b].tier = "T0"
    /\ Playbooks[b].mode = "automatic_read"
    /\ ~Playbooks[b].writes

PlaybooksFit(p) ==
    \A n \in ProfileNames : \A b \in p.profiles[n].playbooks :
        /\ b \in DOMAIN Playbooks
        /\ n = "privileged_read"
        /\ ReadsOnly(b)
        /\ Playbooks[b].nodes \subseteq p.profiles[n].contracts
        /\ p.boundPlaybooks = "playbooks"

\* The debt evaluation needs the drift evaluation and the baselines of both.
DebtFits(p) ==
    (\E n \in ProfileNames : "debt" \in p.profiles[n].contracts) =>
        /\ {n \in ProfileNames : "debt" \in p.profiles[n].contracts} = {"privileged_read"}
        /\ "drift" \in p.profiles["privileged_read"].contracts
        /\ p.drift # None /\ p.debt # None

OverridesFit(p) ==
    \A c \in DOMAIN p.overrides :
        c \in DOMAIN Manifest /\ AtLeast(p.overrides[c], Manifest[c].mode)

DriftFits(p) ==
    p.drift # None =>
        \A t \in p.drift.targets : \A c \in t.contracts :
            c \in DOMAIN Manifest /\ Manifest[c].tier # "T4"

\* resolve_control_library_configuration: the same manifest and compatibility metadata,
\* known controls in force, of the same major version, no older evidence than the
\* library allows, and exceptions for subjects the control can have.
LibraryResolves(l) ==
    /\ l.boundControls = "controls" /\ l.boundCompatibility = "compatibility"
    /\ \A c \in DOMAIN l.controls :
          /\ c \in DOMAIN Controls
          /\ ~Controls[c].retired
          /\ l.controls[c].major = Controls[c].major
          /\ l.controls[c].age # None => l.controls[c].age <= Controls[c].age
    /\ \A x \in l.exceptions :
          x.kind # "control_wide" => x.kind \in Controls[x.control].kinds

\* create_server: the policy names the installed manifests and fits them.
FitsManifests(p) ==
    /\ p.boundContracts = "contracts"
    /\ ProfilesFit(p) /\ PlaybooksFit(p) /\ DebtFits(p)
    /\ OverridesFit(p) /\ DriftFits(p)
    /\ p.library # None => LibraryResolves(p.library)

-----------------------------------------------------------------------------
(* What a policy authorizes. *)

Expired(p, t) == p.expires # None /\ p.expires <= t

Active(p) == p.profiles[p.active]

Override(p, c, mode) == IF c \in DOMAIN p.overrides THEN p.overrides[c] ELSE mode

ReadAuthorized(p, c, tenant, t) ==
    /\ p.tenant = tenant
    /\ ~Expired(p, t)
    /\ p.active \in ReadProfiles
    /\ c \in Active(p).contracts
    /\ Manifest[c].method = "GET"
    /\ AtLeast(Override(p, c, Manifest[c].mode), Manifest[c].mode)
    /\ Override(p, c, Manifest[c].mode) = "automatic_read"

DriftAuthorized(p, tenant, t, local) ==
    /\ ReadAuthorized(p, "drift", tenant, t)
    /\ p.drift # None
    /\ Principals(p.drift.targets) \subseteq local

CredentialsAuthorized(p, tenant, t, local) ==
    /\ ReadAuthorized(p, "credentials", tenant, t)
    /\ p.credentials # None
    /\ Cardinality(p.credentials.targets) <= Active(p).limit
    /\ Applications(p.credentials.targets) \subseteq local

DebtAuthorized(p, tenant, t) ==
    /\ ReadAuthorized(p, "debt", tenant, t)
    /\ p.debt # None /\ p.drift # None

PlaybookAuthorized(p, b, tenant, t) ==
    /\ p.active = "privileged_read"
    /\ b \in Active(p).playbooks
    /\ ReadsOnly(b)
    /\ \A c \in Playbooks[b].nodes : ReadAuthorized(p, c, tenant, t)
    /\ p.drift # None /\ p.credentials # None
    /\ p.tenant = tenant /\ ~Expired(p, t)

\* A window that ends before it starts spans midnight.
InWriteWindow(w, t) ==
    w # None =>
        LET minute == t % Day
        IN  IF w.from < w.until
            THEN w.from <= minute /\ minute < w.until
            ELSE minute >= w.from \/ minute < w.until

WriteMode(p, c) == Override(p, c, Manifest[c].mode)

WriteAuthorized(p, c, u, tenant, t, local) ==
    /\ p.tenant = tenant
    /\ ~Expired(p, t)
    /\ c \in Active(p).contracts
    /\ InWriteWindow(Active(p).window, t)
    /\ u \in p.users /\ u \in local /\ u \notin p.protected
    /\ AtLeast(WriteMode(p, c), Manifest[c].mode)
    /\ WriteMode(p, c) \notin {"automatic_read", "prohibited"}

-----------------------------------------------------------------------------
(* Operations of schema 2. *)

Binding(p, op) == CHOOSE b \in p.operations.bindings : b.operation = op

EffectiveMode(p, op) == Override(p, op, Binding(p, op).mode)

\* resolve_operation_governance: the binding is of the compiled contract as it is and
\* nowhere weaker; neither expiry nor tenant nor window is looked at here.
Resolves(p, op) ==
    /\ p.schema = 3 /\ p.boundContracts = "candidate"
    /\ \E b \in p.operations.bindings : b.operation = op
    /\ op \in Active(p).contracts
    /\ LET b == Binding(p, op)
           c == Candidate[op]
       IN  /\ b.digest = c.digest /\ b.effect = c.effect
           /\ TierStrength[b.tier] >= TierStrength[c.tier]
           /\ AtLeast(b.mode, c.mode) /\ AtLeast(EffectiveMode(p, op), b.mode)
           /\ b.verification = c.verification
           /\ ~c.synthetic => b.safety = c.safety
           /\ b.async = "required" => b.verification \in {"async_status", "resource_observed"}
           /\ b.fences \subseteq c.fences
           /\ b.fences \cap {"user", "group", "device", "policy"} # {} => b.excludes

\* EffectiveOperationGovernance: the tier and groups of the binding, the effective mode.
Effective(p, op) ==
    LET b == Binding(p, op)
    IN  [operation |-> op, policy |-> p, profile |-> p.active, effect |-> b.effect,
         tier |-> b.tier, mode |-> EffectiveMode(p, op), verification |-> b.verification,
         authorities |-> {a \in p.operations.authorities : a.id \in b.approvers},
         groups |-> b.groups]
=============================================================================
