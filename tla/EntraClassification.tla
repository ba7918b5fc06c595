-------------------------- MODULE EntraClassification --------------------------
(***************************************************************************)
(* What the read-only Entra evaluations conclude from evidence: permission *)
(* grants (entra_permission_drift.py), application credentials             *)
(* (entra_app_credentials.py), identity-governance posture                 *)
(* (entra_posture.py), profile debt (entra_profile_debt.py) and the        *)
(* workload readiness that combines the first two                          *)
(* (entra_workload_readiness.py).                                          *)
(*                                                                         *)
(* Evidence e is a function from a source to the set of records read from  *)
(* it.  A finding is a control, a subject and an alignment.  The digest of *)
(* a posture domain stands for its set of records, the opaque reference of *)
(* a workload for the client id it is derived from; severities and texts   *)
(* are left out.                                                           *)
(***************************************************************************)
EXTENDS GovernanceRules

CONSTANTS
    Graph,       \* Microsoft Graph as a resource
    ClientId,    \* service principal or application object -> client id
    Client,      \* client id of the server's own registration
    Runtime,     \* resource kind -> what the local settings allow
    Consumers,   \* resource kind -> contracts that use resources of it
    Ambient      \* scopes of every token

Domains == {"conditional_access", "permanent", "active", "eligible"}

Finding(control, subject, alignment) ==
    [control |-> control, subject |-> subject, alignment |-> alignment]

\* Mutant of Unexpired: an exception still counts at the moment it expires.
UnexpiredLate(exceptions, t) == {x \in exceptions : x.expires >= t}

Unexpired(exceptions, t) == {x \in exceptions : x.expires > t}

Verdict(excused) == IF excused THEN "exception_approved" ELSE "not_aligned"

Overall(findings) ==
    IF \E f \in findings : f.alignment = "not_aligned" THEN "not_aligned"
    ELSE IF \E f \in findings : f.alignment = "exception_approved" THEN "exception_approved"
    ELSE "aligned"

-----------------------------------------------------------------------------
(* Permission grants.  A grant is [resource, permission, consent]; an       *)
(* application permission has no consent type and is never expected.        *)

ExpectedScopes(t) == {"User.Read"} \cup UNION {Manifest[c].scopes : c \in t.contracts}

Expected(t, g) == g.resource = Graph /\ g.permission \in ExpectedScopes(t)

\* The exception is for the grant as it is, of the same kind.
GrantExcused(t, g, kind, exceptions) ==
    \E x \in exceptions :
        /\ x.principal = t.principal /\ x.kind = kind
        /\ x.resource = g.resource /\ x.permission = g.permission
        /\ x.consent = g.consent

Unexpected(t, g, kind, control, exceptions) ==
    Finding(control, <<t.principal, g.resource, g.permission, g.consent>>,
            Verdict(GrantExcused(t, g, kind, exceptions)))

DriftFindings(t, e, exceptions) ==
    LET delegated == e[<<"delegated", t.principal>>]
    IN  {Finding("expected_missing", <<t.principal, Graph, s, None>>, "not_aligned") :
            s \in {s \in ExpectedScopes(t) :
                      \A g \in delegated : ~(g.resource = Graph /\ g.permission = s)}}
        \cup {Unexpected(t, g, "delegated", IF Expected(t, g) THEN "consent_type_mismatch"
                                            ELSE "delegated_unexpected", exceptions) :
                g \in {g \in delegated : ~(Expected(t, g) /\ g.consent \in t.consents)}}
        \cup {Unexpected(t, g, "application", "application_unexpected", exceptions) :
                g \in e[<<"roles", t.principal>>]}

DriftReport(p, e, now) ==
    LET Findings(t) == DriftFindings(t, e, Unexpired(p.drift.exceptions, now))
    IN  [targets |-> {[workload |-> ClientId[t.principal], contracts |-> t.contracts,
                       alignment |-> Overall(Findings(t))] : t \in p.drift.targets},
         findings |-> UNION {Findings(t) : t \in p.drift.targets}]

-----------------------------------------------------------------------------
(* Application credentials.  A credential is [kind, key, start, end]. *)

ActiveAt(c, now) ==
    (c.start = None \/ c.start <= now) /\ (c.end = None \/ c.end > now)

\* Mutant of Breaches: only active credentials are looked at for a missing expiry.
BreachesOfActive(control, t, c, now) ==
    CASE control = "invalid_window" -> c.start # None /\ c.end # None /\ c.end <= c.start
      [] control = "no_expiry" -> c.end = None /\ ActiveAt(c, now)
      [] control = "expired" -> c.end # None /\ c.end <= now
      [] control = "expiring" -> ActiveAt(c, now) /\ c.end # None /\ c.end <= now + t.warning
      [] control = "password_prohibited" -> c.kind = "password" /\ ~t.passwords

Breaches(control, t, c, now) ==
    CASE control = "invalid_window" -> c.start # None /\ c.end # None /\ c.end <= c.start
      [] control = "no_expiry" -> c.end = None
      [] control = "expired" -> c.end # None /\ c.end <= now
      [] control = "expiring" -> ActiveAt(c, now) /\ c.end # None /\ c.end <= now + t.warning
      [] control = "password_prohibited" -> c.kind = "password" /\ ~t.passwords

\* An exception without a key is for the application as a whole.
CredentialExcused(t, control, key, exceptions) ==
    \E x \in exceptions : /\ x.application = t.application /\ x.control = control
                          /\ x.key \in {None, key}

BrokenControls(t, e, now) ==
    LET InUse(kind) ==
            Cardinality({c \in e[<<"application", t.application>>] :
                            c.kind = kind /\ ActiveAt(c, now)})
    IN  {control \in ApplicationControls :
            CASE control = "owner_count" ->
                     Cardinality(e[<<"owners", t.application>>]) < t.owners
              [] control = "active_passwords" ->
                     t.passwords /\ InUse("password") > t.maximum.password
              [] control = "active_keys" -> InUse("key") > t.maximum.key}

CredentialFindings(t, e, exceptions, now) ==
    {Finding(control, <<t.application>>, Verdict(CredentialExcused(t, control, None, exceptions))) :
        control \in BrokenControls(t, e, now)}
    \cup UNION {{Finding(control, <<t.application, c.kind, c.key>>,
                         Verdict(CredentialExcused(t, control, <<c.kind, c.key>>, exceptions))) :
                    control \in {k \in KeyControls : Breaches(k, t, c, now)}} :
                c \in e[<<"application", t.application>>]}

CredentialReport(p, e, now) ==
    LET Findings(t) ==
            CredentialFindings(t, e, Unexpired(p.credentials.exceptions, now), now)
    IN  [targets |-> {[workload |-> ClientId[t.application],
                       alignment |-> Overall(Findings(t))] : t \in p.credentials.targets},
         findings |-> UNION {Findings(t) : t \in p.credentials.targets}]

-----------------------------------------------------------------------------
(* Readiness of workload identities: a workload is known from either report. *)

\* Mutant of Combined: what was not evaluated does not count.
CombinedKnown(a, b) ==
    IF "not_aligned" \in {a, b} THEN "not_aligned"
    ELSE IF "exception_approved" \in {a, b} THEN "exception_approved"
    ELSE "aligned"

Combined(a, b) ==
    IF "not_evaluated" \in {a, b} THEN "not_evaluated"
    ELSE IF "not_aligned" \in {a, b} THEN "not_aligned"
    ELSE IF "exception_approved" \in {a, b} THEN "exception_approved"
    ELSE "aligned"

Workloads(report) == {t.workload : t \in report.targets}

AlignmentIn(report, w) ==
    IF w \in Workloads(report)
    THEN (CHOOSE t \in report.targets : t.workload = w).alignment
    ELSE "not_evaluated"

Correlate(drift, credentials) ==
    LET all == Workloads(drift) \cup Workloads(credentials)
        both == Workloads(drift) \cap Workloads(credentials)
    IN  [targets |-> {[workload |-> w,
                       alignment |-> Combined(AlignmentIn(drift, w),
                                              AlignmentIn(credentials, w))] : w \in all},
         findings |->
            drift.findings \cup credentials.findings
            \cup {Finding("mapping_incomplete", <<w>>, "not_evaluated") : w \in all \ both}
            \cup {Finding("combined_risk", <<w>>, "not_aligned") :
                    w \in {w \in both : {AlignmentIn(drift, w), AlignmentIn(credentials, w)}
                                            = {"not_aligned"}}}]

-----------------------------------------------------------------------------
(* Identity-governance posture.  Records of conditional access have a state. *)

PostureReport(p, e, now) ==
    LET exceptions == IF p.posture = None THEN {} ELSE Unexpired(p.posture.exceptions, now)
        Judge(control, d, alignment) ==
            Finding(control, <<d>>,
                    IF \E x \in exceptions : x.domain = d /\ x.control = control
                    THEN "exception_approved" ELSE alignment)
        In(d) == e[<<"domain", d>>]
        States == {r.state : r \in In("conditional_access")}
        Drifted == {d \in Domains : p.posture # None /\ p.posture.expected[d] # In(d)}
        drift == {Judge("drift", d, "not_aligned") : d \in Drifted}
        Conclusion(d) == IF p.posture = None THEN "not_evaluated"
                         ELSE Overall({f \in drift : f.subject = <<d>>})
        Observed(condition, control, d, alignment) ==
            IF condition THEN {Judge(control, d, alignment)} ELSE {}
    IN  [targets |-> {[domain |-> d, alignment |-> Conclusion(d)] : d \in Domains},
         findings |->
            drift
            \cup Observed(States = {}, "no_policies", "conditional_access", "not_aligned")
            \cup Observed(States # {} /\ "enabled" \notin States, "no_enabled_policies",
                          "conditional_access", "not_aligned")
            \cup Observed("report_only" \in States, "report_only_observed",
                          "conditional_access", "not_evaluated")
            \cup Observed(In("permanent") # {}, "permanent_assignments_observed",
                          "permanent", "not_evaluated")
            \cup (IF p.posture = None
                  THEN {Finding("baseline_not_configured", <<>>, "not_evaluated")} ELSE {})]

-----------------------------------------------------------------------------
(* Profile debt: the signed profile against the token, the grants of the    *)
(* server's own registration, the audit trail and the local settings.       *)

\* Both keep only names that are not in every token.
ProfileScopes(p) ==
    ({"User.Read"} \cup UNION {Manifest[c].scopes : c \in Active(p).contracts}) \ Ambient

TokenScopes(e) == e[<<"token">>] \ Ambient

Resources(p) == [users |-> p.users, groups |-> p.groups, applications |-> p.applications,
                 service_principals |-> p.principals]

EnabledContracts(p) == UNION {p.profiles[n].contracts : n \in ProfileNames}

\* What the audit trail of the window shows of contract c; the drift evaluation this
\* rests on is fresh evidence of itself, and the debt evaluation is not asked for any.
Successes(e, c) ==
    IF c = "drift" THEN 1
    ELSE Cardinality({r \in e[<<"audit">>] : r.contract = c /\ r.outcome = "success"})

Failures(e, c) == Cardinality({r \in e[<<"audit">>] : r.contract = c /\ r.outcome = "failure"})

EvidenceOf(p, e, available, c) ==
    CASE c = "debt" -> "not_applicable"
      [] c = "drift" -> "aligned"
      [] c \notin {"debt", "drift"} /\ ~available -> "not_evaluated"
      [] OTHER -> IF Successes(e, c) = 0 \/ Failures(e, c) >= p.debt.threshold
                  THEN "not_aligned" ELSE "aligned"

\* An exception of the debt baseline is for one control and one subject.
JudgeDebt(p, now, control, subject, alignment) ==
    Finding(control, <<subject>>,
            IF \E x \in Unexpired(p.debt.exceptions, now) :
                   x.control = control /\ x.subject = subject
            THEN "exception_approved" ELSE alignment)

Debts(p, now, control, subjects) ==
    {JudgeDebt(p, now, control, s, "not_aligned") : s \in subjects}

\* The server's own grants and the token it works with.
GrantDebts(p, e, current, now) ==
    (IF current = None
     THEN {JudgeDebt(p, now, "current_app_missing", "current_app", "not_evaluated")}
     ELSE IF current.alignment = "aligned" THEN {}
     ELSE {JudgeDebt(p, now, "grant_drift", "current_app", current.alignment)})
    \cup Debts(p, now, "scope_missing", ProfileScopes(p) \ TokenScopes(e))
    \cup Debts(p, now, "scope_unexpected", TokenScopes(e) \ ProfileScopes(p))

\* The contracts of the profile and of the grant baseline, and their use.
ContractDebts(p, e, current, available, now) ==
    LET mine == Active(p).contracts
        baseline == IF current = None THEN {} ELSE current.contracts
        audited == mine \cup baseline
    IN  Debts(p, now, "baseline_mismatch", (mine \ baseline) \cup (baseline \ mine))
        \cup {JudgeDebt(p, now, "no_recent_evidence", c, EvidenceOf(p, e, available, c)) :
                 c \in {c \in audited : Successes(e, c) = 0 /\ c # "debt"}}
        \cup Debts(p, now, "persistent_failure",
                   {c \in audited : Failures(e, c) >= p.debt.threshold})

LifecycleDebts(p, now) ==
    Debts(p, now, "version_stale", IF p.version < p.debt.minimum THEN {"policy"} ELSE {})
    \cup Debts(p, now, "age_stale", IF now > p.issued + p.debt.age THEN {"policy"} ELSE {})

ResourceDebts(p, now) ==
    LET Mismatch == {k \in DOMAIN Consumers : Resources(p)[k] # Runtime[k]}
    IN  Debts(p, now, "fence_mismatch", Mismatch)
        \cup Debts(p, now, "allowlist_unused",
                   {k \in DOMAIN Consumers \ Mismatch :
                       Resources(p)[k] # {} /\ Consumers[k] \cap EnabledContracts(p) = {}})

DebtFindings(p, e, current, available, now) ==
    GrantDebts(p, e, current, now) \cup ContractDebts(p, e, current, available, now)
    \cup LifecycleDebts(p, now) \cup ResourceDebts(p, now)

\* Scopes are in order only when the grants, the contracts and the token all are.
ScopeAlignment(p, e, current, findings) ==
    LET debts == {f \in findings : f.control \in {"scope_missing", "scope_unexpected"}}
    IN  IF current = None THEN "not_evaluated"
        ELSE IF Active(p).contracts # current.contracts THEN "not_aligned"
        ELSE Overall(debts \cup {Finding("grants", <<>>, current.alignment)})

DebtReport(p, e, drift, available, now) ==
    LET matches == {t \in drift.targets : t.workload = Client}
        current == IF matches = {} THEN None ELSE CHOOSE t \in matches : TRUE
        seen == [e EXCEPT ![<<"audit">>] =
                    IF available THEN {r \in @ : r.contract \in Active(p).contracts} ELSE {}]
        findings == DebtFindings(p, seen, current, available, now)
    IN  [status |-> IF current # None /\ available THEN "complete" ELSE "partial",
         scopes |-> ScopeAlignment(p, e, current, findings),
         findings |-> findings]
=============================================================================
