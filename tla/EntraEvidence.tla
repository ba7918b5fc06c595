----------------------------- MODULE EntraEvidence -----------------------------
(***************************************************************************)
(* The read-only Entra evaluations at work.  A call authorizes itself      *)
(* against the policy the server loaded, reads a tenant that changes while *)
(* it is read, page by page and within bounds, and then, in one step       *)
(* without an await, rereads the policy file, authorizes again, stores the *)
(* evidence and concludes.  The readiness playbook runs two of them, the   *)
(* debt evaluation one.                                                    *)
(*                                                                         *)
(* Calls share nothing but the policy and the tenant, so that one at a     *)
(* time is enough.  Whatever is raised ends the call.  The source of a     *)
(* record names what it is read from; the local audit trail and the scopes *)
(* of the token are sources too.                                           *)
(***************************************************************************)
EXTENDS EntraClassification, Sequences, SequencesExt, FiniteSetsExt

CONSTANTS
    Documents,    \* the policies an administrator may put in place
    Tenant,       \* the tenant of the server
    Records,      \* source -> the records there may ever be
    Tenants,      \* what a tenant may be at first: source -> records
    MaxPages,     \* assurance_max_pages_per_domain
    MaxRecords,   \* assurance_max_records_per_domain
    MaxOwners,    \* MAX_OWNERS_PER_APPLICATION
    MaxCatalogs,  \* MAX_RESOURCE_CATALOGS
    MaxTime,      \* bound on the clock
    MaxChanges    \* bound on the changes to the tenant and to the policy

ASSUME EvidenceAssumption ==
    /\ MaxPages \in Nat /\ MaxRecords \in Nat /\ MaxOwners \in Nat /\ MaxCatalogs \in Nat
    /\ MaxTime \in Nat /\ MaxChanges \in Nat
    /\ None \notin {"refused", "halted", "complete", "partial"}
    /\ \A s \in DOMAIN Records : IsFiniteSet(Records[s])
    /\ \A t \in Tenants : /\ t = [s \in DOMAIN Records |-> t[s]]
                          /\ \A s \in DOMAIN Records : t[s] \subseteq Records[s]

\* A client id is of one service principal and of one application.
ASSUME ClientIdAssumption ==
    \A kind \in {"service_principals", "applications"} : \A x, y \in Runtime[kind] :
        ClientId[x] = ClientId[y] => x = y

\* Times and limits of a document and of a credential are numbers.
ASSUME DocumentsAssumption ==
    /\ \A p \in Documents :
          /\ p.drift # None => IsFiniteSet(p.drift.targets)
          /\ p.credentials # None =>
                /\ IsFiniteSet(p.credentials.targets)
                /\ \A t \in p.credentials.targets : t.owners \in Nat /\ t.warning \in Nat
    /\ \A s \in DOMAIN Records : s[1] = "application" =>
          \A c \in Records[s] : (c.end # None => c.end \in Nat)
                                /\ (c.start # None => c.start \in Nat)

VARIABLES
    tenant,     \* source -> records
    file,       \* the policy file
    held,       \* the policy the server loaded
    now,
    run,        \* the call under way, or None
    nodes,      \* evaluation -> its report, of the last call
    status,     \* how the last call ended, or None
    changes

vars == <<tenant, file, held, now, run, nodes, status, changes>>

Sources == DOMAIN Records
Evaluations == {"drift", "credentials", "readiness", "posture", "debt"}

Usable == {p \in Documents : Loadable(p) /\ FitsManifests(p)}

NoNodes == [c \in {} |-> None]

TypeOK ==
    /\ \A s \in Sources : tenant[s] \subseteq Records[s]
    /\ file \in Documents /\ held \in Usable
    /\ now \in 0..MaxTime /\ changes \in 0..MaxChanges
    /\ run # None =>
          /\ run.evaluation \in Evaluations /\ run.todo # <<>>
          /\ \A s \in Sources : /\ run.got[s] \subseteq Records[s]
                                /\ run.steady[s] \subseteq Records[s]
                                /\ run.pages[s] \in 0..MaxPages
    /\ DOMAIN nodes \subseteq Evaluations
    /\ status \in {None, "refused", "halted", "complete", "partial"}

Init ==
    /\ tenant \in Tenants
    /\ file \in Usable /\ held = file
    /\ now = 0 /\ changes = 0
    /\ run = None /\ nodes = NoNodes /\ status = None

-----------------------------------------------------------------------------
(* Around the server. *)

Tick ==
    /\ now < MaxTime
    /\ now' = now + 1
    /\ UNCHANGED <<tenant, file, held, run, nodes, status, changes>>

\* Somebody adds or removes a record. What is being read stops being steady.
Change(s, r) ==
    /\ changes < MaxChanges
    /\ changes' = changes + 1
    /\ tenant' = [tenant EXCEPT ![s] = IF r \in @ THEN @ \ {r} ELSE @ \cup {r}]
    /\ run' = IF run # None /\ Head(run.todo) = <<"read", s>>
              THEN [run EXCEPT !.steady[s] = @ \ {r}] ELSE run
    /\ UNCHANGED <<file, held, now, nodes, status>>

ReplacePolicy(p) ==
    /\ p # file /\ changes < MaxChanges
    /\ changes' = changes + 1
    /\ file' = p
    /\ UNCHANGED <<tenant, held, now, run, nodes, status>>

\* The server starts with what the file holds; a call under way is lost.
Restart ==
    /\ file \in Usable /\ held # file
    /\ held' = file
    /\ run' = None /\ nodes' = NoNodes /\ status' = None
    /\ UNCHANGED <<tenant, file, now, changes>>

-----------------------------------------------------------------------------
(* What a call does, in order. *)

Read(s) == <<"read", s>>

\* The record of the service principal, read first, only carries its client id, which
\* does not change; that it is missing is one of the failures of a read.
TargetSteps(t) == <<Read(<<"delegated", t.principal>>), Read(<<"roles", t.principal>>),
                    <<"catalogs", t.principal>>>>

ApplicationSteps(t) == <<Read(<<"application", t.application>>),
                         Read(<<"owners", t.application>>)>>

\* The reads between authorization and conclusion, target by target.
Evaluation(c, steps) == <<<<"authorize", c>>>> \o steps \o <<<<"conclude", c>>>>

\* The n steps of each target, one target after another.
EachTarget(targets, n, steps) ==
    [i \in 1..n * Cardinality(targets) |->
        steps[SetToSeq(targets)[((i - 1) \div n) + 1]][((i - 1) % n) + 1]]

DriftSteps(p) ==
    IF p.drift = None THEN <<>>
    ELSE EachTarget(p.drift.targets, 3, [t \in p.drift.targets |-> TargetSteps(t)])

CredentialSteps(p) ==
    IF p.credentials = None THEN <<>>
    ELSE EachTarget(p.credentials.targets, 2,
                    [t \in p.credentials.targets |-> ApplicationSteps(t)])

\* The nodes of the playbook, application_credentials and permission_grants, depend on
\* nothing and so run in the order of their ids.
OrderedNodes(p) ==
    Evaluation("credentials", CredentialSteps(p)) \o Evaluation("drift", DriftSteps(p))

Steps(p, c) ==
    LET drift == Evaluation("drift", DriftSteps(p))
    IN  CASE c = "drift" -> drift
          [] c = "credentials" -> Evaluation(c, CredentialSteps(p))
          [] c = "readiness" -> Evaluation(c, OrderedNodes(p))
          [] c = "debt" -> Evaluation(c, <<Read(<<"token">>)>> \o drift)
          [] c = "posture" -> Evaluation(c, [i \in 1..Cardinality(Domains) |->
                                                Read(<<"domain", SetToSeq(Domains)[i]>>)])

Empty == [s \in Sources |-> {}]

Begin(c) ==
    /\ run = None
    /\ run' = [evaluation |-> c, todo |-> Steps(held, c), got |-> Empty, steady |-> Empty,
               pages |-> [s \in Sources |-> 0]]
    /\ nodes' = NoNodes /\ status' = None
    /\ UNCHANGED <<tenant, file, held, now, changes>>

At(step) == run # None /\ Head(run.todo) = step

\* The call raises: nothing is returned.
Refuse ==
    /\ run' = None /\ status' = "refused" /\ nodes' = NoNodes
    /\ UNCHANGED <<tenant, file, held, now, changes>>

\* A node of the playbook raises: the playbook reports that it halted, and where.
Raise ==
    IF run.evaluation = "readiness" /\ ~At(<<"authorize", "readiness">>)
    THEN /\ run' = None /\ status' = "halted"
         /\ UNCHANGED <<tenant, file, held, now, nodes, changes>>
    ELSE Refuse

Advance(r) ==
    /\ run' = r
    /\ UNCHANGED <<tenant, file, held, now, nodes, status, changes>>

Done(r) == [r EXCEPT !.todo = Tail(@)]

Authorized(c) ==
    CASE c = "drift" -> DriftAuthorized(held, Tenant, now, Runtime.service_principals)
      [] c = "credentials" -> CredentialsAuthorized(held, Tenant, now, Runtime.applications)
      [] c = "readiness" -> PlaybookAuthorized(held, c, Tenant, now)
      [] c = "debt" -> DebtAuthorized(held, Tenant, now) /\ held.active = "privileged_read"
      [] c = "posture" -> ReadAuthorized(held, c, Tenant, now)

Authorize(c) ==
    /\ At(<<"authorize", c>>)
    /\ IF Authorized(c) THEN Advance(Done(run)) ELSE Raise

-----------------------------------------------------------------------------
(* Reading. *)

\* Graph, or the token, fails; only what acquiring a token raises leaves the playbook.
Fail ==
    /\ run # None
    /\ Head(run.todo)[1] \in {"read", "catalogs"}
    /\ Raise \/ Refuse

\* An application and its credentials, or the scopes of the token, in one response.
ReadOne(s) ==
    /\ s[1] \in {"application", "token"}
    /\ At(Read(s))
    /\ Advance(Done([run EXCEPT !.got[s] = tenant[s], !.steady[s] = tenant[s],
                                !.pages[s] = 1]))

\* The sources whose pages and records count against the same bounds as those of s.
Together(s) == IF s[1] \in {"delegated", "roles"} THEN {x \in Sources : x[1] = s[1]} ELSE {s}

PagesLeft(s) == MaxPages - MapThenSumSet(LAMBDA x : run.pages[x], Together(s))

RecordsAllowed(s) ==
    IF s[1] = "owners" THEN MaxOwners
    ELSE MaxRecords - MapThenSumSet(LAMBDA x : Cardinality(run.got[x]), Together(s) \ {s})

\* One page, and whether there are more. A collection that changes while it is read may
\* come with or without what changed; that a record which was there all the time is on
\* some page is Graph's part.
Page(s, S, more) ==
    /\ S \subseteq tenant[s] \ run.got[s]
    /\ ~more => (IF run.pages[s] = 0 THEN tenant[s] ELSE run.steady[s]) \subseteq run.got[s] \cup S

Taken(s, S, more) ==
    LET r == [run EXCEPT !.got[s] = run.got[s] \cup S, !.pages[s] = run.pages[s] + 1,
                         !.steady[s] = IF run.pages[s] = 0 THEN tenant[s] ELSE run.steady[s]]
    IN  IF more THEN r ELSE Done(r)

\* Mutant of ReadPage: what was read within the bounds is taken for the whole.
ReadPageLenient(s, S, more) ==
    /\ s[1] \in {"delegated", "roles", "owners", "domain"}
    /\ At(Read(s)) /\ Page(s, S, more)
    /\ IF PagesLeft(s) <= 0 \/ Cardinality(run.got[s] \cup S) > RecordsAllowed(s) THEN Raise
       ELSE Advance(Taken(s, S, more /\ PagesLeft(s) > 1))

ReadPage(s, S, more) ==
    /\ s[1] \in {"delegated", "roles", "owners", "domain"}
    /\ At(Read(s)) /\ Page(s, S, more)
    /\ IF \/ PagesLeft(s) <= 0
          \/ Cardinality(run.got[s] \cup S) > RecordsAllowed(s)
          \/ more /\ PagesLeft(s) <= 1
       THEN Raise
       ELSE Advance(Taken(s, S, more))

Grants(w) == run.got[<<"delegated", w>>] \cup run.got[<<"roles", w>>]

\* The catalogs of the resources the grants of w are for, each read once in a call.
MissingCatalogs(w) ==
    {s \in {<<"catalog", g.resource>> : g \in Grants(w)} : run.pages[s] = 0}

CatalogsRead == {s \in Sources : s[1] = "catalog" /\ run.pages[s] > 0}

ReadCatalog(w, s) ==
    /\ At(<<"catalogs", w>>)
    /\ s \in MissingCatalogs(w)
    /\ IF Cardinality(CatalogsRead) >= MaxCatalogs \/ Cardinality(CatalogsRead) >= MaxRecords
       THEN Raise
       ELSE Advance([run EXCEPT !.got[s] = tenant[s], !.steady[s] = tenant[s],
                                !.pages[s] = 1])

\* A role its resource does not define, or no longer, cannot be judged.
ResolveRoles(w) ==
    /\ At(<<"catalogs", w>>)
    /\ MissingCatalogs(w) = {}
    /\ IF \A g \in run.got[<<"roles", w>>] : g.permission \in run.got[<<"catalog", g.resource>>]
       THEN Advance(Done(run)) ELSE Raise

-----------------------------------------------------------------------------
(* Concluding: no await from the reread of the policy to the report. *)

\* Mutant of Revalidated: the policy in memory is asked again, the file is not.
RevalidatedInMemory(c) ==
    /\ Authorized(c)
    /\ c \in {"drift", "credentials"} => held.active = "privileged_read"

\* refresh refuses any other digest, and what cannot be loaded.
Revalidated(c) ==
    /\ file = held
    /\ Authorized(c)
    /\ c \in {"drift", "credentials"} => held.active = "privileged_read"

Total(kind) ==
    MapThenSumSet(LAMBDA s : Cardinality(run.got[s]), {s \in Sources : s[1] = kind})

\* What the evaluation counts over all targets before it concludes.
WithinBounds(c) ==
    CASE c = "drift" -> Cardinality(held.drift.targets) <= MaxRecords
      [] c = "credentials" ->
            LET pages == MapThenSumSet(LAMBDA s : run.pages[s], {s \in Sources : s[1] = "owners"})
            IN  /\ pages <= MaxPages /\ Total("owners") <= MaxRecords
                /\ Cardinality(held.credentials.targets) <= MaxPages
                /\ Cardinality(held.credentials.targets) <= MaxRecords
      [] OTHER -> TRUE

Reported(c, report) == [x \in DOMAIN nodes \cup {c} |-> IF x = c THEN report ELSE nodes[x]]

Conclude(c, report, outcome) ==
    /\ At(<<"conclude", c>>)
    /\ IF Revalidated(c) /\ WithinBounds(c)
       THEN /\ nodes' = Reported(c, report)
            /\ IF c = run.evaluation THEN run' = None /\ status' = outcome
               ELSE run' = Done(run) /\ UNCHANGED status
            /\ UNCHANGED <<tenant, file, held, now, changes>>
       ELSE Raise

ConcludeDrift == Conclude("drift", DriftReport(held, run.got, now), "complete")

ConcludeCredentials == Conclude("credentials", CredentialReport(held, run.got, now), "complete")

ConcludePosture == Conclude("posture", PostureReport(held, run.got, now), "complete")

\* The audit trail, if it can be read, is read in the same step.
ConcludeDebt(available) ==
    LET e == [run.got EXCEPT ![<<"audit">>] = tenant[<<"audit">>]]
        report == DebtReport(held, e, nodes["drift"], available, now)
    IN  Conclude("debt", report, report.status)

\* Mutant of ConcludeReadiness: the nodes that ran are all reported as completed.
ConcludeReadinessKeeping ==
    /\ At(<<"conclude", "readiness">>)
    /\ run' = None
    /\ IF Revalidated("readiness")
       THEN /\ nodes' = Reported("readiness", Correlate(nodes["drift"], nodes["credentials"]))
            /\ status' = "complete"
       ELSE nodes' = nodes /\ status' = "halted"
    /\ UNCHANGED <<tenant, file, held, now, changes>>

\* The playbook rereads the policy once more. Where that fails, its last node, that of the
\* grants, is not reported; a file that is no policy at all is the only error it lets through.
ConcludeReadiness ==
    /\ At(<<"conclude", "readiness">>)
    /\ \/ /\ Revalidated("readiness")
          /\ nodes' = Reported("readiness", Correlate(nodes["drift"], nodes["credentials"]))
          /\ run' = None /\ status' = "complete"
          /\ UNCHANGED <<tenant, file, held, now, changes>>
       \/ /\ ~Revalidated("readiness")
          /\ nodes' = [x \in DOMAIN nodes \ {"drift"} |-> nodes[x]]
          /\ run' = None /\ status' = "halted"
          /\ UNCHANGED <<tenant, file, held, now, changes>>
       \/ ~Loadable(file) /\ Refuse

\* The steps of a call under way.
Step ==
    \/ \E c \in Evaluations : Authorize(c)
    \/ Fail
    \/ \E s \in Sources : ReadOne(s)
    \/ \E s \in Sources : \E S \in SUBSET Records[s], more \in BOOLEAN : ReadPage(s, S, more)
    \/ \E w \in DOMAIN ClientId : ResolveRoles(w)
    \/ \E w \in DOMAIN ClientId, s \in Sources : ReadCatalog(w, s)
    \/ ConcludeDrift
    \/ ConcludeCredentials
    \/ ConcludePosture
    \/ ConcludeReadiness
    \/ \E available \in BOOLEAN : ConcludeDebt(available)

Next ==
    \/ Tick
    \/ \E s \in Sources : \E r \in Records[s] : Change(s, r)
    \/ \E p \in Documents : ReplacePolicy(p)
    \/ Restart
    \/ \E c \in Evaluations : Begin(c)
    \/ Step

Spec == Init /\ [][Next]_vars

-----------------------------------------------------------------------------

\* The sources a report of c rests on.
EvidenceOfReport(p, c) ==
    CASE c \in {"drift", "debt"} -> UNION {{<<"delegated", t.principal>>, <<"roles", t.principal>>} :
                                              t \in p.drift.targets}
      [] c = "credentials" -> UNION {{<<"application", t.application>>, <<"owners", t.application>>} :
                                        t \in p.credentials.targets}
      [] c = "posture" -> {<<"domain", d>> : d \in Domains}
      [] c = "readiness" -> {}

New == DOMAIN nodes' \ DOMAIN nodes

ReadEverything(c) ==
    \A s \in EvidenceOfReport(held, c) : run.pages[s] > 0 /\ run.steady[s] \subseteq run.got[s]

\* A report is complete or there is none: whatever pages Graph serves and whatever changes
\* meanwhile, a record that was there from the first page to the last is in the evidence,
\* and every source the evaluation is about was read.
CompleteMeansEverythingRead == [][\A c \in New : ReadEverything(c)]_vars

UnderPolicyInForce(c) ==
    /\ file = held /\ Loadable(file) /\ ~Expired(file, now)
    /\ file.active \in (IF c = "posture" THEN ReadProfiles ELSE {"privileged_read"})
    /\ IF c = "readiness" THEN c \in Active(file).playbooks ELSE c \in Active(file).contracts
    /\ c = "drift" => Principals(file.drift.targets) \subseteq Runtime.service_principals
    /\ c = "credentials" =>
           Applications(file.credentials.targets) \subseteq Runtime.applications

\* A report is made under the policy of the file at that moment, which is in force, enables
\* the evaluation and, but for the posture, has privileged-read active; a policy replaced
\* or expired while the tenant is read leads to none.
ReportUnderPolicyInForce == [][\A c \in New : UnderPolicyInForce(c)]_vars

ExceptionsOf(p, c) ==
    CASE c = "drift" -> p.drift.exceptions
      [] c = "credentials" -> p.credentials.exceptions
      [] c = "debt" -> p.debt.exceptions
      [] c = "posture" -> IF p.posture = None THEN {} ELSE p.posture.exceptions
      [] c = "readiness" -> {}

\* What an exception is for, as the subject of the findings it excuses.
SubjectOf(c, x) ==
    CASE c = "drift" -> <<x.principal, x.resource, x.permission, x.consent>>
      [] c = "credentials" -> IF x.key = None THEN <<x.application>> ELSE <<x.application>> \o x.key
      [] c = "debt" -> <<x.subject>>
      [] c = "posture" -> <<x.domain>>

Excused(c, subject) ==
    \E x \in ExceptionsOf(file, c) : now < x.expires /\ SubjectOf(c, x) = subject

ExcusedInForce(c) ==
    \A f \in nodes'[c].findings :
        f.alignment = "exception_approved" =>
            \/ Excused(c, f.subject)
            \/ c = "debt" /\ f.control = "grant_drift"

\* A finding is excused only by a signed exception for exactly its subject that has not
\* expired when the report is made; debt may pass on what drift excused.
ExceptionsInForce == [][\A c \in New \ {"readiness"} : ExcusedInForce(c)]_vars

\* What an administrator would object to in the grants of a target: they are more than the
\* compiled contracts need and the consent types the policy allows, or fewer.
GrantDeviations(t) ==
    {<<t.principal, g.resource, g.permission, g.consent>> :
        g \in run.steady[<<"roles", t.principal>>]
              \cup {g \in run.steady[<<"delegated", t.principal>>] :
                       \/ g.resource # Graph \/ g.consent \notin t.consents
                       \/ /\ g.permission # "User.Read"
                          /\ \A c \in t.contracts : g.permission \notin Manifest[c].scopes}}

CredentialDeviations(t) ==
    {<<t.application, c.kind, c.key>> :
        c \in {c \in run.steady[<<"application", t.application>>] :
                  \/ c.end = None
                  \/ c.end <= now
                  \/ c.end <= now + t.warning /\ (c.start = None \/ c.start <= now)
                  \/ c.kind = "password" /\ ~t.passwords}}

CleanGrants ==
    \A t \in held.drift.targets : \A r \in nodes'["drift"].targets :
        r.workload = ClientId[t.principal] /\ r.alignment # "not_aligned" =>
            /\ \A d \in GrantDeviations(t) :
                  r.alignment = "exception_approved" /\ Excused("drift", d)
            /\ \A c \in t.contracts : Manifest[c].scopes \subseteq
                  {g.permission : g \in run.got[<<"delegated", t.principal>>]}

CleanCredentials ==
    \A t \in held.credentials.targets : \A r \in nodes'["credentials"].targets :
        r.workload = ClientId[t.application] /\ r.alignment # "not_aligned" =>
            /\ \A d \in CredentialDeviations(t) :
                  r.alignment = "exception_approved" /\ Excused("credentials", d)
            /\ r.alignment = "aligned" =>
                  Cardinality(run.got[<<"owners", t.application>>]) >= t.owners

\* "aligned" can be relied on: a target reported so had no deviation that was there all
\* along, and one reported as excepted none without an exception in force. A target is
\* never aligned without the scopes its contracts need, or the owners it must have.
AlignedTenantIsClean ==
    [][("drift" \in New => CleanGrants) /\ ("credentials" \in New => CleanCredentials)]_vars

\* Deviations that time does not bring about.
LastingDeviations(t) ==
    {<<t.application, c.kind, c.key>> :
        c \in {c \in run.steady[<<"application", t.application>>] :
                  \/ c.end = None
                  \/ c.kind = "password" /\ ~t.passwords}}

\* What an alignment says of deviations D: there are none, or the policy excuses each.
Allows(alignment, c, D) ==
    \/ D = {}
    \/ /\ alignment = "exception_approved"
       /\ D \subseteq {SubjectOf(c, x) : x \in ExceptionsOf(held, c)}

CleanInBoth(r) ==
    /\ \E t \in held.drift.targets :
          ClientId[t.principal] = r.workload /\ Allows(r.alignment, "drift", GrantDeviations(t))
    /\ \E t \in held.credentials.targets :
          ClientId[t.application] = r.workload
          /\ Allows(r.alignment, "credentials", LastingDeviations(t))

\* A workload the playbook calls ready was read as an application and as a service principal,
\* and neither showed a deviation the signed policy does not excuse: although its nodes run
\* one after the other, what the first one saw still backs the conclusion of the last.
ReadyWorkloadIsClean ==
    [][\A c \in New \cap {"readiness"} : \A r \in nodes'[c].targets :
           r.alignment \in {"aligned", "exception_approved"} => CleanInBoth(r)]_vars

Ends(outcome) == status = None /\ status' = outcome

\* README.md: a run that halts or cannot see everything never claims alignment. A playbook
\* that halts reports neither a conclusion nor its last node, even where that node was done
\* and only the last look at the policy failed; one that is complete reports both. A debt
\* report is complete only if the grants of the server's own registration were read in the
\* same call, and then calls its scopes aligned only where they showed no deviation.
PartialIsNeverComplete ==
    [][/\ Ends("refused") => nodes' = NoNodes
       /\ Ends("halted") => DOMAIN nodes' \subseteq {"credentials"}
       /\ "readiness" \in New => /\ Ends("complete")
                                  /\ {"drift", "credentials"} \subseteq DOMAIN nodes'
       /\ "debt" \in New /\ Ends("complete") =>
             \E t \in held.drift.targets :
                 /\ ClientId[t.principal] = Client
                 /\ run.pages[<<"delegated", t.principal>>] > 0
                 /\ run.pages[<<"roles", t.principal>>] > 0
                 /\ nodes'["debt"].scopes = "aligned" => GrantDeviations(t) = {}]_vars
=============================================================================
