---------------------------- MODULE MCEntraEvidence ----------------------------
(* One registration of the server's own, x, and another workload, y. The base policy *)
(* is followed by ones that expire, cover both, use the other profile or are no policy. *)
EXTENDS EntraEvidence, TLC

CONSTANTS none

Reads(scopes) == [method |-> "GET", tier |-> "T0", mode |-> "automatic_read", scopes |-> scopes]

MCManifest == [drift |-> Reads({"App.Read"}), credentials |-> Reads({"App.Read"}),
               debt |-> Reads({"App.Read"}), posture |-> Reads({"App.Read"})]

MCPlaybooks == [readiness |-> [tier |-> "T0", mode |-> "automatic_read", writes |-> FALSE,
                               nodes |-> {"drift", "credentials"}]]

MCCandidate == [c \in {} |-> none]
MCControls == [c \in {} |-> none]

MCClientId == [s |-> "x", a |-> "x", s2 |-> "y", b |-> "y"]

MCConsumers == [users |-> {}, groups |-> {}, applications |-> {"credentials"},
                service_principals |-> {"drift", "debt"}]

MCRuntime == [users |-> {"u"}, groups |-> {}, applications |-> {"a", "b"},
              service_principals |-> {"s", "s2"}]

Grant(resource, permission, consent) ==
    [resource |-> resource, permission |-> permission, consent |-> consent]

Needed == {Grant("graph", "User.Read", "AllPrincipals"), Grant("graph", "App.Read", "AllPrincipals")}
Personal == Grant("graph", "App.Read", "Principal")
Role == Grant("graph", "Directory.Write", none)

Credential(kind, key, start, end) == [kind |-> kind, key |-> key, start |-> start, end |-> end]

Secret == Credential("password", "k1", 0, 9)
Rolling == Credential("key", "k2", 0, 4)
Unbounded == Credential("key", "k3", 2, none)

MCRecords ==
    (<<"delegated", "s">> :> (Needed \cup {Personal})) @@ (<<"delegated", "s2">> :> Needed)
    @@ (<<"roles", "s">> :> {Role}) @@ (<<"roles", "s2">> :> {})
    @@ (<<"catalog", "graph">> :> {"Directory.Write"})
    @@ (<<"application", "a">> :> {Secret, Rolling, Unbounded})
    @@ (<<"owners", "a">> :> {"o1", "o2"})
    @@ (<<"application", "b">> :> {Rolling}) @@ (<<"owners", "b">> :> {"o2"})
    @@ (<<"token">> :> {"openid", "User.Read", "App.Read", "Mail.Send"})
    @@ (<<"audit">> :> {[contract |-> c, outcome |-> "success"] : c \in {"credentials", "posture"}})
    @@ (<<"domain", "conditional_access">> :> {[id |-> "p1", state |-> "enabled"],
                                               [id |-> "p2", state |-> "report_only"]})
    @@ (<<"domain", "permanent">> :> {[id |-> "r1", state |-> "assigned"]})
    @@ (<<"domain", "active">> :> {}) @@ (<<"domain", "eligible">> :> {})

Clean ==
    [s \in DOMAIN MCRecords |->
        CASE s[1] = "delegated" -> Needed
          [] s[1] \in {"catalog", "audit"} -> MCRecords[s]
          [] s[1] = "application" -> {Rolling}
          [] s = <<"owners", "a">> -> {"o1"}
          [] s[1] = "token" -> {"openid", "User.Read", "App.Read"}
          [] s = <<"domain", "conditional_access">> -> {[id |-> "p1", state |-> "enabled"]}
          [] OTHER -> {}]

MCTenants == {Clean, [Clean EXCEPT ![<<"delegated", "s">>] = @ \cup {Personal},
                                   ![<<"application", "a">>] = @ \cup {Secret}]}

Target(principal) == [principal |-> principal, contracts |-> DOMAIN MCManifest,
                      consents |-> {"AllPrincipals"}]

Registration(application, owners) ==
    [application |-> application, owners |-> owners, warning |-> 3, passwords |-> FALSE,
     maximum |-> [password |-> 0, key |-> 1]]

DriftException(g, kind) ==
    [principal |-> "s", kind |-> kind, resource |-> g.resource, permission |-> g.permission,
     consent |-> g.consent, expires |-> 2]

Profile(contracts, playbooks, ttl) ==
    [contracts |-> contracts, playbooks |-> playbooks, limit |-> 2, window |-> none, ttl |-> ttl]

Base ==
    [schema |-> 1, signed |-> TRUE, version |-> 2, issued |-> 0, expires |-> none,
     tenant |-> "t", tenants |-> {"t"}, active |-> "privileged_read",
     profiles |-> [n \in ProfileNames |->
         CASE n = "privileged_read" -> Profile(DOMAIN MCManifest, {"readiness"}, none)
           [] n = "routine_read" -> Profile({"drift", "posture"}, {}, none)
           [] n = "break_glass" -> Profile({}, {}, 1)
           [] OTHER -> Profile({}, {}, none)],
     users |-> {"u"}, groups |-> {}, applications |-> {"a", "b"}, principals |-> {"s", "s2"},
     protected |-> {}, special |-> {}, protectedGroups |-> {},
     overrides |-> [c \in {} |-> none], boundContracts |-> "contracts",
     boundPlaybooks |-> "playbooks", library |-> none, operations |-> none,
     posture |-> [captured |-> 0,
                  expected |-> [d \in Domains |-> IF d = "conditional_access"
                                                  THEN {[id |-> "p1", state |-> "enabled"]} ELSE {}],
                  exceptions |-> {[domain |-> "permanent", control |-> "drift", expires |-> 1]}],
     drift |-> [targets |-> {Target("s")},
                exceptions |-> {DriftException(Personal, "delegated"),
                                [DriftException(Role, "application") EXCEPT !.expires = 1]}],
     credentials |-> [targets |-> {Registration("a", 1)},
                      exceptions |-> {[application |-> "a", control |-> "password_prohibited",
                                       key |-> <<"password", "k1">>, expires |-> 1]}],
     debt |-> [minimum |-> 2, age |-> 0, threshold |-> 1,
               exceptions |-> {[control |-> "allowlist_unused", subject |-> "users", expires |-> 2],
                               [control |-> "scope_unexpected", subject |-> "Mail.Send",
                                expires |-> 1]}]]

MCDocuments ==
    {Base, [Base EXCEPT !.expires = 1],
     [Base EXCEPT !.drift.targets = {Target("s2"), Target("s")}],
     [Base EXCEPT !.credentials.targets = {Registration("a", 1), Registration("b", 0)}],
     [Base EXCEPT !.drift.targets = {Target("s2")}, !.drift.exceptions = {}],
     [Base EXCEPT !.active = "routine_read", !.posture = none],
     [Base EXCEPT !.signed = FALSE]}
=============================================================================
