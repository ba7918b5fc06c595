-------------------------- MODULE MCGovernancePolicy --------------------------
(* One tenant and the documents its administrator may put in place: a sound one   *)
(* of each schema, and each of them changed in one or two places, soundly or not. *)
EXTENDS GovernancePolicy, TLC

CONSTANTS none, user, emergency

MCManifest ==
    [drift |-> [method |-> "GET", tier |-> "T0", mode |-> "automatic_read"],
     credentials |-> [method |-> "GET", tier |-> "T0", mode |-> "automatic_read"],
     profile |-> [method |-> "PATCH", tier |-> "T1", mode |-> "standing_policy"],
     wipe |-> [method |-> "POST", tier |-> "T3", mode |-> "dual_control"]]

MCPlaybooks ==
    [readiness |-> [tier |-> "T0", mode |-> "automatic_read", writes |-> FALSE,
                    nodes |-> {"drift", "credentials"}],
     repair |-> [tier |-> "T1", mode |-> "automatic_read", writes |-> TRUE,
                 nodes |-> {"drift", "profile"}]]

Compiled(tier, mode) ==
    [digest |-> tier, effect |-> "state", tier |-> tier, mode |-> mode,
     verification |-> "strong_readback", safety |-> "exact",
     fences |-> {"tenant", "user"}, synthetic |-> FALSE]

MCCandidate == [revoke |-> Compiled("T2", "explicit_plan"),
                disable |-> Compiled("T3", "dual_control")]

MCControls == [c1 |-> [major |-> 1, retired |-> FALSE, age |-> 2, kinds |-> {"application"}],
               c2 |-> [major |-> 1, retired |-> TRUE, age |-> 2, kinds |-> {"profile"}]]

NoOverrides == [c \in {} |-> none]

Profile(contracts, playbooks, ttl) ==
    [contracts |-> contracts, playbooks |-> playbooks, limit |-> 1, window |-> none, ttl |-> ttl]

Sound1 ==
    [schema |-> 1, signed |-> TRUE, issued |-> 1, expires |-> none,
     tenant |-> "t", tenants |-> {"t"}, active |-> "selected_write",
     profiles |-> [n \in ProfileNames |->
         CASE n = "routine_read" -> Profile({"drift"}, {}, none)
           [] n = "privileged_read" -> Profile({"drift", "credentials"}, {"readiness"}, none)
           [] n = "routine_write" -> Profile({"profile"}, {}, none)
           [] n = "selected_write" -> Profile({"profile", "wipe"}, {}, none)
           [] n = "break_glass" -> Profile({"profile"}, {}, 1)],
     users |-> {user, emergency}, groups |-> {}, applications |-> {"a"}, principals |-> {"s"},
     protected |-> {emergency}, special |-> {emergency}, protectedGroups |-> {},
     overrides |-> NoOverrides, boundContracts |-> "contracts", boundPlaybooks |-> "playbooks",
     posture |-> none, drift |-> [targets |-> {[principal |-> "s", contracts |-> {"drift"}]}, exceptions |-> {}],
     credentials |-> [targets |-> {[application |-> "a", passwords |-> FALSE,
                                    maximum |-> [password |-> 0, key |-> 2]]},
                      exceptions |-> {}],
     debt |-> none, library |-> none, operations |-> none]

With(p, n, contracts, playbooks) ==
    [p EXCEPT !.profiles[n].contracts = contracts, !.profiles[n].playbooks = playbooks]

Version1 ==
    {[Sound1 EXCEPT !.active = n] : n \in ReadProfiles \cup {"routine_write"}}
      \cup {[Sound1 EXCEPT !.active = "break_glass", !.expires = e] : e \in {none, 2, 3}}
      \cup {[Sound1 EXCEPT !.expires = 1, !.issued = 0], [Sound1 EXCEPT !.signed = FALSE],
            [Sound1 EXCEPT !.tenant = "u", !.tenants = {"u"}], [Sound1 EXCEPT !.tenants = {}],
            [Sound1 EXCEPT !.boundContracts = "other"], [Sound1 EXCEPT !.drift = none],
            [Sound1 EXCEPT !.special = {user, emergency}],
            [Sound1 EXCEPT !.profiles["selected_write"].window = [from |-> 2, until |-> 1]]}
      \cup {[Sound1 EXCEPT !.overrides = ("profile" :> m)] : m \in DOMAIN Strength}
      \cup {[Sound1 EXCEPT !.overrides = ("wipe" :> m)] : m \in {"standing_policy", "prohibited"}}
      \cup {[Sound1 EXCEPT !.active = "privileged_read", !.overrides = ("drift" :> m)]
            : m \in {"automatic_read", "explicit_plan"}}
      \cup {With([Sound1 EXCEPT !.active = n], n, {"drift", "profile"}, {}) : n \in ReadProfiles}
      \cup {With([Sound1 EXCEPT !.active = "privileged_read"], "privileged_read",
                 {"drift", "profile"}, {"repair"}),
            With([Sound1 EXCEPT !.active = "routine_write"], "routine_write", {"wipe"}, {})}

Except(id, kind, object, issued, expires) ==
    [id |-> id, control |-> "c1", major |-> 1, kind |-> kind, object |-> object,
     issued |-> issued, expires |-> expires]

Library(controls, exceptions) ==
    [controls |-> controls, exceptions |-> exceptions, boundControls |-> "controls",
     boundCompatibility |-> "compatibility"]

Setting(age, wide) == [major |-> 1, age |-> age, wide |-> wide]

Version2 ==
    {[Sound1 EXCEPT !.schema = 2, !.active = "privileged_read", !.library = l] : l \in
        {Library("c1" :> Setting(age, wide), x) : age \in {none, 1, 3}, wide \in BOOLEAN,
            x \in {{}, {Except("x1", "application", "a", 0, 2)},
                   {Except("x1", "application", "b", 0, 2)},
                   {Except("x1", "control_wide", "*", 1, 2)},
                   {Except("x1", "application", "a", 0, 2), Except("x2", "application", "a", 1, 3)},
                   {Except("x1", "application", "a", 0, 2), Except("x2", "control_wide", "*", 1, 3)}}}
        \cup {Library("c2" :> Setting(none, FALSE), {})}}

Authority(id, group) == [id |-> id, identity |-> id, key |-> id, group |-> group]

Bind(op, tier, mode, groups) ==
    [operation |-> op, digest |-> Candidate[op].digest, effect |-> "state", tier |-> tier,
     mode |-> mode, verification |-> "strong_readback", safety |-> "exact",
     fences |-> {"user"}, excludes |-> TRUE, async |-> "allowed",
     approvers |-> {"alice", "bob", "carol"}, groups |-> groups]

Version3 ==
    {[With(Sound1, "selected_write", {op}, {}) EXCEPT
        !.schema = 3, !.boundContracts = "candidate", !.overrides = o,
        !.operations = [boundContracts |-> "candidate", boundEffects |-> "effects",
            authorities |-> {Authority("alice", "it"), Authority("bob", "it"),
                             Authority("carol", "risk")},
            bindings |-> {Bind(op, tier, mode, g)}]] :
      op \in DOMAIN Candidate, tier \in {"T2", "T3"}, mode \in {"explicit_plan", "dual_control"},
      g \in {{"it"}, {"it", "risk"}},
      o \in {NoOverrides, "revoke" :> "dual_control", "disable" :> "explicit_plan"}}

MCDocuments == {Sound1} \cup Version1 \cup Version2 \cup Version3

Registered(group, state) ==
    [alice |-> [identity |-> "alice", key |-> "alice", group |-> "it", state |-> "active"],
     bob |-> [identity |-> "bob", key |-> "bob", group |-> "it", state |-> "active"],
     carol |-> [identity |-> "carol", key |-> "carol", group |-> group, state |-> state]]

MCRegistries == {Registered("risk", "active"), Registered("risk", "compromised"),
                 Registered("it", "active")}
=============================================================================
