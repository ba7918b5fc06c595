------------------------ MODULE GovernedWriteProofs ------------------------
(***************************************************************************)
(* Theorems about GovernedWrite, for any sets of processes, keys, profiles *)
(* and any number of approvals, changes and losses.                        *)
(***************************************************************************)
EXTENDS GovernedWrite, TLAPS

\* The part of TypeOK the calls change.
CallsOK ==
    /\ ledger \in [Keys -> {"free", "claimed", "closed"}]
    /\ pc \in [Processes -> Points]
    /\ call \in [Processes -> Calls \cup {None}]
    /\ \A p \in Processes : call[p] = None <=> pc[p] = "idle"
    /\ record \in [Keys -> Statuses \cup {None}]

\* The part they leave to files, the tenant and the counters.
RestOK ==
    /\ now \in Times
    /\ user \in Users
    /\ policy \in Policies
    /\ loaded \in [Processes -> Policies]
    /\ requests \in [Keys -> Plans \cup {None}]
    /\ approvals \in [Keys -> Grants \cup {None}]
    /\ consumed \subseteq 1..MaxGrants
    /\ capsules \subseteq [key : Keys, previous : Profiles]
    /\ effects \in [Keys -> Nat]
    /\ late \subseteq Keys
    /\ sent \in [1..MaxGrants -> Nat]
    /\ replaced \in [Keys -> Profiles \cup {None}]
    /\ issued \in 0..MaxGrants
    /\ changes \in 0..MaxChanges
    /\ losses \in 0..MaxLosses

WithoutProfile == {"idle", "authorize", "read"}
WithoutPlan == WithoutProfile \cup {"roles", "prepare"}

\* What a call at a point has found out.
Informed(point, c) ==
    /\ point \notin WithoutProfile => c.seen \in Profiles
    /\ point \notin WithoutPlan => c.plan \in Plans

Held == \A p \in Processes : Informed(pc[p], call[p])

Typed == CallsOK /\ Held

LEMMA TypedCall ==
    ASSUME Typed, NEW p \in Processes, pc[p] # "idle"
    PROVE  call[p] \in Calls /\ call[p].key \in Keys /\ call[p] # None
BY DEF Typed, CallsOK, Calls

\* A call that goes on.
LEMMA GoingOn ==
    ASSUME Typed, NEW p \in Processes, NEW point \in Points \ {"idle"},
           NEW c \in Calls, Informed(point, c),
           Goto(p, point), With(p, c), UNCHANGED <<ledger, record>>
    PROVE  Typed'
<1>1. CallsOK'
  BY NoneAssumption DEF Typed, CallsOK, Goto, With
<1>2. Held'
  BY DEF Typed, CallsOK, Held, Goto, With
<1>3. QED
  BY <1>1, <1>2 DEF Typed

LEMMA Passing ==
    ASSUME Typed, NEW p \in Processes, NEW point \in Points \ {"idle"},
           pc[p] # "idle", Informed(point, call[p]), Pass(p, point)
    PROVE  Typed'
<1>1. CallsOK'
  BY NoneAssumption DEF Typed, CallsOK, Goto, Pass
<1>2. Held'
  BY DEF Typed, CallsOK, Held, Goto, Pass
<1>3. QED
  BY <1>1, <1>2 DEF Typed

\* A call that ends, whatever becomes of the calls beside it.
LEMMA Ending ==
    ASSUME Typed, NEW p \in Processes, NEW k \in Keys,
           NEW status \in Statuses, NEW row \in {"free", "closed"},
           Goto(p, "idle"), With(p, None),
           record' = [record EXCEPT ![k] = status],
           ledger' = [ledger EXCEPT ![k] = row]
    PROVE  Typed'
<1>1. CallsOK'
  BY NoneAssumption DEF Typed, CallsOK, Goto, With, Points
<1>2. Held'
  BY DEF Typed, CallsOK, Held, Goto, With, Informed, WithoutProfile, WithoutPlan
<1>3. QED
  BY <1>1, <1>2 DEF Typed

LEMMA Refusing ==
    ASSUME Typed, NEW p \in Processes, pc[p] # "idle",
           NEW status \in Statuses, Refuse(p, status)
    PROVE  Typed'
<1>1. PICK row \in {"free", "closed"} : Finish(p, status, row)
  BY DEF Refuse
<1>2. call[p].key \in Keys
  BY TypedCall
<1>3. QED
  BY <1>1, <1>2, Ending DEF Finish

\* What others change leaves every call at its point.
LEMMA Moving ==
    ASSUME Typed, NEW what \in {"policy", "user", "roles"}
    PROVE  /\ Moved(what) \in [Processes -> Calls \cup {None}]
           /\ \A p \in Processes :
                 /\ Moved(what)[p] = None <=> pc[p] = "idle"
                 /\ Informed(pc[p], Moved(what)[p])
                 /\ pc[p] # "idle" =>
                       /\ Moved(what)[p] \in Calls
                       /\ Moved(what)[p].key = call[p].key
                       /\ Moved(what)[p].plan = call[p].plan
                       /\ Moved(what)[p].grant = call[p].grant
<1>1. \A p \in Processes : pc[p] \in ReliesOn(what) => pc[p] # "idle"
  BY DEF ReliesOn
<1> SUFFICES ASSUME NEW p \in Processes
             PROVE  /\ Moved(what)[p] \in Calls \cup {None}
                    /\ Moved(what)[p] = None <=> pc[p] = "idle"
                    /\ Informed(pc[p], Moved(what)[p])
                    /\ pc[p] # "idle" =>
                          /\ Moved(what)[p] \in Calls
                          /\ Moved(what)[p].key = call[p].key
                          /\ Moved(what)[p].plan = call[p].plan
                          /\ Moved(what)[p].grant = call[p].grant
  BY DEF Moved
<1>2. CASE pc[p] \notin ReliesOn(what)
  BY <1>2, TypedCall DEF Moved, Typed, CallsOK, Held
<1>3. CASE pc[p] \in ReliesOn(what)
  <2> DEFINE c == call[p]
             d == [c EXCEPT !.moved = @ \cup {what}]
  <2>1. c \in Calls /\ pc[p] # "idle"
    BY <1>1, <1>3, TypedCall
  <2>2. /\ d \in Calls
        /\ d.key = c.key /\ d.seen = c.seen /\ d.plan = c.plan
        /\ d.grant = c.grant
    BY <2>1 DEF Calls
  <2>3. Moved(what)[p] = d
    BY <1>3 DEF Moved
  <2>4. d # None
    BY <2>2, NoneAssumption
  <2>5. Informed(pc[p], d)
    BY <2>2 DEF Typed, Held, Informed
  <2>6. QED
    BY <2>1, <2>2, <2>3, <2>4, <2>5
<1>4. QED
  BY <1>2, <1>3

-----------------------------------------------------------------------------
(***************************************************************************)
(* Type correctness.                                                       *)
(***************************************************************************)

\* The steps of a call that leave files, tenant and counters alone.
AskStep(p) ==
    \/ \E k \in Keys : Claim(p, k)
    \/ Authorize(p) \/ PreRead(p) \/ PreRoles(p) \/ Gate(p) \/ Refresh(p)
    \/ ReRead(p) \/ ReRoles(p) \/ Verify(p) \/ Fail(p)

LEMMA ReadingKeepsTypes ==
    ASSUME Typed, RestOK, NEW p \in Processes,
           NEW here \in Points \ {"idle"}, NEW next \in Points \ {"idle"},
           NEW refusal \in Statuses,
           next \notin WithoutPlan => here \notin WithoutPlan,
           ReadUser(p, here, next, refusal)
    PROVE  Typed'
<1>1. At(p, here) /\ pc[p] # "idle"
  BY DEF ReadUser, At
<1>2. CASE Refuse(p, refusal)
  BY <1>1, <1>2, Refusing
<1>3. CASE ~Refuse(p, refusal)
  <2> DEFINE c == [call[p] EXCEPT !.seen = user.profile]
  <2>1. /\ With(p, c)
        /\ Goto(p, next)
        /\ UNCHANGED <<record, ledger>>
    BY <1>3 DEF ReadUser
  <2>2. call[p] \in Calls
    BY <1>1, TypedCall
  <2>3. user.profile \in Profiles
    BY DEF RestOK, Users
  <2>4. c \in Calls /\ c.seen = user.profile /\ c.plan = call[p].plan
    BY <2>2, <2>3 DEF Calls
  <2>5. here \notin WithoutPlan => call[p].plan \in Plans
    BY <1>1 DEF Typed, Held, Informed, At
  <2>6. Informed(next, c)
    BY <2>3, <2>4, <2>5 DEF Informed
  <2> HIDE DEF c
  <2>7. QED
    BY <2>1, <2>4, <2>6, GoingOn
<1>4. QED
  BY <1>2, <1>3

LEMMA AskingKeepsTypes ==
    ASSUME Typed, RestOK, NEW p \in Processes, AskStep(p)
    PROVE  Typed'
<1> USE DEF At
<1>2. ASSUME NEW k \in Keys, Claim(p, k)
      PROVE  Typed'
  <2> DEFINE c == [key |-> k, seen |-> None, plan |-> None, grant |-> None,
                   moved |-> {}]
  <2>1. c \in Calls
    BY DEF Calls
  <2>2. Informed("authorize", c)
    BY DEF Informed, WithoutPlan, WithoutProfile
  <2>3. Goto(p, "authorize") /\ With(p, c)
    BY <1>2 DEF Claim
  <2>4. /\ ledger' = [ledger EXCEPT ![k] = "claimed"]
        /\ record' = [record EXCEPT ![k] = None]
    BY <1>2 DEF Claim
  <2> HIDE DEF c
  <2>5. CallsOK'
    BY <2>1, <2>3, <2>4, NoneAssumption DEF Typed, CallsOK, Goto, With, Points
  <2>6. Held'
    BY <2>2, <2>3 DEF Typed, CallsOK, Held, Goto, With
  <2>7. QED
    BY <2>5, <2>6 DEF Typed
<1>3. ASSUME Authorize(p)
      PROVE  Typed'
  <2>1. pc[p] # "idle" /\ Informed("read", call[p])
    BY <1>3 DEF Authorize, Informed, WithoutPlan, WithoutProfile
  <2>2. Pass(p, "read") \/ Refuse(p, "DENIED_BY_POLICY")
    BY <1>3 DEF Authorize
  <2>3. QED
    BY <2>1, <2>2, Passing, Refusing DEF Points, Statuses
<1>4. ASSUME PreRead(p)
      PROVE  Typed'
  BY <1>4, ReadingKeepsTypes DEF PreRead, Points, Statuses, WithoutPlan
<1>5. ASSUME PreRoles(p)
      PROVE  Typed'
  <2>1. pc[p] = "roles"
    BY <1>5 DEF PreRoles
  <2>2. Informed("prepare", call[p])
    BY <2>1 DEF Typed, Held, Informed, WithoutPlan, WithoutProfile
  <2>3. Pass(p, "prepare") \/ Refuse(p, "BLOCKED_PRECONDITION")
    BY <1>5 DEF PreRoles
  <2>4. QED
    BY <2>1, <2>2, <2>3, Passing, Refusing DEF Points, Statuses
<1>6. ASSUME Gate(p)
      PROVE  Typed'
  <2> DEFINE grant == approvals[call[p].plan.key]
             c == [call[p] EXCEPT !.grant = grant]
  <2>1. pc[p] = "gate"
    BY <1>6 DEF Gate
  <2>2. call[p] \in Calls /\ call[p].plan \in Plans /\ call[p].seen \in Profiles
    BY <2>1, TypedCall DEF Typed, Held, Informed, WithoutPlan, WithoutProfile
  <2>3. Informed("refresh", call[p])
    BY <2>2 DEF Informed
  <2>4. grant \in Grants \cup {None}
    BY <2>2 DEF RestOK, Plans
  <2>5. c \in Calls /\ c.plan = call[p].plan /\ c.seen = call[p].seen
    BY <2>2, <2>4 DEF Calls
  <2>6. Informed("refresh", c)
    BY <2>2, <2>5 DEF Informed
  <2>7. \/ \E status \in Statuses : Refuse(p, status)
        \/ Pass(p, "refresh")
        \/ Goto(p, "refresh") /\ With(p, c) /\ UNCHANGED <<record, ledger>>
    BY <1>6 DEF Gate, Statuses
  <2> HIDE DEF c, grant
  <2>8. QED
    BY <2>1, <2>3, <2>5, <2>6, <2>7, Passing, Refusing, GoingOn DEF Points
<1>7. ASSUME Refresh(p)
      PROVE  Typed'
  <2>1. pc[p] = "refresh"
    BY <1>7 DEF Refresh
  <2>2. Informed("reread", call[p])
    BY <2>1 DEF Typed, Held, Informed, WithoutPlan, WithoutProfile
  <2>3. Pass(p, "reread") \/ Refuse(p, "ERROR")
    BY <1>7 DEF Refresh
  <2>4. QED
    BY <2>1, <2>2, <2>3, Passing, Refusing DEF Points, Statuses
<1>8. ASSUME ReRead(p)
      PROVE  Typed'
  BY <1>8, ReadingKeepsTypes
  DEF ReRead, Points, Statuses, WithoutPlan, WithoutProfile
<1>9. ASSUME ReRoles(p)
      PROVE  Typed'
  <2>1. pc[p] = "reroles"
    BY <1>9 DEF ReRoles
  <2>2. Informed("capsule", call[p])
    BY <2>1 DEF Typed, Held, Informed, WithoutPlan, WithoutProfile
  <2>3. Pass(p, "capsule") \/ Refuse(p, "PLAN_EXPIRED") \/ Refuse(p, "ERROR")
    BY <1>9 DEF ReRoles
  <2>4. QED
    BY <2>1, <2>2, <2>3, Passing, Refusing DEF Points, Statuses
<1>10. ASSUME Verify(p)
       PROVE  Typed'
  <2>1. pc[p] = "verify"
    BY <1>10 DEF Verify
  <2>2. call[p].key \in Keys
    BY <2>1, TypedCall
  <2>3. \/ Finish(p, "EXECUTED_VERIFIED", "closed")
        \/ Finish(p, "EXECUTED_UNCERTAIN", "closed")
    BY <1>10 DEF Verify
  <2>4. QED
    BY <2>2, <2>3, Ending DEF Finish, Statuses
<1>11. ASSUME Fail(p)
       PROVE  Typed'
  <2>1. pc[p] # "idle" /\ Refuse(p, "ERROR")
    BY <1>11 DEF Fail
  <2>2. QED
    BY <2>1, Refusing DEF Statuses
<1>12. QED
  BY <1>2, <1>3, <1>4, <1>5, <1>6, <1>7, <1>8, <1>9, <1>10, <1>11 DEF AskStep

LEMMA AskingKeepsRest ==
    ASSUME RestOK, NEW p \in Processes, AskStep(p)
    PROVE  RestOK'
<1>1. UNCHANGED <<now, policy, loaded, files, tenant, history>>
  BY DEF AskStep, Claim, Authorize, PreRead, PreRoles, Gate, Refresh, ReRead,
         ReadUser, ReRoles, Verify, Fail
<1>2. QED
  BY <1>1 DEF RestOK, files, tenant, history

LEMMA PreparingKeepsTypes ==
    ASSUME Typed, RestOK, NEW p \in Processes, Prepare(p)
    PROVE  Typed' /\ RestOK'
<1> DEFINE plan == NewPlan(p)
           request == requests[plan.key]
           reuse == plan.policy = "explicit" /\ Reusable(plan, request)
           made == IF reuse THEN request ELSE plan
           c == [call[p] EXCEPT !.plan = made]
<1>1. pc[p] = "prepare"
  BY DEF Prepare, At
<1>2. call[p] \in Calls /\ call[p].key \in Keys /\ call[p].seen \in Profiles
  BY <1>1, TypedCall DEF Typed, Held, Informed, WithoutProfile
<1>3. plan \in Plans /\ plan.key \in Keys
  BY <1>2 DEF NewPlan, Plans, RestOK
<1>4. made \in Plans
  <2>1. request \in Plans \cup {None}
    BY <1>3 DEF RestOK
  <2>2. reuse => request # None
    BY DEF Reusable
  <2>3. QED
    BY <1>3, <2>1, <2>2
<1>5. c \in Calls /\ c.plan = made /\ c.seen = call[p].seen
  BY <1>2, <1>4 DEF Calls
<1>6. Informed("gate", c)
  BY <1>2, <1>4, <1>5 DEF Informed
<1>7. With(p, c) /\ Goto(p, "gate") /\ UNCHANGED <<ledger, record>>
  BY DEF Prepare
<1>8. \/ requests' = [requests EXCEPT ![plan.key] = plan]
      \/ requests' = requests
  BY DEF Prepare
<1>9. UNCHANGED <<now, policy, loaded, approvals, consumed, capsules, tenant,
                  history>>
  BY DEF Prepare
<1>10. Typed'
  <2> HIDE DEF c
  <2>1. QED
    BY <1>5, <1>6, <1>7, GoingOn DEF Points
<1>11. RestOK'
  <2> HIDE DEF plan
  <2>1. requests' \in [Keys -> Plans \cup {None}]
    BY <1>3, <1>8 DEF RestOK
  <2>2. QED
    BY <1>9, <2>1 DEF RestOK, tenant, history
<1>12. QED
  BY <1>10, <1>11

LEMMA StoringKeepsTypes ==
    ASSUME Typed, RestOK, NEW p \in Processes, StoreCapsule(p)
    PROVE  Typed' /\ RestOK'
<1>1. pc[p] = "capsule"
  BY DEF StoreCapsule, At
<1>2. call[p].key \in Keys /\ call[p].plan.pre \in Profiles
  BY <1>1, TypedCall DEF Typed, Held, Informed, WithoutProfile, WithoutPlan, Plans
<1>3. Typed'
  <2>1. Informed("burn", call[p])
    BY <1>1 DEF Typed, Held, Informed, WithoutPlan, WithoutProfile
  <2>2. QED
    BY <1>1, <2>1, Passing DEF StoreCapsule, Points
<1>4. capsules' \subseteq [key : Keys, previous : Profiles]
  BY <1>2 DEF StoreCapsule, RestOK
<1>5. QED
  BY <1>3, <1>4 DEF StoreCapsule, RestOK, tenant, history

LEMMA BurningKeepsTypes ==
    ASSUME Typed, RestOK, NEW p \in Processes, Burn(p)
    PROVE  Typed' /\ RestOK'
<1>1. pc[p] = "burn"
  BY DEF Burn, At
<1>2. call[p].grant \in Grants \cup {None}
  BY <1>1, TypedCall DEF Calls
<1>3. Informed("patch", call[p])
  BY <1>1 DEF Typed, Held, Informed, WithoutPlan, WithoutProfile
<1>4. Pass(p, "patch") \/ Refuse(p, "BLOCKED_PRECONDITION")
  BY DEF Burn
<1>5. Typed'
  BY <1>1, <1>3, <1>4, Passing, Refusing DEF Points, Statuses
<1>6. consumed' \subseteq 1..MaxGrants
  BY <1>2 DEF Burn, RestOK, Grants
<1>7. QED
  BY <1>5, <1>6 DEF Burn, RestOK, tenant, history

\* The part of a PATCH that Graph plays.
LEMMA TakingKeepsTypes ==
    ASSUME Typed, RestOK, NEW p \in Processes, pc[p] # "idle",
           Taken(p) \/ UNCHANGED tenant
    PROVE  /\ user' \in Users
           /\ effects' \in [Keys -> Nat]
           /\ late' \subseteq Keys
           /\ replaced' \in [Keys -> Profiles \cup {None}]
<1> DEFINE k == call[p].key
<1>1. k \in Keys /\ Wanted[k] \in Profiles
  BY TypedCall, GovernedAssumption
<1>2. CASE UNCHANGED tenant
  BY <1>2 DEF tenant, RestOK
<1>3. CASE Taken(p)
  <2>1. effects' = [effects EXCEPT ![k] = @ + 1]
    BY <1>3 DEF Taken
  <2>2. \/ /\ user' = [user EXCEPT !.profile = Wanted[k]]
           /\ replaced' = [replaced EXCEPT
                              ![k] = IF "user" \in call[p].moved THEN None
                                     ELSE user.profile]
           /\ UNCHANGED late
        \/ late' = late \cup {k} /\ UNCHANGED <<user, replaced>>
    BY <1>3 DEF Taken
  <2>3. user.profile \in Profiles
    BY DEF RestOK, Users
  <2> HIDE DEF k
  <2>4. user' \in Users
    BY <1>1, <2>2 DEF RestOK, Users
  <2>5. effects' \in [Keys -> Nat]
    BY <1>1, <2>1 DEF RestOK
  <2>6. late' \subseteq Keys
    BY <1>1, <2>2 DEF RestOK
  <2>7. replaced' \in [Keys -> Profiles \cup {None}]
    BY <1>1, <2>2, <2>3 DEF RestOK
  <2>8. QED
    BY <2>4, <2>5, <2>6, <2>7
<1>4. QED
  BY <1>2, <1>3

\* The calls beside a change of the user's profile.
Beside == IF user' # user THEN Moved("user") ELSE call

LEMMA BesideIsTyped ==
    ASSUME Typed
    PROVE  /\ Beside \in [Processes -> Calls \cup {None}]
           /\ \A p \in Processes :
                 /\ Beside[p] = None <=> pc[p] = "idle"
                 /\ Informed(pc[p], Beside[p])
                 /\ pc[p] # "idle" =>
                       /\ Beside[p] \in Calls
                       /\ Beside[p].key = call[p].key
                       /\ Beside[p].plan = call[p].plan
                       /\ Beside[p].grant = call[p].grant
<1>1. CASE user' # user
  BY <1>1, Moving DEF Beside
<1>2. CASE user' = user
  BY <1>2, TypedCall DEF Beside, Typed, CallsOK, Held
<1>3. QED
  BY <1>1, <1>2

\* How the PATCH of a call may end.
LEMMA PatchCases ==
    ASSUME NEW p \in Processes, Patch(p)
    PROVE  /\ At(p, "patch")
           /\ Taken(p) \/ UNCHANGED tenant
           /\ \/ /\ call' = Beside
                 /\ Goto(p, "verify")
                 /\ UNCHANGED <<record, ledger>>
              \/ \E row \in {"free", "closed"},
                    status \in Statuses \ {"PLAN_EXPIRED"} :
                    /\ row = "free" => UNCHANGED tenant
                    /\ Goto(p, "idle")
                    /\ call' = [Beside EXCEPT ![p] = None]
                    /\ record' = [record EXCEPT ![call[p].key] = status]
                    /\ ledger' = [ledger EXCEPT ![call[p].key] = row]
           /\ sent' = IF call[p].grant = None THEN sent
                      ELSE [sent EXCEPT ![call[p].grant.id] = @ + 1]
           /\ UNCHANGED <<now, policy, loaded, files, issued, changes, losses>>
BY DEF Patch, Beside, RowAfter, Statuses

LEMMA PatchingKeepsTypes ==
    ASSUME Typed, RestOK, NEW p \in Processes, Patch(p)
    PROVE  Typed' /\ RestOK'
<1>1. pc[p] = "patch"
  BY PatchCases DEF At
<1>2. call[p] \in Calls /\ call[p].key \in Keys
  BY <1>1, TypedCall
<1>3. ASSUME call' = Beside, Goto(p, "verify"), UNCHANGED <<record, ledger>>
      PROVE  Typed'
  <2> DEFINE after == Beside
  <2>0. /\ after \in [Processes -> Calls \cup {None}]
        /\ \A q \in Processes : after[q] = None <=> pc[q] = "idle"
    BY BesideIsTyped
  <2>1. CallsOK'
    <3>1. call' = after
      BY <1>3
    <3> HIDE DEF after
    <3>2. pc' \in [Processes -> Points]
      BY <1>3 DEF Typed, CallsOK, Goto, Points
    <3>3. \A q \in Processes : call'[q] = None <=> pc'[q] = "idle"
      BY <1>1, <1>3, <2>0, <3>1 DEF Typed, CallsOK, Goto
    <3>4. QED
      BY <1>3, <2>0, <3>1, <3>2, <3>3 DEF Typed, CallsOK
  <2>2. Informed("verify", Beside[p])
    BY <1>1, BesideIsTyped DEF Informed, WithoutPlan, WithoutProfile
  <2>3. Held'
    BY <1>3, <2>2, BesideIsTyped DEF Typed, CallsOK, Held, Goto
  <2>4. QED
    BY <2>1, <2>3 DEF Typed
<1>4. ASSUME NEW row \in {"free", "closed"}, NEW status \in Statuses,
             Goto(p, "idle"),
             call' = [Beside EXCEPT ![p] = None],
             record' = [record EXCEPT ![call[p].key] = status],
             ledger' = [ledger EXCEPT ![call[p].key] = row]
      PROVE  Typed'
  <2> DEFINE after == Beside
  <2>0. /\ after \in [Processes -> Calls \cup {None}]
        /\ \A q \in Processes : after[q] = None <=> pc[q] = "idle"
    BY BesideIsTyped
  <2>1. CallsOK'
    <3>1. call' = [after EXCEPT ![p] = None]
      BY <1>4
    <3> HIDE DEF after
    <3>2. pc' \in [Processes -> Points]
      BY <1>4 DEF Typed, CallsOK, Goto, Points
    <3>3. call' \in [Processes -> Calls \cup {None}]
      BY <2>0, <3>1
    <3>4. \A q \in Processes : call'[q] = None <=> pc'[q] = "idle"
      BY <1>4, <2>0, <3>1 DEF Typed, CallsOK, Goto
    <3>5. /\ ledger' \in [Keys -> {"free", "claimed", "closed"}]
          /\ record' \in [Keys -> Statuses \cup {None}]
      BY <1>2, <1>4 DEF Typed, CallsOK
    <3>6. QED
      BY <3>2, <3>3, <3>4, <3>5 DEF CallsOK
  <2>2. Held'
    BY <1>4, BesideIsTyped
    DEF Typed, CallsOK, Held, Goto, Informed, WithoutPlan, WithoutProfile
  <2>3. QED
    BY <2>1, <2>2 DEF Typed
<1>5. Typed'
  BY <1>3, <1>4, PatchCases
<1>6. sent' \in [1..MaxGrants -> Nat]
  <2>1. call[p].grant # None => call[p].grant.id \in 1..MaxGrants
    BY <1>2 DEF Calls, Grants
  <2>2. QED
    BY <2>1, PatchCases DEF RestOK
<1>7. /\ user' \in Users
      /\ effects' \in [Keys -> Nat]
      /\ late' \subseteq Keys
      /\ replaced' \in [Keys -> Profiles \cup {None}]
  BY <1>1, PatchCases, TakingKeepsTypes
<1>8. UNCHANGED <<now, policy, loaded, files, issued, changes, losses>>
  BY PatchCases
<1>9. RestOK'
  BY <1>6, <1>7, <1>8 DEF RestOK, files
<1>10. QED
  BY <1>5, <1>9

\* A step of the rest of the world keeps the points of the calls.
LEMMA StandingBy ==
    ASSUME Typed, UNCHANGED <<pc, ledger, record>>,
           \/ UNCHANGED call
           \/ \E what \in {"policy", "user", "roles"} : call' = Moved(what)
    PROVE  Typed'
<1>1. CASE UNCHANGED call
  BY <1>1 DEF Typed, CallsOK, Held
<1>2. CASE \E what \in {"policy", "user", "roles"} : call' = Moved(what)
  <2>1. CallsOK'
    BY <1>2, Moving DEF Typed, CallsOK
  <2>2. Held'
    BY <1>2, Moving DEF Held
  <2>3. QED
    BY <2>1, <2>2 DEF Typed
<1>3. QED
  BY <1>1, <1>2

OtherStep ==
    \/ \E k \in Keys : LateEffect(k) \/ Sign(k) \/ Discard(k)
    \/ \E p \in Processes : Restart(p)
    \/ ChangePolicy \/ ChangeUser \/ Tick

LEMMA OthersKeepTypes ==
    ASSUME Typed, RestOK, OtherStep
    PROVE  Typed' /\ RestOK'
<1>1. Typed'
  <2>1. UNCHANGED <<pc, ledger, record>>
    BY DEF OtherStep, LateEffect, Sign, Discard, Restart, ChangePolicy,
           ChangeUser, Tick
  <2>2. \/ UNCHANGED call
        \/ \E what \in {"policy", "user", "roles"} : call' = Moved(what)
    BY DEF OtherStep, LateEffect, Sign, Discard, Restart, ChangePolicy,
           ChangeUser, Tick
  <2>3. QED
    BY <2>1, <2>2, StandingBy
<1>2. ASSUME NEW k \in Keys, LateEffect(k)
      PROVE  RestOK'
  <2>1. user' = [user EXCEPT !.profile = Wanted[k]] /\ late' = late \ {k}
    BY <1>2 DEF LateEffect
  <2>2. user' \in Users
    BY <2>1, GovernedAssumption DEF RestOK, Users
  <2>3. QED
    BY <1>2, <2>1, <2>2 DEF LateEffect, RestOK, files, history
<1>3. ASSUME NEW k \in Keys, Sign(k)
      PROVE  RestOK'
  <2> DEFINE plan == requests[k]
             end == Least(now + GrantTTL, Expires(plan))
             grant == [id |-> issued + 1, plan |-> plan, issued |-> now,
                       expires |-> end]
  <2>1. plan \in Plans /\ plan.created \in Times
    BY <1>3 DEF Sign, RestOK, Plans
  <2>2. /\ now \in Nat /\ GrantTTL \in Nat /\ MaxGrants \in Nat
        /\ PlanTTL \in Nat /\ MaxTime \in Nat /\ issued \in Nat
        /\ issued < MaxGrants
    BY <1>3, GovernedAssumption DEF Sign, RestOK, Times
  <2>3. end \in Deadlines
    BY <2>1, <2>2 DEF Least, Expires, Deadlines, Times
  <2>4. issued + 1 \in 1..MaxGrants
    BY <2>2
  <2>5. grant \in Grants
    BY <2>1, <2>3, <2>4 DEF Grants, RestOK
  <2>6. /\ approvals' = [approvals EXCEPT ![k] = grant]
        /\ issued' = issued + 1
    BY <1>3 DEF Sign
  <2> HIDE DEF grant
  <2>7. approvals' \in [Keys -> Grants \cup {None}]
    BY <2>5, <2>6 DEF RestOK
  <2>8. issued' \in 0..MaxGrants
    BY <2>2, <2>6
  <2>9. QED
    BY <1>3, <2>7, <2>8 DEF Sign, RestOK, tenant
<1>4. ASSUME NEW k \in Keys, Discard(k)
      PROVE  RestOK'
  BY <1>4 DEF Discard, RestOK, tenant, history
<1>5. ASSUME NEW p \in Processes, Restart(p)
      PROVE  RestOK'
  BY <1>5 DEF Restart, RestOK, files, tenant, history
<1>6. changes \in Nat /\ MaxChanges \in Nat /\ now \in Nat /\ MaxTime \in Nat
  BY GovernedAssumption DEF RestOK, Times
<1>7. ASSUME ChangePolicy
      PROVE  RestOK'
  <2>1. changes' \in 0..MaxChanges
    BY <1>6, <1>7 DEF ChangePolicy, ChangeCounted
  <2>2. QED
    BY <1>7, <2>1 DEF ChangePolicy, RestOK, files, tenant
<1>8. ASSUME ChangeUser
      PROVE  RestOK'
  <2>1. changes' \in 0..MaxChanges
    BY <1>6, <1>8 DEF ChangeUser, ChangeCounted
  <2>2. user' \in Users
    BY <1>8 DEF ChangeUser, RestOK, Users
  <2>3. QED
    BY <1>8, <2>1, <2>2 DEF ChangeUser, RestOK, files
<1>9. ASSUME Tick
      PROVE  RestOK'
  <2>1. now' \in Times
    BY <1>6, <1>9 DEF Tick, Times
  <2>2. QED
    BY <1>9, <2>1 DEF Tick, RestOK, files, tenant, history
<1>10. QED
  BY <1>1, <1>2, <1>3, <1>4, <1>5, <1>7, <1>8, <1>9 DEF OtherStep

LEMMA LosingKeepsTypes ==
    ASSUME Typed, RestOK, NEW p \in Processes, Lose(p)
    PROVE  Typed' /\ RestOK'
<1>1. losses \in Nat /\ MaxLosses \in Nat
  BY GovernedAssumption DEF RestOK
<1>2. losses' \in 0..MaxLosses
  BY <1>1 DEF Lose
<1>3. Goto(p, "idle") /\ With(p, None) /\ UNCHANGED <<ledger, record>>
  BY DEF Lose
<1>4. CallsOK'
  BY <1>3, NoneAssumption DEF Typed, CallsOK, Goto, With, Points
<1>5. Held'
  BY <1>3
  DEF Typed, CallsOK, Held, Goto, With, Informed, WithoutProfile, WithoutPlan
<1>6. QED
  BY <1>2, <1>4, <1>5 DEF Typed, Lose, RestOK, files, tenant

-----------------------------------------------------------------------------

TypesInv == Typed /\ RestOK

LEMMA TypesInit == Init => TypesInv
<1> SUFFICES ASSUME Init PROVE TypesInv
  OBVIOUS
<1>1. CallsOK
  BY DEF Init, CallsOK, Points
<1>2. Held
  BY DEF Init, Held, Informed, WithoutProfile, WithoutPlan
<1>3. RestOK
  <2>1. user \in Users
    BY DEF Init, Users
  <2>2. /\ now \in Times
        /\ issued \in 0..MaxGrants /\ changes \in 0..MaxChanges
        /\ losses \in 0..MaxLosses
    BY GovernedAssumption DEF Init, Times
  <2>3. QED
    BY <2>1, <2>2 DEF Init, RestOK
<1>4. QED
  BY <1>1, <1>2, <1>3 DEF TypesInv, Typed

LEMMA TypesStep == TypesInv /\ [Next]_vars => TypesInv'
<1> SUFFICES ASSUME Typed, RestOK, [Next]_vars PROVE Typed' /\ RestOK'
  BY DEF TypesInv
<1>1. ASSUME NEW p \in Processes, AskStep(p)
      PROVE  Typed' /\ RestOK'
  BY <1>1, AskingKeepsTypes, AskingKeepsRest
<1>2. ASSUME NEW p \in Processes,
             Prepare(p) \/ StoreCapsule(p) \/ Burn(p) \/ Patch(p) \/ Lose(p)
      PROVE  Typed' /\ RestOK'
  BY <1>2, PreparingKeepsTypes, StoringKeepsTypes, BurningKeepsTypes,
     PatchingKeepsTypes, LosingKeepsTypes
<1>3. CASE OtherStep
  BY <1>3, OthersKeepTypes
<1>4. CASE UNCHANGED vars
  <2>1. UNCHANGED <<pc, call, ledger, record>>
    BY <1>4 DEF vars
  <2>2. UNCHANGED <<now, user, policy, loaded, requests, approvals, consumed,
                    capsules, effects, late, sent, replaced, issued, changes,
                    losses>>
    BY <1>4 DEF vars, files, tenant, history
  <2>3. Typed'
    BY <2>1, StandingBy
  <2>4. RestOK'
    BY <2>2 DEF RestOK
  <2>5. QED
    BY <2>3, <2>4
<1>5. QED
  BY <1>1, <1>2, <1>3, <1>4 DEF Next, Step, AskStep, OtherStep

\* Files, ledgers, grants and calls in progress keep their types, a process is idle
\* exactly when it serves no call, and a call past its preflight has a plan.
THEOREM TypesAreInvariant == Spec => []TypeOK
<1>1. TypesInv => TypeOK
  BY DEF TypesInv, Typed, CallsOK, RestOK, TypeOK
<1>2. QED
  BY <1>1, TypesInit, TypesStep, PTL DEF Spec

-----------------------------------------------------------------------------
(***************************************************************************)
(* What happens at most once in GovernedWrite: an approval pays for one    *)
(* PATCH, a key has one effect, and a record that allows a retry had none. *)
(*                                                                         *)
(* Every step is first reduced to its shape: what it does to the points,   *)
(* the keys and the grants of the calls.  The invariants are about those.  *)
(***************************************************************************)

Same(q) ==
    pc[q] # "idle" => /\ call'[q].key = call[q].key
                      /\ call'[q].grant = call[q].grant

Others(p) == \A q \in Processes \ {p} : pc'[q] = pc[q] /\ Same(q)

\* Nobody's call moves.
Standing ==
    /\ \A q \in Processes : pc'[q] = pc[q] /\ Same(q)
    /\ UNCHANGED <<ledger, record, effects, sent, consumed>>

\* The call of p starts.
Starting(p, k) ==
    /\ pc[p] = "idle" /\ pc'[p] = "authorize"
    /\ call'[p].key = k
    /\ ledger[k] = "free"
    /\ ledger' = [ledger EXCEPT ![k] = "claimed"]
    /\ record' = [record EXCEPT ![k] = None]
    /\ Others(p)
    /\ UNCHANGED <<effects, sent, consumed>>

\* The call of p goes on; where it comes to its PATCH, it has just consumed its grant.
Continuing(p) ==
    /\ pc[p] \notin {"idle", "patch", "verify"}
    /\ pc'[p] \notin {"idle", "verify"}
    /\ call'[p].key = call[p].key
    /\ pc'[p] = "patch" =>
           /\ call'[p].grant = call[p].grant
           /\ call[p].grant # None => /\ call[p].grant.id \notin consumed
                                      /\ call[p].grant.id \in consumed'
    /\ consumed \subseteq consumed'
    /\ Others(p)
    /\ UNCHANGED <<ledger, record, effects, sent>>

\* The call of p ends without sending its PATCH, or after it.
Stopping(p) ==
    /\ pc[p] \notin {"idle", "patch"} /\ pc'[p] = "idle"
    /\ \E row \in {"free", "closed"}, status \in Statuses :
          /\ pc[p] = "verify" => row = "closed" /\ status # "PLAN_EXPIRED"
          /\ record' = [record EXCEPT ![call[p].key] = status]
          /\ ledger' = [ledger EXCEPT ![call[p].key] = row]
    /\ Others(p)
    /\ UNCHANGED <<effects, sent, consumed>>

\* The call of p sends its PATCH.
Sending(p) ==
    /\ pc[p] = "patch"
    /\ effects' \in {effects, [effects EXCEPT ![call[p].key] = @ + 1]}
    /\ \/ /\ pc'[p] = "verify"
          /\ call'[p].key = call[p].key
          /\ UNCHANGED <<record, ledger>>
       \/ /\ pc'[p] = "idle"
          /\ \E row \in {"free", "closed"}, status \in Statuses \ {"PLAN_EXPIRED"} :
                /\ row = "free" => effects' = effects
                /\ record' = [record EXCEPT ![call[p].key] = status]
                /\ ledger' = [ledger EXCEPT ![call[p].key] = row]
    /\ sent' = IF call[p].grant = None THEN sent
               ELSE [sent EXCEPT ![call[p].grant.id] = @ + 1]
    /\ Others(p)
    /\ UNCHANGED consumed

\* The call of p is lost.
Losing(p) ==
    /\ pc[p] # "idle" /\ pc'[p] = "idle"
    /\ Others(p)
    /\ UNCHANGED <<ledger, record, effects, sent, consumed>>

-----------------------------------------------------------------------------
(***************************************************************************)
(* Every step has a shape.                                                 *)
(***************************************************************************)

LEMMA OwnMove ==
    ASSUME Typed, NEW p \in Processes, NEW point, Goto(p, point),
           (\E c : With(p, c)) \/ UNCHANGED call
    PROVE  pc'[p] = point /\ Others(p)
BY DEF Typed, CallsOK, Goto, With, Others, Same

LEMMA PassingContinues ==
    ASSUME Typed, NEW p \in Processes,
           NEW point \in Points \ {"idle", "verify", "patch"},
           pc[p] \notin {"idle", "patch", "verify"},
           Pass(p, point), UNCHANGED <<effects, sent, consumed>>
    PROVE  Continuing(p)
<1>1. Goto(p, point) /\ UNCHANGED <<call, ledger, record>>
  BY DEF Pass
<1>2. pc'[p] = point /\ Others(p)
  BY <1>1, OwnMove
<1>3. QED
  BY <1>1, <1>2 DEF Continuing

LEMMA UpdatingContinues ==
    ASSUME Typed, NEW p \in Processes,
           NEW point \in Points \ {"idle", "verify", "patch"}, NEW c \in Calls,
           pc[p] \notin {"idle", "patch", "verify"},
           Goto(p, point), With(p, c), c.key = call[p].key,
           UNCHANGED <<ledger, record, effects, sent, consumed>>
    PROVE  Continuing(p)
<1>1. pc'[p] = point /\ Others(p)
  BY OwnMove
<1>2. call'[p] = c
  BY DEF Typed, CallsOK, With
<1>3. QED
  BY <1>1, <1>2 DEF Continuing

LEMMA FinishingStops ==
    ASSUME Typed, NEW p \in Processes, pc[p] \notin {"idle", "patch"},
           NEW status \in Statuses, NEW row \in {"free", "closed"},
           Finish(p, status, row),
           pc[p] = "verify" => row = "closed" /\ status # "PLAN_EXPIRED",
           UNCHANGED <<effects, sent, consumed>>
    PROVE  Stopping(p)
<1>1. pc'[p] = "idle" /\ Others(p)
  BY OwnMove DEF Finish
<1>2. QED
  BY <1>1 DEF Stopping, Finish

LEMMA RefusingStops ==
    ASSUME Typed, NEW p \in Processes, pc[p] \notin {"idle", "patch", "verify"},
           NEW status \in Statuses, Refuse(p, status),
           UNCHANGED <<effects, sent, consumed>>
    PROVE  Stopping(p)
<1>1. PICK row \in {"free", "closed"} : Finish(p, status, row)
  BY DEF Refuse
<1>2. QED
  BY <1>1, FinishingStops

\* The steps of AskStep but Claim.
LEMMA AskingHasShape ==
    ASSUME TypesInv, NEW p \in Processes, AskStep(p)
    PROVE  \/ \E k \in Keys : Starting(p, k)
           \/ Continuing(p) \/ Stopping(p)
<1> USE DEF At
<1>0. Typed /\ RestOK
  BY DEF TypesInv
<1>1. UNCHANGED <<effects, sent, consumed>>
  BY DEF AskStep, Claim, Authorize, PreRead, PreRoles, Gate, Refresh, ReRead,
         ReadUser, ReRoles, Verify, Fail, tenant, history, files
<1>2. ASSUME NEW k \in Keys, Claim(p, k)
      PROVE  Starting(p, k)
  <2> DEFINE c == [key |-> k, seen |-> None, plan |-> None, grant |-> None,
                   moved |-> {}]
  <2>1. Goto(p, "authorize") /\ With(p, c) /\ c.key = k
    BY <1>2 DEF Claim
  <2> HIDE DEF c
  <2>2. pc'[p] = "authorize" /\ Others(p)
    BY <1>0, <2>1, OwnMove
  <2>3. call'[p] = c
    BY <1>0, <2>1 DEF With, Typed, CallsOK
  <2>4. QED
    BY <1>1, <1>2, <2>1, <2>2, <2>3 DEF Claim, Starting
<1>3. ASSUME NEW here \in {"read", "reread"}, NEW next \in {"roles", "reroles"},
             NEW refusal \in Statuses, ReadUser(p, here, next, refusal)
      PROVE  Continuing(p) \/ Stopping(p)
  <2>1. pc[p] \notin {"idle", "patch", "verify"}
    BY <1>3 DEF ReadUser
  <2>2. CASE Refuse(p, refusal)
    BY <1>0, <1>1, <2>1, <2>2, <1>3, RefusingStops
  <2>3. CASE ~Refuse(p, refusal)
    <3> DEFINE c == [call[p] EXCEPT !.seen = user.profile]
    <3>1. Goto(p, next) /\ With(p, c) /\ UNCHANGED <<ledger, record>>
      BY <1>3, <2>3 DEF ReadUser
    <3>2. call[p] \in Calls /\ user.profile \in Profiles
      BY <1>0, <2>1, TypedCall DEF RestOK, Users
    <3>3. c \in Calls /\ c.key = call[p].key
      BY <3>2 DEF Calls
    <3> HIDE DEF c
    <3>4. next \in Points \ {"idle", "verify", "patch"}
      BY <1>3 DEF Points
    <3>5. QED
      BY <1>0, <1>1, <2>1, <3>1, <3>3, <3>4, UpdatingContinues
  <2>4. QED
    BY <2>2, <2>3
<1>4. ASSUME PreRead(p) \/ ReRead(p)
      PROVE  Continuing(p) \/ Stopping(p)
  BY <1>3, <1>4 DEF PreRead, ReRead, Statuses
<1>5. ASSUME Authorize(p) \/ PreRoles(p) \/ Refresh(p) \/ ReRoles(p) \/ Fail(p)
      PROVE  Continuing(p) \/ Stopping(p)
  <2>1. pc[p] \notin {"idle", "patch", "verify"}
    BY <1>5 DEF Authorize, PreRoles, Refresh, ReRoles, Fail
  <2>2. \/ \E point \in {"read", "prepare", "reread", "capsule"} : Pass(p, point)
        \/ \E status \in Statuses : Refuse(p, status)
    BY <1>5 DEF Authorize, PreRoles, Refresh, ReRoles, Fail, Statuses
  <2>3. ASSUME NEW point \in {"read", "prepare", "reread", "capsule"},
               Pass(p, point)
        PROVE  Continuing(p)
    <3>1. point \in Points \ {"idle", "verify", "patch"}
      BY DEF Points
    <3>2. QED
      BY <1>0, <1>1, <2>1, <2>3, <3>1, PassingContinues
  <2>4. QED
    BY <1>0, <1>1, <2>1, <2>2, <2>3, RefusingStops
<1>6. ASSUME Gate(p)
      PROVE  Continuing(p) \/ Stopping(p)
  <2> DEFINE grant == approvals[call[p].plan.key]
             c == [call[p] EXCEPT !.grant = grant]
  <2>1. pc[p] = "gate" /\ "refresh" \in Points \ {"idle", "verify", "patch"}
    BY <1>6 DEF Gate, Points
  <2>2. call[p] \in Calls /\ call[p].plan \in Plans
    BY <1>0, <2>1, TypedCall DEF Typed, Held, Informed, WithoutPlan, WithoutProfile
  <2>3. grant \in Grants \cup {None}
    BY <1>0, <2>2 DEF RestOK, Plans
  <2>4. c \in Calls /\ c.key = call[p].key
    BY <2>2, <2>3 DEF Calls
  <2>5. \/ \E status \in Statuses : Refuse(p, status)
        \/ Pass(p, "refresh")
        \/ Goto(p, "refresh") /\ With(p, c) /\ UNCHANGED <<record, ledger>>
    BY <1>6 DEF Gate, Statuses
  <2> HIDE DEF c, grant
  <2>6. QED
    BY <1>0, <1>1, <2>1, <2>4, <2>5, RefusingStops, PassingContinues,
       UpdatingContinues
<1>7. ASSUME Verify(p)
      PROVE  Stopping(p)
  <2>1. /\ pc[p] = "verify"
        /\ \E status \in {"EXECUTED_VERIFIED", "EXECUTED_UNCERTAIN"} :
               Finish(p, status, "closed")
    BY <1>7 DEF Verify
  <2>2. \A status \in {"EXECUTED_VERIFIED", "EXECUTED_UNCERTAIN"} :
            status \in Statuses /\ status # "PLAN_EXPIRED"
    BY DEF Statuses
  <2>3. QED
    BY <1>0, <1>1, <2>1, <2>2, FinishingStops
<1>8. QED
  BY <1>2, <1>4, <1>5, <1>6, <1>7 DEF AskStep

LEMMA PreparingHasShape ==
    ASSUME TypesInv, NEW p \in Processes, Prepare(p)
    PROVE  Continuing(p)
<1> DEFINE c == call'[p]
<1>1. pc[p] = "prepare" /\ Goto(p, "gate") /\ \E d : With(p, d)
  BY DEF Prepare, At
<1>2. pc'[p] = "gate" /\ Others(p)
  BY <1>1, OwnMove DEF TypesInv
<1>3. call[p] \in Calls
  BY <1>1, TypedCall DEF TypesInv
<1>4. c.key = call[p].key
  BY <1>3 DEF Prepare, With, Calls, TypesInv, Typed, CallsOK
<1>5. UNCHANGED <<ledger, record, effects, sent, consumed>>
  BY DEF Prepare, tenant, history
<1>6. QED
  BY <1>1, <1>2, <1>4, <1>5 DEF Continuing

LEMMA StoringHasShape ==
    ASSUME TypesInv, NEW p \in Processes, StoreCapsule(p)
    PROVE  Continuing(p)
<1>1. pc[p] = "capsule" /\ Pass(p, "burn") /\ "burn" \in Points
  BY DEF StoreCapsule, At, Points
<1>2. UNCHANGED <<effects, sent, consumed>>
  BY DEF StoreCapsule, tenant, history
<1>3. QED
  BY <1>1, <1>2, PassingContinues DEF TypesInv

LEMMA BurningHasShape ==
    ASSUME TypesInv, NEW p \in Processes, Burn(p)
    PROVE  Continuing(p) \/ Stopping(p)
<1>1. pc[p] = "burn" /\ UNCHANGED <<effects, sent>>
  BY DEF Burn, At, tenant, history
<1>2. ASSUME Pass(p, "patch"),
             \/ call[p].grant = None /\ UNCHANGED consumed
             \/ /\ call[p].grant.id \notin consumed
                /\ consumed' = consumed \cup {call[p].grant.id}
      PROVE  Continuing(p)
  <2>1. Goto(p, "patch") /\ UNCHANGED <<call, ledger, record>>
    BY <1>2 DEF Pass
  <2>2. pc'[p] = "patch" /\ Others(p)
    BY <2>1, OwnMove DEF TypesInv
  <2>3. QED
    BY <1>1, <1>2, <2>1, <2>2 DEF Continuing
<1>3. ASSUME Refuse(p, "BLOCKED_PRECONDITION"), UNCHANGED consumed
      PROVE  Stopping(p)
  BY <1>1, <1>3, RefusingStops DEF TypesInv, Statuses
<1>4. QED
  BY <1>2, <1>3 DEF Burn

LEMMA PatchingHasShape ==
    ASSUME TypesInv, NEW p \in Processes, Patch(p)
    PROVE  Sending(p)
<1>1. pc[p] = "patch" /\ Typed
  BY DEF Patch, At, TypesInv
<1>2. effects' \in {effects, [effects EXCEPT ![call[p].key] = @ + 1]}
  BY PatchCases DEF Taken, tenant
<1>3. UNCHANGED consumed
  BY PatchCases DEF files
<1>4. sent' = IF call[p].grant = None THEN sent
              ELSE [sent EXCEPT ![call[p].grant.id] = @ + 1]
  BY PatchCases
<1>5. ASSUME call' = Beside, Goto(p, "verify"), UNCHANGED <<record, ledger>>
      PROVE  Sending(p)
  <2>1. pc'[p] = "verify" /\ call'[p].key = call[p].key /\ Others(p)
    BY <1>1, <1>5, BesideIsTyped DEF Goto, Typed, CallsOK, Others, Same
  <2>2. QED
    BY <1>1, <1>2, <1>3, <1>4, <1>5, <2>1 DEF Sending
<1>6. ASSUME NEW row \in {"free", "closed"}, NEW status \in Statuses \ {"PLAN_EXPIRED"},
             row = "free" => UNCHANGED tenant,
             Goto(p, "idle"),
             call' = [Beside EXCEPT ![p] = None],
             record' = [record EXCEPT ![call[p].key] = status],
             ledger' = [ledger EXCEPT ![call[p].key] = row]
      PROVE  Sending(p)
  <2>1. pc'[p] = "idle" /\ Others(p)
    BY <1>1, <1>6, BesideIsTyped DEF Goto, Typed, CallsOK, Others, Same
  <2>2. row = "free" => effects' = effects
    BY <1>6 DEF tenant
  <2>3. QED
    BY <1>1, <1>2, <1>3, <1>4, <1>6, <2>1, <2>2 DEF Sending
<1>7. \/ /\ call' = Beside
         /\ Goto(p, "verify")
         /\ UNCHANGED <<record, ledger>>
      \/ \E row \in {"free", "closed"}, status \in Statuses \ {"PLAN_EXPIRED"} :
            /\ row = "free" => UNCHANGED tenant
            /\ Goto(p, "idle")
            /\ call' = [Beside EXCEPT ![p] = None]
            /\ record' = [record EXCEPT ![call[p].key] = status]
            /\ ledger' = [ledger EXCEPT ![call[p].key] = row]
  BY PatchCases
<1>8. QED
  BY <1>5, <1>6, <1>7

LEMMA LosingHasShape ==
    ASSUME TypesInv, NEW p \in Processes, Lose(p)
    PROVE  Losing(p)
<1>1. pc[p] # "idle" /\ Goto(p, "idle") /\ With(p, None)
  BY DEF Lose, At
<1>2. pc'[p] = "idle" /\ Others(p)
  BY <1>1, OwnMove DEF TypesInv
<1>3. QED
  BY <1>1, <1>2 DEF Losing, Lose, files, tenant

LEMMA OthersHaveShape ==
    ASSUME TypesInv, OtherStep \/ UNCHANGED vars
    PROVE  Standing
<1>1. UNCHANGED <<pc, ledger, record, effects, sent, consumed>>
  BY DEF OtherStep, LateEffect, Sign, Discard, Restart, ChangePolicy,
         ChangeUser, Tick, files, tenant, history, vars
<1>2. \/ UNCHANGED call
      \/ \E what \in {"policy", "user", "roles"} : call' = Moved(what)
  BY DEF OtherStep, LateEffect, Sign, Discard, Restart, ChangePolicy,
         ChangeUser, Tick, vars
<1>3. \A q \in Processes : Same(q)
  BY <1>2, Moving DEF Same, TypesInv
<1>4. QED
  BY <1>1, <1>3 DEF Standing

Shape ==
    \/ Standing
    \/ \E p \in Processes :
          \/ \E k \in Keys : Starting(p, k)
          \/ Continuing(p) \/ Stopping(p) \/ Sending(p) \/ Losing(p)

LEMMA StepsHaveShapes ==
    ASSUME TypesInv, [Next]_vars
    PROVE  Shape
<1>1. ASSUME NEW p \in Processes, Step(p) \/ Lose(p)
      PROVE  Shape
  BY <1>1, AskingHasShape, PreparingHasShape, StoringHasShape, BurningHasShape,
     PatchingHasShape, LosingHasShape DEF Step, AskStep, Shape
<1>2. ASSUME OtherStep \/ UNCHANGED vars
      PROVE  Shape
  BY <1>2, OthersHaveShape DEF Shape
<1>3. QED
  BY <1>1, <1>2 DEF Next, OtherStep

-----------------------------------------------------------------------------
(***************************************************************************)
(* An approval pays for one PATCH.                                         *)
(***************************************************************************)

Paying(p) == pc[p] = "patch" /\ call[p].grant # None

\* A spent grant is consumed; a grant about to be spent is consumed, is not spent yet,
\* and is in the hands of one call.
GrantInv ==
    /\ \A g \in 1..MaxGrants : sent[g] = 0 \/ (sent[g] = 1 /\ g \in consumed)
    /\ \A p \in Processes :
          Paying(p) => /\ call[p].grant.id \in consumed
                       /\ sent[call[p].grant.id] = 0
    /\ \A p, q \in Processes :
          Paying(p) /\ Paying(q) /\ p # q => call[p].grant.id # call[q].grant.id

LEMMA GrantId ==
    ASSUME TypesInv, NEW p \in Processes, Paying(p)
    PROVE  call[p].grant.id \in 1..MaxGrants
<1>1. call[p].grant \in Grants
  BY TypedCall DEF TypesInv, Paying, Calls
<1>2. QED
  BY <1>1 DEF Grants

\* A step after which no other call pays keeps GrantInv.
LEMMA NobodyPaysAnew ==
    ASSUME GrantInv, UNCHANGED sent, consumed \subseteq consumed',
           \A q \in Processes :
               pc'[q] = "patch" => pc[q] = "patch" /\ call'[q].grant = call[q].grant
    PROVE  GrantInv'
<1>1. \A q \in Processes :
          Paying(q)' => Paying(q) /\ call'[q].grant = call[q].grant
  BY DEF Paying
<1>2. QED
  BY <1>1 DEF GrantInv

LEMMA ContinuingKeepsGrants ==
    ASSUME TypesInv, GrantInv, NEW p \in Processes, Continuing(p)
    PROVE  GrantInv'
<1>1. CASE pc'[p] # "patch"
  BY <1>1, NobodyPaysAnew DEF Continuing, Others, Same
<1>2. CASE pc'[p] = "patch"
  <2> DEFINE id == call[p].grant.id
  <2>1. /\ call'[p].grant = call[p].grant
        /\ call[p].grant # None => id \notin consumed /\ id \in consumed'
        /\ consumed \subseteq consumed'
        /\ sent' = sent
    BY <1>2 DEF Continuing
  <2>2. \A q \in Processes \ {p} :
            Paying(q)' => Paying(q) /\ call'[q].grant = call[q].grant
    BY DEF Continuing, Others, Same, Paying
  <2>3. call[p].grant # None => id \in 1..MaxGrants
    <3>1. call[p] \in Calls
      BY TypedCall DEF Continuing, TypesInv
    <3>2. QED
      BY <3>1 DEF Calls, Grants
  <2>4. call[p].grant # None => sent[id] = 0
    BY <2>1, <2>3 DEF GrantInv
  <2>5. \A q \in Processes \ {p} :
            Paying(q)' /\ call[p].grant # None => call'[q].grant.id # id
    BY <2>1, <2>2 DEF GrantInv
  <2>6. Paying(p)' => call[p].grant # None
    BY <2>1 DEF Paying
  <2> HIDE DEF id
  <2>7. \A g \in 1..MaxGrants : sent'[g] = 0 \/ (sent'[g] = 1 /\ g \in consumed')
    BY <2>1 DEF GrantInv
  <2>8. \A q \in Processes :
            Paying(q)' => /\ call'[q].grant.id \in consumed'
                          /\ sent'[call'[q].grant.id] = 0
    BY <2>1, <2>2, <2>4, <2>6 DEF GrantInv, id
  <2>9. \A q, r \in Processes :
            Paying(q)' /\ Paying(r)' /\ q # r =>
                call'[q].grant.id # call'[r].grant.id
    BY <2>1, <2>2, <2>5, <2>6 DEF GrantInv, id
  <2>10. QED
    BY <2>7, <2>8, <2>9 DEF GrantInv
<1>3. QED
  BY <1>1, <1>2

LEMMA SendingKeepsGrants ==
    ASSUME TypesInv, GrantInv, NEW p \in Processes, Sending(p)
    PROVE  GrantInv'
<1>1. pc'[p] # "patch" /\ consumed' = consumed
  BY DEF Sending
<1>2. \A q \in Processes :
          Paying(q)' => /\ q # p /\ Paying(q)
                        /\ call'[q].grant = call[q].grant
  BY <1>1 DEF Sending, Others, Same, Paying
<1>3. CASE call[p].grant = None
  <2>1. sent' = sent
    BY <1>3 DEF Sending
  <2>2. QED
    BY <1>1, <1>2, <2>1 DEF GrantInv
<1>4. CASE call[p].grant # None
  <2> DEFINE id == call[p].grant.id
  <2>1. Paying(p)
    BY <1>4 DEF Sending, Paying
  <2>2. id \in 1..MaxGrants /\ id \in consumed /\ sent[id] = 0
    BY <2>1, GrantId DEF GrantInv
  <2>3. sent' = [sent EXCEPT ![id] = @ + 1] /\ sent \in [1..MaxGrants -> Nat]
    BY <1>4 DEF Sending, TypesInv, RestOK
  <2>4. sent'[id] = 1 /\ \A g \in (1..MaxGrants) \ {id} : sent'[g] = sent[g]
    BY <2>2, <2>3
  <2>5. \A q \in Processes :
            Paying(q)' => /\ call'[q].grant.id # id
                          /\ call'[q].grant.id \in 1..MaxGrants
    BY <1>2, <2>1, GrantId DEF GrantInv
  <2> HIDE DEF id
  <2>6. \A g \in 1..MaxGrants : sent'[g] = 0 \/ (sent'[g] = 1 /\ g \in consumed')
    BY <1>1, <2>2, <2>4 DEF GrantInv
  <2>7. \A q \in Processes :
            Paying(q)' => /\ call'[q].grant.id \in consumed'
                          /\ sent'[call'[q].grant.id] = 0
    BY <1>1, <1>2, <2>4, <2>5 DEF GrantInv
  <2>8. \A q, r \in Processes :
            Paying(q)' /\ Paying(r)' /\ q # r =>
                call'[q].grant.id # call'[r].grant.id
    BY <1>2 DEF GrantInv
  <2>9. QED
    BY <2>6, <2>7, <2>8 DEF GrantInv
<1>5. QED
  BY <1>3, <1>4

LEMMA GrantStep == TypesInv /\ GrantInv /\ [Next]_vars => GrantInv'
<1> SUFFICES ASSUME TypesInv, GrantInv, Shape PROVE GrantInv'
  BY StepsHaveShapes
<1>1. CASE Standing
  BY <1>1, NobodyPaysAnew DEF Standing, Same
<1>2. ASSUME NEW p \in Processes, NEW k \in Keys, Starting(p, k)
      PROVE  GrantInv'
  BY <1>2, NobodyPaysAnew DEF Starting, Others, Same
<1>3. ASSUME NEW p \in Processes, Stopping(p) \/ Losing(p)
      PROVE  GrantInv'
  BY <1>3, NobodyPaysAnew DEF Stopping, Losing, Others, Same
<1>4. QED
  BY <1>1, <1>2, <1>3, ContinuingKeepsGrants, SendingKeepsGrants DEF Shape

\* Whatever is refused, lost, cancelled or repeated, and however many processes race
\* for one approval file, at most one PATCH is sent under one approval.
THEOREM ApprovalPaysForOneWrite == Spec => []GrantSpentOnce
<1>1. Init => GrantInv
  BY DEF Init, GrantInv, Paying
<1>2. GrantInv => GrantSpentOnce
  BY DEF GrantInv, GrantSpentOnce
<1>3. QED
  BY <1>1, <1>2, TypesInit, TypesStep, GrantStep, PTL DEF Spec

-----------------------------------------------------------------------------
(***************************************************************************)
(* A key has one effect, and a record that allows a retry had none.        *)
(***************************************************************************)

Busy(p) == pc[p] # "idle"

\* A key is served by one call, which holds it claimed; until its PATCH is sent the
\* key had no effect, and neither had a key that is free.
Serving ==
    /\ \A p \in Processes :
          Busy(p) => ledger[call[p].key] = "claimed" /\ record[call[p].key] = None
    /\ \A p, q \in Processes :
          Busy(p) /\ Busy(q) /\ p # q => call[p].key # call[q].key
    /\ \A p \in Processes :
          Busy(p) /\ pc[p] # "verify" => effects[call[p].key] = 0

Effects ==
    \A k \in Keys :
        /\ effects[k] \in {0, 1}
        /\ ledger[k] = "free" \/ record[k] = "PLAN_EXPIRED" => effects[k] = 0

KeyInv == Serving /\ Effects

LEMMA KeyTypes ==
    ASSUME TypesInv
    PROVE  /\ ledger \in [Keys -> {"free", "claimed", "closed"}]
           /\ record \in [Keys -> Statuses \cup {None}]
           /\ effects \in [Keys -> Nat]
           /\ \A p \in Processes : Busy(p) => call[p].key \in Keys
           /\ None # "PLAN_EXPIRED"
<1>1. None # "PLAN_EXPIRED"
  BY NoneAssumption DEF Statuses
<1>2. QED
  BY <1>1, TypedCall DEF TypesInv, Typed, CallsOK, RestOK, Busy

LEMMA StandingKeepsKeys ==
    ASSUME KeyInv, Standing
    PROVE  KeyInv'
<1>1. \A q \in Processes :
          /\ pc'[q] = pc[q]
          /\ Busy(q) => call'[q].key = call[q].key
  BY DEF Standing, Same, Busy
<1>2. UNCHANGED <<ledger, record, effects>>
  BY DEF Standing
<1>3. Serving'
  BY <1>1, <1>2 DEF KeyInv, Serving, Busy
<1>4. Effects'
  BY <1>2 DEF KeyInv, Effects
<1>5. QED
  BY <1>3, <1>4 DEF KeyInv

\* What the calls beside p keep when only the key of p is touched.
LEMMA BesideKeepServing ==
    ASSUME Serving, NEW p \in Processes, Others(p), NEW k \in Keys,
           \A q \in Processes \ {p} : Busy(q) => call[q].key \in Keys \ {k},
           \A j \in Keys \ {k} :
               /\ ledger'[j] = ledger[j] /\ record'[j] = record[j]
               /\ effects'[j] = effects[j],
           Busy(p)' => /\ call'[p].key = k
                       /\ ledger'[k] = "claimed" /\ record'[k] = None
                       /\ pc'[p] # "verify" => effects'[k] = 0
    PROVE  Serving'
<1>1. \A q \in Processes \ {p} :
          Busy(q)' => /\ Busy(q) /\ pc'[q] = pc[q]
                      /\ call'[q].key = call[q].key /\ call'[q].key \in Keys \ {k}
  BY DEF Others, Same, Busy
<1>2. \A q \in Processes :
          Busy(q)' => /\ ledger'[call'[q].key] = "claimed"
                      /\ record'[call'[q].key] = None
  BY <1>1 DEF Serving
<1>3. \A q, r \in Processes :
          Busy(q)' /\ Busy(r)' /\ q # r => call'[q].key # call'[r].key
  BY <1>1 DEF Serving
<1>4. \A q \in Processes :
          Busy(q)' /\ pc'[q] # "verify" => effects'[call'[q].key] = 0
  BY <1>1 DEF Serving
<1>5. QED
  BY <1>2, <1>3, <1>4 DEF Serving

LEMMA StartingKeepsKeys ==
    ASSUME TypesInv, KeyInv, NEW p \in Processes, NEW k \in Keys, Starting(p, k)
    PROVE  KeyInv'
<1>1. /\ ledger[k] = "free" /\ effects[k] = 0 /\ effects' = effects
      /\ ledger' = [ledger EXCEPT ![k] = "claimed"]
      /\ record' = [record EXCEPT ![k] = None]
  BY DEF Starting, KeyInv, Effects
<1>2. /\ ledger'[k] = "claimed" /\ record'[k] = None
      /\ \A j \in Keys \ {k} : ledger'[j] = ledger[j] /\ record'[j] = record[j]
  BY <1>1, KeyTypes
<1>3. \A q \in Processes \ {p} : Busy(q) => call[q].key \in Keys \ {k}
  BY <1>1, KeyTypes DEF KeyInv, Serving
<1>4. Serving'
  <2>1. Others(p) /\ call'[p].key = k
    BY DEF Starting
  <2>2. \A j \in Keys \ {k} : effects'[j] = effects[j]
    BY <1>1
  <2>3. QED
    BY <1>1, <1>2, <1>3, <2>1, <2>2, BesideKeepServing DEF KeyInv
<1>5. Effects'
  BY <1>1, <1>2, KeyTypes DEF KeyInv, Effects
<1>6. QED
  BY <1>4, <1>5 DEF KeyInv

LEMMA ContinuingKeepsKeys ==
    ASSUME TypesInv, KeyInv, NEW p \in Processes, Continuing(p) \/ Losing(p)
    PROVE  KeyInv'
<1> DEFINE k == call[p].key
<1>1. UNCHANGED <<ledger, record, effects>> /\ Busy(p)
  BY DEF Continuing, Losing, Busy
<1>2. k \in Keys
  BY <1>1, KeyTypes
<1>3. \A q \in Processes \ {p} : Busy(q) => call[q].key \in Keys \ {k}
  BY <1>1, KeyTypes DEF KeyInv, Serving
<1>4. Busy(p)' => /\ call'[p].key = k
                  /\ ledger'[k] = "claimed" /\ record'[k] = None
                  /\ effects'[k] = 0
  BY <1>1 DEF Continuing, Losing, Busy, KeyInv, Serving
<1>5. Others(p)
  BY DEF Continuing, Losing
<1>6. Serving'
  <2> HIDE DEF k
  <2>1. QED
    BY <1>1, <1>2, <1>3, <1>4, <1>5, BesideKeepServing DEF KeyInv
<1>7. Effects'
  BY <1>1 DEF KeyInv, Effects
<1>8. QED
  BY <1>6, <1>7 DEF KeyInv

\* A call ends: by Stopping, or by Sending with an answer other than 2xx.
LEMMA EndingKeepsKeys ==
    ASSUME TypesInv, KeyInv, NEW p \in Processes, Busy(p),
           NEW row \in {"free", "closed"}, NEW status \in Statuses,
           pc'[p] = "idle", Others(p),
           record' = [record EXCEPT ![call[p].key] = status],
           ledger' = [ledger EXCEPT ![call[p].key] = row],
           \A j \in Keys \ {call[p].key} : effects'[j] = effects[j],
           effects'[call[p].key] \in {0, 1},
           row = "free" \/ status = "PLAN_EXPIRED" => effects'[call[p].key] = 0
    PROVE  KeyInv'
<1> DEFINE k == call[p].key
<1>1. k \in Keys
  BY KeyTypes
<1>2. \A q \in Processes \ {p} : Busy(q) => call[q].key \in Keys \ {k}
  BY KeyTypes DEF KeyInv, Serving
<1>3. /\ ledger'[k] = row /\ record'[k] = status
      /\ \A j \in Keys \ {k} : ledger'[j] = ledger[j] /\ record'[j] = record[j]
  BY <1>1, KeyTypes
<1>4. ~Busy(p)'
  BY DEF Busy
<1>5. Serving'
  <2> HIDE DEF k
  <2>1. \A j \in Keys \ {k} : effects'[j] = effects[j]
    BY DEF k
  <2>2. QED
    BY <1>1, <1>2, <1>3, <1>4, <2>1, BesideKeepServing DEF KeyInv
<1>6. Effects'
  BY <1>1, <1>3 DEF KeyInv, Effects
<1>7. QED
  BY <1>5, <1>6 DEF KeyInv

LEMMA StoppingKeepsKeys ==
    ASSUME TypesInv, KeyInv, NEW p \in Processes, Stopping(p)
    PROVE  KeyInv'
<1>1. PICK row \in {"free", "closed"}, status \in Statuses :
          /\ pc[p] = "verify" => row = "closed" /\ status # "PLAN_EXPIRED"
          /\ record' = [record EXCEPT ![call[p].key] = status]
          /\ ledger' = [ledger EXCEPT ![call[p].key] = row]
  BY DEF Stopping
<1>2. Busy(p) /\ pc'[p] = "idle" /\ Others(p) /\ effects' = effects
  BY DEF Stopping, Busy
<1>3. effects'[call[p].key] \in {0, 1}
  BY <1>2, KeyTypes DEF KeyInv, Effects
<1>4. pc[p] # "verify" => effects'[call[p].key] = 0
  BY <1>2 DEF KeyInv, Serving
<1>5. QED
  BY <1>1, <1>2, <1>3, <1>4, EndingKeepsKeys

LEMMA SendingKeepsKeys ==
    ASSUME TypesInv, KeyInv, NEW p \in Processes, Sending(p)
    PROVE  KeyInv'
<1> DEFINE k == call[p].key
<1>1. pc[p] = "patch" /\ Busy(p) /\ Others(p)
  BY DEF Sending, Busy
<1>2. k \in Keys /\ effects[k] = 0
  BY <1>1, KeyTypes DEF KeyInv, Serving
<1>3. /\ \A j \in Keys \ {k} : effects'[j] = effects[j]
      /\ effects'[k] \in {0, 1}
  BY <1>2, KeyTypes DEF Sending
<1>4. ASSUME pc'[p] = "verify", call'[p].key = k, UNCHANGED <<record, ledger>>
      PROVE  KeyInv'
  <2>1. \A q \in Processes \ {p} : Busy(q) => call[q].key \in Keys \ {k}
    BY <1>1, KeyTypes DEF KeyInv, Serving
  <2>2. ledger[k] = "claimed" /\ record[k] = None
    BY <1>1 DEF KeyInv, Serving
  <2> HIDE DEF k
  <2>3. Serving'
    BY <1>1, <1>2, <1>3, <1>4, <2>1, <2>2, BesideKeepServing DEF KeyInv
  <2>4. Effects'
    BY <1>2, <1>3, <1>4, <2>2, KeyTypes DEF KeyInv, Effects
  <2>5. QED
    BY <2>3, <2>4 DEF KeyInv
<1>5. ASSUME pc'[p] = "idle", NEW row \in {"free", "closed"},
             NEW status \in Statuses \ {"PLAN_EXPIRED"},
             row = "free" => effects' = effects,
             record' = [record EXCEPT ![k] = status],
             ledger' = [ledger EXCEPT ![k] = row]
      PROVE  KeyInv'
  <2>1. row = "free" \/ status = "PLAN_EXPIRED" => effects'[k] = 0
    BY <1>2, <1>5
  <2>2. QED
    BY <1>1, <1>3, <1>5, <2>1, EndingKeepsKeys
<1>6. QED
  BY <1>4, <1>5 DEF Sending

LEMMA KeyStep == TypesInv /\ KeyInv /\ [Next]_vars => KeyInv'
<1> SUFFICES ASSUME TypesInv, KeyInv, Shape PROVE KeyInv'
  BY StepsHaveShapes
<1>1. QED
  BY StandingKeepsKeys, StartingKeepsKeys, ContinuingKeepsKeys,
     StoppingKeepsKeys, SendingKeepsKeys DEF Shape

LEMMA KeysHold == Spec => [](TypesInv /\ KeyInv)
<1>1. Init => KeyInv
  <2> SUFFICES ASSUME Init PROVE KeyInv
    OBVIOUS
  <2>1. Serving
    BY DEF Init, Serving, Busy
  <2>2. Effects
    BY NoneAssumption DEF Init, Effects, Statuses
  <2>3. QED
    BY <2>1, <2>2 DEF KeyInv
<1>2. QED
  BY <1>1, TypesInit, TypesStep, KeyStep, PTL DEF Spec

\* Over all calls and all processes, lost, refused and repeated ones included, Graph
\* takes the PATCH of an idempotency key at most once.
THEOREM OneEffectPerKey == Spec => []KeyTakesEffectOnce
<1>1. KeyInv => KeyTakesEffectOnce
  BY DEF KeyInv, Effects, KeyTakesEffectOnce
<1>2. QED
  BY <1>1, KeysHold, PTL

\* A record that says the plan expired, the one that allows a retry under the same
\* key, means that no call of the key has had an effect.
THEOREM RetryAfterNothing == Spec => []RetryableMeansNoEffect
<1>1. KeyInv => RetryableMeansNoEffect
  BY DEF KeyInv, Effects, RetryableMeansNoEffect
<1>2. QED
  BY <1>1, KeysHold, PTL

-----------------------------------------------------------------------------
(***************************************************************************)
(* The PATCH is the one that was approved, on the user it was planned for, *)
(* and a capsule restores what it overwrites.                              *)
(***************************************************************************)

PastGate == {"refresh", "reread", "reroles", "capsule", "burn", "patch"}

\* The plan of a call is of its key, made under the policy its process has loaded; past
\* the gate that policy lets it through, with an approval of that plan if it asks for one.
Planned(p) ==
    LET c == call[p] IN
    /\ pc[p] \notin WithoutPlan => c.plan.key = c.key /\ c.plan.policy = loaded[p]
    /\ pc[p] \in PastGate =>
           /\ c.plan.policy \in {"standing", "explicit"}
           /\ c.plan.policy = "explicit" => c.grant # None /\ c.grant.plan = c.plan
    /\ pc[p] = "patch" /\ c.grant # None => c.grant.id \in consumed

\* What a call relies on is so, or was changed by others since it was checked.
Relies(p) ==
    LET c == call[p] IN
    /\ pc[p] \in ReliesOn("policy") /\ "policy" \notin c.moved => policy = loaded[p]
    /\ pc[p] \in ReliesOn("user") /\ "user" \notin c.moved =>
           user.eligible /\ user.profile = c.seen
    /\ pc[p] \in ReliesOn("roles") => c.seen = c.plan.pre
    /\ pc[p] \in ReliesOn("roles") /\ "roles" \notin c.moved => ~user.privileged

\* Past the capsule's point there is a capsule of the profile the plan was made from.
Saved(p) ==
    pc[p] \in {"burn", "patch"} =>
        [key |-> call[p].key, previous |-> call[p].plan.pre] \in capsules

Aimed(p) == Planned(p) /\ Relies(p) /\ Saved(p)

AimInv == CapsuleRestores /\ \A p \in Processes : Aimed(p)

LEMMA IdleIsAimed ==
    ASSUME NEW p \in Processes, pc'[p] = "idle"
    PROVE  Aimed(p)'
BY DEF Aimed, Planned, Relies, Saved, ReliesOn, PastGate, WithoutPlan,
       WithoutProfile

\* What a change by others does to the calls that rely on what it changes.
LEMMA MovedFields ==
    ASSUME Typed, NEW what \in {"policy", "user", "roles"}, NEW q \in Processes,
           pc[q] # "idle"
    PROVE  LET d == Moved(what)[q] IN
           /\ d.key = call[q].key /\ d.seen = call[q].seen
           /\ d.plan = call[q].plan /\ d.grant = call[q].grant
           /\ call[q].moved \subseteq d.moved
           /\ pc[q] \in ReliesOn(what) => what \in d.moved
<1> DEFINE c == call[q]
           d == [c EXCEPT !.moved = @ \cup {what}]
<1>1. c \in Calls
  BY TypedCall
<1>2. /\ d.key = c.key /\ d.seen = c.seen /\ d.plan = c.plan
      /\ d.grant = c.grant
      /\ c.moved \subseteq d.moved /\ what \in d.moved
  BY <1>1 DEF Calls
<1>3. Moved(what)[q] = IF pc[q] \in ReliesOn(what) THEN d ELSE c
  BY DEF Moved
<1> HIDE DEF d
<1>4. QED
  BY <1>2, <1>3

\* A call that stays at its point and is told of what changes under it.
Told(q) ==
    /\ pc'[q] = pc[q] /\ loaded'[q] = loaded[q]
    /\ consumed \subseteq consumed' /\ capsules \subseteq capsules'
    /\ \/ call'[q] = call[q] /\ UNCHANGED <<policy, user>>
       \/ call'[q] = Moved("policy")[q] /\ UNCHANGED user
       \/ /\ call'[q] = Moved("user")[q]
          /\ policy' = policy /\ user'.privileged = user.privileged
       \/ /\ call'[q] = Moved("roles")[q] /\ policy' = policy
          /\ user'.eligible = user.eligible /\ user'.profile = user.profile

LEMMA ToldIsAimed ==
    ASSUME Typed, NEW q \in Processes, Aimed(q), Told(q)
    PROVE  Aimed(q)'
<1>1. CASE pc[q] = "idle"
  BY <1>1, IdleIsAimed DEF Told
<1>2. CASE pc[q] # "idle"
  <2>1. /\ call'[q].key = call[q].key /\ call'[q].seen = call[q].seen
        /\ call'[q].plan = call[q].plan /\ call'[q].grant = call[q].grant
        /\ call[q].moved \subseteq call'[q].moved
    BY <1>2, MovedFields DEF Told
  <2>2. /\ pc[q] \in ReliesOn("policy") /\ "policy" \notin call'[q].moved =>
               policy' = policy
        /\ pc[q] \in ReliesOn("user") /\ "user" \notin call'[q].moved =>
               user'.eligible = user.eligible /\ user'.profile = user.profile
        /\ pc[q] \in ReliesOn("roles") /\ "roles" \notin call'[q].moved =>
               user'.privileged = user.privileged
    BY <1>2, MovedFields DEF Told
  <2>3. Planned(q)'
    BY <2>1 DEF Told, Aimed, Planned
  <2>4. Relies(q)'
    BY <2>1, <2>2 DEF Told, Aimed, Relies, ReliesOn
  <2>5. Saved(q)'
    BY <2>1 DEF Told, Aimed, Saved
  <2>6. QED
    BY <2>3, <2>4, <2>5 DEF Aimed
<1>3. QED
  BY <1>1, <1>2

\* A step of p that leaves the world as it is, but for what it consumes or stores.
LEMMA BesideIsAimed ==
    ASSUME Typed, AimInv, NEW p \in Processes,
           (\E point : Goto(p, point)), (\E c : With(p, c)) \/ UNCHANGED call,
           UNCHANGED <<policy, user, loaded, replaced>>,
           consumed \subseteq consumed', capsules \subseteq capsules',
           Aimed(p)'
    PROVE  AimInv'
<1>1. \A q \in Processes \ {p} : pc'[q] = pc[q] /\ call'[q] = call[q]
  BY DEF Typed, CallsOK, Goto, With
<1>2. \A q \in Processes \ {p} : Aimed(q)'
  BY <1>1, ToldIsAimed DEF Told, AimInv
<1>3. CapsuleRestores'
  BY DEF AimInv, CapsuleRestores
<1>4. QED
  BY <1>2, <1>3 DEF AimInv

LEMMA EndingIsAimed ==
    ASSUME Typed, AimInv, NEW p \in Processes,
           Goto(p, "idle"), With(p, None),
           UNCHANGED <<policy, user, loaded, replaced, consumed, capsules>>
    PROVE  AimInv'
<1>1. pc'[p] = "idle"
  BY DEF Typed, CallsOK, Goto
<1>2. Aimed(p)'
  BY <1>1, IdleIsAimed
<1>3. QED
  BY <1>2, BesideIsAimed

LEMMA RefusingIsAimed ==
    ASSUME Typed, AimInv, NEW p \in Processes, NEW status, Refuse(p, status),
           UNCHANGED <<policy, user, loaded, replaced, consumed, capsules>>
    PROVE  AimInv'
BY EndingIsAimed DEF Refuse, Finish

LEMMA PassingOn ==
    ASSUME Typed, NEW p \in Processes, NEW point, Pass(p, point)
    PROVE  pc'[p] = point /\ call' = call /\ Goto(p, point)
BY DEF Typed, CallsOK, Pass, Goto

LEMMA ReadingIsAimed ==
    ASSUME TypesInv, AimInv, NEW p \in Processes, PreRead(p) \/ ReRead(p)
    PROVE  AimInv'
<1>0. Typed /\ user.profile \in Profiles
  BY DEF TypesInv, RestOK, Users
<1>1. UNCHANGED <<policy, user, loaded, replaced, consumed, capsules>>
  BY DEF PreRead, ReRead, ReadUser, files, tenant
<1>2. PICK here \in {"read", "reread"}, next \in {"roles", "reroles"},
           refusal \in {"BLOCKED_PRECONDITION", "ERROR"} :
          /\ here = "read" <=> next = "roles"
          /\ ReadUser(p, here, next, refusal)
  BY DEF PreRead, ReRead
<1>3. CASE Refuse(p, refusal)
  BY <1>0, <1>1, <1>3, RefusingIsAimed
<1>4. CASE ~Refuse(p, refusal)
  <2> DEFINE c == [call[p] EXCEPT !.seen = user.profile]
  <2>1. pc[p] = here /\ user.eligible /\ Goto(p, next) /\ With(p, c)
    BY <1>2, <1>4 DEF ReadUser, At
  <2>2. call[p] \in Calls
    BY <1>0, <2>1, TypedCall
  <2>3. /\ c.key = call[p].key /\ c.plan = call[p].plan
        /\ c.grant = call[p].grant /\ c.moved = call[p].moved
        /\ c.seen = user.profile
    BY <2>2 DEF Calls
  <2> HIDE DEF c
  <2>4. pc'[p] = next /\ call'[p] = c
    BY <1>0, <2>1 DEF Typed, CallsOK, Goto, With
  <2>5. Aimed(p)
    BY DEF AimInv
  <2>6. Planned(p)'
    BY <1>1, <1>2, <2>1, <2>3, <2>4, <2>5
    DEF Aimed, Planned, PastGate, WithoutPlan, WithoutProfile
  <2>7. Relies(p)'
    BY <1>1, <1>2, <2>1, <2>3, <2>4, <2>5 DEF Aimed, Relies, ReliesOn
  <2>8. Saved(p)'
    BY <1>2, <2>4 DEF Saved
  <2>9. QED
    BY <1>0, <1>1, <2>1, <2>6, <2>7, <2>8, BesideIsAimed DEF Aimed
<1>5. QED
  BY <1>3, <1>4

LEMMA AskingIsAimed ==
    ASSUME TypesInv, AimInv, NEW p \in Processes, AskStep(p)
    PROVE  AimInv'
<1> USE DEF At
<1>0. Typed /\ Aimed(p)
  BY DEF TypesInv, AimInv
<1>1. UNCHANGED <<policy, user, loaded, replaced, consumed, capsules>>
  BY DEF AskStep, Claim, Authorize, PreRead, PreRoles, Gate, Refresh, ReRead,
         ReadUser, ReRoles, Verify, Fail, tenant, files
<1>2. ASSUME NEW point \in Points, Pass(p, point), Aimed(p)'
      PROVE  AimInv'
  BY <1>0, <1>1, <1>2, PassingOn, BesideIsAimed
<1>3. ASSUME NEW k \in Keys, Claim(p, k)
      PROVE  AimInv'
  <2>1. Goto(p, "authorize") /\ \E c : With(p, c)
    BY <1>3 DEF Claim
  <2>2. pc'[p] = "authorize"
    BY <1>0, <2>1 DEF Typed, CallsOK, Goto
  <2>3. Aimed(p)'
    BY <2>2
    DEF Aimed, Planned, Relies, Saved, ReliesOn, PastGate, WithoutPlan,
        WithoutProfile
  <2>4. QED
    BY <1>0, <1>1, <2>1, <2>3, BesideIsAimed
<1>4. ASSUME Authorize(p) \/ PreRoles(p)
      PROVE  AimInv'
  <2>1. ASSUME NEW point \in {"read", "prepare"}, Pass(p, point)
        PROVE  AimInv'
    <3>1. pc'[p] = point /\ point \in Points
      BY <1>0, <2>1, PassingOn DEF Points
    <3>2. Aimed(p)'
      BY <3>1
      DEF Aimed, Planned, Relies, Saved, ReliesOn, PastGate, WithoutPlan,
          WithoutProfile
    <3>3. QED
      BY <1>2, <2>1, <3>1, <3>2
  <2>2. QED
    BY <1>0, <1>1, <1>4, <2>1, RefusingIsAimed DEF Authorize, PreRoles
<1>5. ASSUME Gate(p)
      PROVE  AimInv'
  <2> DEFINE plan == call[p].plan
             grant == approvals[plan.key]
             c == [call[p] EXCEPT !.grant = grant]
  <2>1. pc[p] = "gate"
    BY <1>5 DEF Gate
  <2>2. call[p] \in Calls
    BY <1>0, <2>1, TypedCall
  <2>3. plan.key = call[p].key /\ plan.policy = loaded[p]
    BY <1>0, <2>1 DEF Aimed, Planned, WithoutPlan, WithoutProfile
  <2>4. CASE \E status : Refuse(p, status)
    BY <1>0, <1>1, <2>4, RefusingIsAimed
  <2>5. CASE plan.policy = "standing" /\ Pass(p, "refresh")
    <3>1. pc'[p] = "refresh" /\ call' = call
      BY <1>0, <2>5, PassingOn
    <3>2. Aimed(p)'
      BY <1>1, <2>3, <2>5, <3>1
      DEF Aimed, Planned, Relies, Saved, ReliesOn, PastGate, WithoutPlan,
          WithoutProfile
    <3>3. QED
      BY <1>2, <2>5, <3>2 DEF Points
  <2>6. CASE /\ plan.policy = "explicit" /\ grant # None /\ Valid(grant, plan)
             /\ With(p, c) /\ Goto(p, "refresh")
    <3>1. /\ c.key = call[p].key /\ c.plan = plan /\ c.grant = grant
          /\ grant.plan = plan
      BY <2>2, <2>6 DEF Calls, Valid
    <3> HIDE DEF c
    <3>2. pc'[p] = "refresh" /\ call'[p] = c
      BY <1>0, <2>6 DEF Typed, CallsOK, Goto, With
    <3>3. Aimed(p)'
      BY <1>1, <2>3, <2>6, <3>1, <3>2
      DEF Aimed, Planned, Relies, Saved, ReliesOn, PastGate, WithoutPlan,
          WithoutProfile
    <3>4. QED
      BY <1>0, <1>1, <2>6, <3>3, BesideIsAimed
  <2>7. QED
    BY <1>5, <2>4, <2>5, <2>6 DEF Gate
<1>6. ASSUME Refresh(p)
      PROVE  AimInv'
  <2>1. pc[p] = "refresh"
    BY <1>6 DEF Refresh
  <2>2. CASE policy = loaded[p] /\ Pass(p, "reread")
    <3>1. pc'[p] = "reread" /\ call' = call
      BY <1>0, <2>2, PassingOn
    <3>2. Aimed(p)'
      BY <1>0, <1>1, <2>1, <2>2, <3>1
      DEF Aimed, Planned, Relies, Saved, ReliesOn, PastGate, WithoutPlan,
          WithoutProfile
    <3>3. QED
      BY <1>2, <2>2, <3>2 DEF Points
  <2>3. QED
    BY <1>0, <1>1, <1>6, <2>2, RefusingIsAimed DEF Refresh, UnchangedPolicy
<1>7. ASSUME ReRoles(p)
      PROVE  AimInv'
  <2>1. pc[p] = "reroles"
    BY <1>7 DEF ReRoles
  <2>2. CASE ~user.privileged /\ call[p].seen = call[p].plan.pre /\ Pass(p, "capsule")
    <3>1. pc'[p] = "capsule" /\ call' = call
      BY <1>0, <2>2, PassingOn
    <3>2. Aimed(p)'
      BY <1>0, <1>1, <2>1, <2>2, <3>1
      DEF Aimed, Planned, Relies, Saved, ReliesOn, PastGate, WithoutPlan,
          WithoutProfile
    <3>3. QED
      BY <1>2, <2>2, <3>2 DEF Points
  <2>3. QED
    BY <1>0, <1>1, <1>7, <2>2, RefusingIsAimed DEF ReRoles
<1>8. ASSUME Verify(p) \/ Fail(p)
      PROVE  AimInv'
  BY <1>0, <1>1, <1>8, EndingIsAimed DEF Verify, Fail, Refuse, Finish
<1>9. QED
  BY <1>3, <1>4, <1>5, <1>6, <1>7, <1>8, ReadingIsAimed DEF AskStep

LEMMA PreparingIsAimed ==
    ASSUME TypesInv, AimInv, NEW p \in Processes, Prepare(p)
    PROVE  AimInv'
<1> DEFINE plan == NewPlan(p)
           request == requests[plan.key]
           reuse == plan.policy = "explicit" /\ Reusable(plan, request)
           made == IF reuse THEN request ELSE plan
           c == [call[p] EXCEPT !.plan = made]
<1>0. Typed /\ pc[p] = "prepare" /\ call[p] \in Calls /\ call[p].key \in Keys
      /\ call[p].seen \in Profiles
  BY TypedCall DEF TypesInv, Prepare, At, Typed, Held, Informed, WithoutProfile
<1>1. plan \in Plans /\ plan.key = call[p].key /\ plan.policy = loaded[p]
  BY <1>0 DEF NewPlan, Plans, TypesInv, RestOK
<1>2. request \in Plans \cup {None}
  BY <1>0, <1>1 DEF TypesInv, RestOK
<1>3. reuse => request.key = plan.key /\ request.policy = plan.policy
  <2>1. SUFFICES ASSUME reuse PROVE request.key = plan.key /\ request.policy = plan.policy
    OBVIOUS
  <2>2. request \in Plans
    BY <1>2, <2>1 DEF Reusable
  <2>3. [plan EXCEPT !.created = request.created] = request
    BY <2>1 DEF Reusable, SameMeaning
  <2>4. QED
    BY <1>1, <2>2, <2>3 DEF Plans
<1>4. made.key = call[p].key /\ made.policy = loaded[p]
  BY <1>1, <1>3
<1>5. c.key = call[p].key /\ c.plan = made
  BY <1>0 DEF Calls
<1>6. With(p, c) /\ Goto(p, "gate")
  BY DEF Prepare
<1>7. UNCHANGED <<policy, user, loaded, replaced, consumed, capsules>>
  BY DEF Prepare, tenant
<1> HIDE DEF c, made
<1>8. pc'[p] = "gate" /\ call'[p] = c
  BY <1>0, <1>6 DEF Typed, CallsOK, Goto, With
<1>9. Aimed(p)'
  BY <1>4, <1>5, <1>7, <1>8
  DEF Aimed, Planned, Relies, Saved, ReliesOn, PastGate, WithoutPlan,
      WithoutProfile
<1>10. QED
  BY <1>0, <1>6, <1>7, <1>9, BesideIsAimed

LEMMA StoringIsAimed ==
    ASSUME TypesInv, AimInv, NEW p \in Processes, StoreCapsule(p)
    PROVE  AimInv'
<1>1. Typed /\ Aimed(p) /\ pc[p] = "capsule" /\ Pass(p, "burn")
  BY DEF TypesInv, AimInv, StoreCapsule, At
<1>2. pc'[p] = "burn" /\ call' = call /\ Goto(p, "burn")
  BY <1>1, PassingOn
<1>3. /\ UNCHANGED <<policy, user, loaded, replaced, consumed>>
      /\ capsules \subseteq capsules'
      /\ [key |-> call[p].key, previous |-> call[p].plan.pre] \in capsules'
  BY DEF StoreCapsule, tenant
<1>4. Planned(p)' /\ Saved(p)'
  BY <1>1, <1>2, <1>3
  DEF Aimed, Planned, Saved, PastGate, WithoutPlan, WithoutProfile
<1>5. Relies(p)'
  BY <1>1, <1>2, <1>3 DEF Aimed, Relies, ReliesOn
<1>6. QED
  BY <1>1, <1>2, <1>3, <1>4, <1>5, BesideIsAimed DEF Aimed

LEMMA BurningIsAimed ==
    ASSUME TypesInv, AimInv, NEW p \in Processes, Burn(p)
    PROVE  AimInv'
<1>1. Typed /\ Aimed(p) /\ pc[p] = "burn"
  BY DEF TypesInv, AimInv, Burn, At
<1>2. UNCHANGED <<policy, user, loaded, replaced, capsules>>
  BY DEF Burn, tenant
<1>3. CASE Refuse(p, "BLOCKED_PRECONDITION") /\ UNCHANGED consumed
  BY <1>1, <1>2, <1>3, RefusingIsAimed
<1>4. CASE /\ Pass(p, "patch") /\ consumed \subseteq consumed'
           /\ call[p].grant = None \/ call[p].grant.id \in consumed'
  <2>1. pc'[p] = "patch" /\ call' = call /\ Goto(p, "patch")
    BY <1>1, <1>4, PassingOn
  <2>2. Planned(p)' /\ Saved(p)'
    BY <1>1, <1>2, <1>4, <2>1
    DEF Aimed, Planned, Saved, PastGate, WithoutPlan, WithoutProfile
  <2>3. Relies(p)'
    BY <1>1, <1>2, <2>1 DEF Aimed, Relies, ReliesOn
  <2>4. QED
    BY <1>1, <1>2, <1>4, <2>1, <2>2, <2>3, BesideIsAimed DEF Aimed
<1>5. QED
  BY <1>3, <1>4 DEF Burn

LEMMA PatchingIsAimed ==
    ASSUME TypesInv, AimInv, NEW p \in Processes, Patch(p)
    PROVE  AimInv'
<1> DEFINE k == call[p].key
<1>1. Typed /\ Aimed(p) /\ pc[p] = "patch" /\ k \in Keys
  BY TypedCall DEF TypesInv, AimInv, Patch, At
<1>2. /\ Taken(p) \/ UNCHANGED tenant
      /\ UNCHANGED <<policy, loaded, consumed, capsules>>
  BY PatchCases DEF files
<1>3. user'.privileged = user.privileged
  BY <1>2 DEF Taken, tenant, TypesInv, RestOK, Users
<1>4. /\ \A q \in Processes \ {p} : call'[q] = Beside[q] /\ pc'[q] = pc[q]
      /\ pc'[p] \in {"verify", "idle"}
  <2>1. /\ \/ call' = Beside
           \/ call' = [Beside EXCEPT ![p] = None]
        /\ \E point \in {"verify", "idle"} : Goto(p, point)
    BY PatchCases
  <2>2. Beside \in [Processes -> Calls \cup {None}]
    BY <1>1, BesideIsTyped
  <2>3. QED
    BY <1>1, <2>1, <2>2 DEF Goto, Typed, CallsOK
<1>5. \A q \in Processes \ {p} : Aimed(q)'
  <2>1. \A q \in Processes \ {p} : Told(q)
    BY <1>2, <1>3, <1>4 DEF Told, Beside
  <2>2. QED
    BY <1>1, <2>1, ToldIsAimed DEF AimInv
<1>6. Aimed(p)'
  <2>1. CASE pc'[p] = "idle"
    BY <2>1, IdleIsAimed
  <2>2. CASE pc'[p] = "verify"
    <3>1. call'[p].key = call[p].key /\ call'[p].plan = call[p].plan
      <4>1. call' = Beside
        BY <1>1, <2>2, PatchCases DEF Goto, Typed, CallsOK
      <4>2. QED
        BY <1>1, <4>1, BesideIsTyped
    <3>2. QED
      BY <1>1, <1>2, <2>2, <3>1
      DEF Aimed, Planned, Relies, Saved, ReliesOn, PastGate, WithoutPlan,
          WithoutProfile
  <2>3. QED
    BY <1>4, <2>1, <2>2
<1>7. CapsuleRestores'
  <2>1. \/ replaced' = replaced
        \/ replaced' = [replaced EXCEPT
                           ![k] = IF "user" \in call[p].moved THEN None
                                  ELSE user.profile]
    BY <1>2 DEF Taken, tenant
  <2>2. "user" \notin call[p].moved =>
            [key |-> k, previous |-> user.profile] \in capsules
    BY <1>1 DEF Aimed, Relies, Saved, ReliesOn
  <2>3. replaced \in [Keys -> Profiles \cup {None}]
    BY DEF TypesInv, RestOK
  <2> HIDE DEF k
  <2>4. ASSUME NEW j \in Keys, replaced'[j] # None
        PROVE  [key |-> j, previous |-> replaced'[j]] \in capsules'
    <3>1. CASE replaced'[j] = replaced[j]
      BY <1>2, <2>4, <3>1 DEF AimInv, CapsuleRestores
    <3>2. CASE replaced'[j] # replaced[j]
      <4>1. j = k /\ "user" \notin call[p].moved /\ replaced'[j] = user.profile
        BY <1>1, <2>1, <2>3, <2>4, <3>2
      <4>2. QED
        BY <1>2, <2>2, <4>1
    <3>3. QED
      BY <3>1, <3>2
  <2>5. QED
    BY <2>4 DEF CapsuleRestores
<1>8. QED
  BY <1>5, <1>6, <1>7 DEF AimInv

LEMMA OthersAreAimed ==
    ASSUME TypesInv, AimInv, OtherStep \/ UNCHANGED vars
    PROVE  AimInv'
<1>0. Typed
  BY DEF TypesInv
<1>1. UNCHANGED <<pc, consumed, capsules, replaced>>
  BY DEF OtherStep, LateEffect, Sign, Discard, Restart, ChangePolicy,
         ChangeUser, Tick, files, tenant, vars
<1>2. CapsuleRestores'
  BY <1>1 DEF AimInv, CapsuleRestores
<1>3. ASSUME NEW p \in Processes, Restart(p)
      PROVE  \A q \in Processes : Aimed(q)'
  <2>1. /\ pc[p] = "idle" /\ UNCHANGED <<call, policy, user>>
        /\ \A q \in Processes \ {p} : loaded'[q] = loaded[q]
    BY <1>3 DEF Restart, At, tenant, TypesInv, RestOK
  <2>2. Aimed(p)'
    BY <1>1, <2>1, IdleIsAimed
  <2>3. \A q \in Processes \ {p} : Aimed(q)'
    BY <1>0, <1>1, <2>1, ToldIsAimed DEF Told, AimInv
  <2>4. QED
    BY <2>2, <2>3
<1>4. ASSUME loaded' = loaded,
             \/ UNCHANGED <<call, policy, user>>
             \/ call' = Moved("policy") /\ UNCHANGED user
             \/ /\ call' = Moved("user")
                /\ policy' = policy /\ user'.privileged = user.privileged
             \/ /\ call' = Moved("roles") /\ policy' = policy
                /\ user'.eligible = user.eligible /\ user'.profile = user.profile
      PROVE  \A q \in Processes : Aimed(q)'
  BY <1>0, <1>1, <1>4, ToldIsAimed DEF Told, AimInv
<1>5. user \in Users
  BY DEF TypesInv, RestOK
<1>6. ASSUME NEW k \in Keys, LateEffect(k)
      PROVE  \A q \in Processes : Aimed(q)'
  <2>1. user'.privileged = user.privileged
    BY <1>5, <1>6 DEF LateEffect, Users
  <2>2. QED
    BY <1>4, <1>6, <2>1 DEF LateEffect
<1>7. ASSUME ChangeUser
      PROVE  \A q \in Processes : Aimed(q)'
  <2>1. \/ call' = Moved("user") /\ user'.privileged = user.privileged
        \/ /\ call' = Moved("roles")
           /\ user'.eligible = user.eligible /\ user'.profile = user.profile
    BY <1>5, <1>7 DEF ChangeUser, Users
  <2>2. QED
    BY <1>4, <1>7, <2>1 DEF ChangeUser
<1>8. ASSUME \/ \E k \in Keys : Sign(k) \/ Discard(k)
             \/ ChangePolicy \/ Tick \/ UNCHANGED vars
      PROVE  \A q \in Processes : Aimed(q)'
  BY <1>4, <1>8 DEF Sign, Discard, ChangePolicy, Tick, tenant, vars
<1>9. QED
  BY <1>2, <1>3, <1>6, <1>7, <1>8 DEF OtherStep, AimInv

LEMMA AimStep == TypesInv /\ AimInv /\ [Next]_vars => AimInv'
<1> SUFFICES ASSUME TypesInv, AimInv, [Next]_vars PROVE AimInv'
  OBVIOUS
<1>1. ASSUME NEW p \in Processes, Lose(p)
      PROVE  AimInv'
  BY <1>1, EndingIsAimed DEF Lose, TypesInv, files, tenant
<1>2. QED
  BY <1>1, AskingIsAimed, PreparingIsAimed, StoringIsAimed, BurningIsAimed,
     PatchingIsAimed, OthersAreAimed DEF Next, Step, AskStep, OtherStep

LEMMA AimHolds == Spec => []AimInv
<1>1. Init => AimInv
  <2> SUFFICES ASSUME Init PROVE AimInv
    OBVIOUS
  <2>1. CapsuleRestores
    BY DEF Init, CapsuleRestores
  <2>2. \A p \in Processes : Aimed(p)
    BY DEF Init, Aimed, Planned, Relies, Saved, ReliesOn, PastGate, WithoutPlan,
           WithoutProfile
  <2>3. QED
    BY <2>1, <2>2 DEF AimInv
<1>2. QED
  BY <1>1, TypesInit, TypesStep, AimStep, PTL DEF Spec

\* Under a policy that asks for an explicit plan, every PATCH, of every process and
\* whatever was reused, replaced or signed meanwhile, is sent with an approval of exactly
\* its plan, and that approval is consumed.
THEOREM EffectsAreApproved == Spec => []EffectAsApproved
<1>1. AimInv => EffectAsApproved
  BY DEF AimInv, Aimed, Planned, EffectAsApproved, At, PastGate
<1>2. QED
  BY <1>1, AimHolds, PTL

\* But for what others change after it was checked for the last time, a PATCH is sent
\* to an eligible, unprivileged user who has the profile the plan was made from, under
\* the policy the plan was made under.
THEOREM EffectsHitTheirTarget == Spec => []EffectOnPlannedTarget
<1>1. AimInv => EffectOnPlannedTarget
  BY DEF AimInv, Aimed, Planned, Relies, EffectOnPlannedTarget, At, PastGate,
         ReliesOn, WithoutPlan, WithoutProfile
<1>2. QED
  BY <1>1, AimHolds, PTL

\* Whatever a PATCH overwrote, a capsule of its key holds it.
THEOREM CapsulesRestore == Spec => []CapsuleRestores
<1>1. AimInv => CapsuleRestores
  BY DEF AimInv
<1>2. QED
  BY <1>1, AimHolds, PTL

=============================================================================
