--------------------------- MODULE IdentityProofs ---------------------------
(***************************************************************************)
(* Theorems about IdentityProvider, for any operations, retries and number *)
(* of changes by others, and about LocalSecrets, for any processes,        *)
(* accounts and policies.  The two share no state: one is what the server  *)
(* does to identities, the other the identity it does everything with.     *)
(***************************************************************************)
EXTENDS IdentityProvider, LocalSecrets, SequenceTheorems, FiniteSetTheorems, TLAPS

Looking == {"preflight", "before", "after"}

\* The requests of a look that were answered.
Asked(o, n) == {Requests(o)[i] : i \in 1..n}

-----------------------------------------------------------------------------
(***************************************************************************)
(* The list of requests.                                                   *)
(***************************************************************************)

LEMMA RequestsAre ==
    ASSUME NEW o \in AllOperations
    PROVE  /\ Requests(o) \in Seq(AllRequests)
           /\ Len(Requests(o)) = IF o \in Memberships THEN 7
                                 ELSE IF o \in Licenses THEN 6 ELSE 5
           /\ Requests(o)[1] = "user" /\ Requests(o)[2] = "group"
           /\ Requests(o)[3] = "assignment" /\ Requests(o)[4] = "schedule"
           /\ Requests(o)[5] = "eligibility"
           /\ o \in Memberships => Requests(o)[6] = "fence" /\ Requests(o)[7] = "member"
           /\ o \in Licenses => Requests(o)[6] = "sku"
<1> DEFINE user == <<"user">>
           first == user \o RoleSources
           group == IF o \in Memberships THEN <<"fence", "member">> ELSE <<>>
           seats == IF o \in Licenses THEN <<"sku">> ELSE <<>>
           second == first \o group
           whole == second \o seats
<1>1. /\ user \in Seq(AllRequests) /\ Len(user) = 1 /\ user[1] = "user"
      /\ RoleSources \in Seq(AllRequests) /\ Len(RoleSources) = 4
      /\ RoleSources[1] = "group" /\ RoleSources[2] = "assignment"
      /\ RoleSources[3] = "schedule" /\ RoleSources[4] = "eligibility"
  <2>1. /\ "user" \in AllRequests /\ "group" \in AllRequests
        /\ "assignment" \in AllRequests /\ "schedule" \in AllRequests
        /\ "eligibility" \in AllRequests
    BY DEF AllRequests, RoleSources, ToSet
  <2>2. QED
    BY <2>1 DEF RoleSources
<1>2. /\ group \in Seq(AllRequests)
      /\ o \in Memberships => Len(group) = 2 /\ group[1] = "fence" /\ group[2] = "member"
      /\ o \notin Memberships => Len(group) = 0
  <2>1. "fence" \in AllRequests /\ "member" \in AllRequests
    BY DEF AllRequests
  <2>2. CASE o \in Memberships
    <3>1. group = <<"fence", "member">>
      BY <2>2
    <3>2. <<"fence", "member">> \in Seq(AllRequests)
      BY <2>1
    <3>3. QED
      BY <2>2, <3>1, <3>2
  <2>3. CASE o \notin Memberships
    BY <2>3
  <2>4. QED
    BY <2>2, <2>3
<1>3. /\ seats \in Seq(AllRequests)
      /\ o \in Licenses => Len(seats) = 1 /\ seats[1] = "sku"
      /\ o \notin Licenses => Len(seats) = 0
  BY DEF AllRequests
<1> HIDE DEF user, group, seats
<1>4. /\ first \in Seq(AllRequests) /\ Len(first) = 5
      /\ \A i \in 1..5 : first[i] = IF i <= 1 THEN user[i] ELSE RoleSources[i - 1]
  <2>1. /\ first \in Seq(AllRequests) /\ Len(first) = Len(user) + Len(RoleSources)
        /\ \A i \in 1..(Len(user) + Len(RoleSources)) :
               first[i] = IF i <= Len(user) THEN user[i] ELSE RoleSources[i - Len(user)]
    BY <1>1, ConcatProperties
  <2>2. QED
    BY <1>1, <2>1
<1> HIDE DEF first
<1>5. /\ second \in Seq(AllRequests) /\ Len(second) = 5 + Len(group)
      /\ \A i \in 1..(5 + Len(group)) :
             second[i] = IF i <= 5 THEN first[i] ELSE group[i - 5]
  <2>1. /\ second \in Seq(AllRequests) /\ Len(second) = Len(first) + Len(group)
        /\ \A i \in 1..(Len(first) + Len(group)) :
               second[i] = IF i <= Len(first) THEN first[i] ELSE group[i - Len(first)]
    BY <1>2, <1>4, ConcatProperties
  <2>2. QED
    BY <1>4, <2>1
<1> HIDE DEF second
<1>6. /\ whole \in Seq(AllRequests)
      /\ Len(whole) = 5 + Len(group) + Len(seats)
      /\ \A i \in 1..(5 + Len(group) + Len(seats)) :
             whole[i] = IF i <= 5 + Len(group) THEN second[i]
                                    ELSE seats[i - (5 + Len(group))]
  <2>1. /\ whole \in Seq(AllRequests)
        /\ Len(whole) = Len(second) + Len(seats)
        /\ \A i \in 1..(Len(second) + Len(seats)) :
               whole[i] = IF i <= Len(second) THEN second[i]
                                      ELSE seats[i - Len(second)]
    BY <1>3, <1>5, ConcatProperties
  <2>2. QED
    BY <1>5, <2>1
<1> HIDE DEF whole
<1>7. Requests(o) = whole
  BY Zenon DEF Requests, whole, second, first, user, group, seats
<1>8. o \in Memberships => o \notin Licenses
  BY DEF Memberships, Licenses
<1>9. Len(group) \in Nat /\ Len(seats) \in Nat
  BY <1>2, <1>3
<1>10. /\ first[1] = "user" /\ first[2] = "group" /\ first[3] = "assignment"
       /\ first[4] = "schedule" /\ first[5] = "eligibility"
  BY <1>1, <1>4
<1>11. /\ \A i \in 1..5 : second[i] = first[i]
       /\ o \in Memberships => second[6] = "fence" /\ second[7] = "member"
  BY <1>2, <1>5
<1>12. /\ \A i \in 1..5 : whole[i] = second[i]
       /\ o \in Memberships => /\ whole[6] = second[6]
                               /\ whole[7] = second[7]
       /\ o \in Licenses => whole[6] = "sku"
  BY <1>2, <1>3, <1>6, <1>8, <1>9
<1>13. /\ Requests(o) \in Seq(AllRequests)
       /\ Len(Requests(o)) = IF o \in Memberships THEN 7
                             ELSE IF o \in Licenses THEN 6 ELSE 5
  <2>1. Len(whole) = 5 + Len(group) + Len(seats)
    BY <1>6
  <2>2. Len(group) = (IF o \in Memberships THEN 2 ELSE 0)
    BY <1>2
  <2>3. Len(seats) = (IF o \in Licenses THEN 1 ELSE 0)
    BY <1>3
  <2>4. Requests(o) \in Seq(AllRequests) /\ Len(Requests(o)) = Len(whole)
    BY <1>6, <1>7
  <2>5. Len(whole) = IF o \in Memberships THEN 7 ELSE IF o \in Licenses THEN 6 ELSE 5
    BY <1>8, <2>1, <2>2, <2>3
  <2>6. QED
    BY <2>4, <2>5
<1>14. \A i \in 1..5 : Requests(o)[i] = first[i]
  BY <1>7, <1>11, <1>12
<1>15. QED
  BY <1>7, <1>10, <1>11, <1>12, <1>13, <1>14

\* Every request is made once.
LEMMA AskedNext ==
    ASSUME NEW o \in AllOperations, NEW n \in Nat, n < Len(Requests(o))
    PROVE  /\ Asked(o, n + 1) = Asked(o, n) \cup {Requests(o)[n + 1]}
           /\ Requests(o)[n + 1] \notin Asked(o, n)
           /\ Requests(o)[n + 1] \in AllRequests
           /\ Asked(o, n) \subseteq AllRequests
<1>1. Len(Requests(o)) \in Nat
  BY RequestsAre
<1>2. Asked(o, n + 1) = Asked(o, n) \cup {Requests(o)[n + 1]}
  BY DEF Asked
<1>3. \A i, j \in 1..Len(Requests(o)) : Requests(o)[i] = Requests(o)[j] => i = j
  <2>1. CASE o \in Memberships
    BY <2>1, RequestsAre
  <2>2. CASE o \in Licenses
    BY <2>2, RequestsAre DEF Licenses, Memberships
  <2>3. CASE o \notin Memberships \cup Licenses
    BY <2>3, RequestsAre
  <2>4. QED
    BY <2>1, <2>2, <2>3
<1>4. \A i \in 1..Len(Requests(o)) : Requests(o)[i] \in AllRequests
  BY RequestsAre
<1>5. QED
  BY <1>1, <1>2, <1>3, <1>4 DEF Asked

LEMMA AskedEnds ==
    ASSUME NEW o \in AllOperations
    PROVE  /\ Asked(o, 0) = {}
           /\ Asked(o, Len(Requests(o))) = ToSet(Requests(o))
           /\ ToSet(Requests(o)) \subseteq AllRequests
           /\ \A r : Contains(Requests(o), r) <=> r \in ToSet(Requests(o))
BY RequestsAre DEF Asked, ToSet, Contains

-----------------------------------------------------------------------------
(***************************************************************************)
(* Types.                                                                  *)
(***************************************************************************)

LEMMA RequestsAreThese ==
    /\ AllRequests = {"user", "group", "assignment", "schedule", "eligibility",
                      "fence", "member", "sku"}
    /\ ToSet(RoleSources) = {"group", "assignment", "schedule", "eligibility"}
BY DEF AllRequests, RoleSources, ToSet

LEMMA EvidenceIsTyped ==
    ASSUME NEW d \in Directories, NEW r \in AllRequests
    PROVE  Evidence(r, d) \in Evidences(r)
<1>1. CASE r = "user"
  BY <1>1 DEF Evidence, Evidences, UserEvidence, Directories
<1>2. CASE r = "sku"
  BY <1>2 DEF Evidence, Evidences, AvailableUnits, Directories
<1>3. CASE r = "fence" \/ r = "member"
  BY <1>3 DEF Evidence, Evidences, GroupIsSafe, MembershipExists, Directories
<1>4. CASE r \in ToSet(RoleSources)
  <2>1. r \notin {"user", "fence", "member", "sku"}
    BY <1>4, RequestsAreThese
  <2>2. Evidence(r, d) = (r \in d.roles)
    BY <2>1 DEF Evidence
  <2>3. Evidences(r) = BOOLEAN
    BY <2>1 DEF Evidences
  <2>4. QED
    BY <2>2, <2>3
<1>5. QED
  BY <1>1, <1>2, <1>3, <1>4, RequestsAreThese

LEMMA EffectIsTyped ==
    ASSUME NEW d \in Directories, NEW o \in AllOperations
    PROVE  Effect(o, d) \in Directories
<1>1. CASE o = "license.assign"
  <2> DEFINE left == IF d.license = "none" THEN 0 ELSE d.seats
             licensed == [d EXCEPT !.license = "planned"]
  <2>1. left \in 0..1 /\ licensed \in Directories
    BY DEF Directories
  <2>2. Effect(o, d) = [licensed EXCEPT !.seats = left]
    BY <1>1 DEF Effect, Directories
  <2> HIDE DEF left, licensed
  <2>3. QED
    BY <2>1, <2>2 DEF Directories
<1>2. CASE o = "license.remove"
  <2> DEFINE licensed == [d EXCEPT !.license = "none"]
  <2>1. licensed \in Directories
    BY DEF Directories
  <2>2. Effect(o, d) = [licensed EXCEPT !.seats = 1]
    BY <1>2 DEF Effect, Directories
  <2> HIDE DEF licensed
  <2>3. QED
    BY <2>1, <2>2 DEF Directories
<1>3. CASE o \notin {"license.assign", "license.remove"}
  BY <1>3 DEF Effect, Directories, AllOperations
<1>4. QED
  BY <1>1, <1>2, <1>3

-----------------------------------------------------------------------------
(***************************************************************************)
(* The shapes of the two steps with many outcomes.                         *)
(***************************************************************************)

TypesInv ==
    /\ TypeOK
    /\ seen = [r \in AllRequests |-> seen[r]]
    /\ round \in Looking => at < Len(Requests(op))

Request == Requests(op)[at + 1]

\* The look with the answer to the next request.
Answered == [seen EXCEPT ![Request] = Evidence(Request, directory)]

Unmoved == UNCHANGED <<directory, op, planned, applied, late, changes>>

GoesOn ==
    /\ at + 1 < Len(Requests(op)) /\ at' = at + 1 /\ seen' = Answered
    /\ UNCHANGED <<round, answer, attempt, refreshed>>

LooksAgain ==
    /\ at + 1 = Len(Requests(op)) /\ round = "preflight" /\ Answered = planned
    /\ Look("before")

FindsDesired ==
    /\ at + 1 = Len(Requests(op)) /\ round \in {"before", "after"}
    /\ Desired(op, Answered) /\ Answer("VERIFIED")

GoesToWrite ==
    /\ at + 1 = Len(Requests(op)) /\ round = "before" /\ Look("write")

LEMMA ReadingShape ==
    ASSUME TypesInv, Read
    PROVE  /\ round \in Looking /\ op \in AllOperations
           /\ Unmoved /\ response' = response
           /\ \/ \E a \in {"undecided", "drifted", "UNCERTAIN"} : Answer(a)
              \/ /\ Safe(op, Request, Answered)
                 /\ GoesOn \/ LooksAgain \/ FindsDesired \/ GoesToWrite
<1> DEFINE last == at + 1 = Len(Requests(op))
<1>1. /\ round \in Looking /\ op \in AllOperations /\ Unmoved
      /\ at \in Nat /\ Len(Requests(op)) \in Nat /\ at < Len(Requests(op))
  BY IdentityAssumption, RequestsAre DEF Read, Looking, Unmoved, TypesInv, TypeOK
<1>2. \/ Raise /\ UNCHANGED response
      \/ /\ Safe(op, Request, Answered)
         /\ \/ last /\ Conclude(Answered)
            \/ /\ ~last /\ at' = at + 1 /\ seen' = Answered
               /\ UNCHANGED <<round, answer, response, attempt, refreshed>>
  BY DEF Read, Request, Answered
<1>3. CASE Raise /\ UNCHANGED response
  BY <1>1, <1>3 DEF Raise
<1>4. CASE /\ Safe(op, Request, Answered) /\ ~last /\ at' = at + 1 /\ seen' = Answered
           /\ UNCHANGED <<round, answer, response, attempt, refreshed>>
  BY <1>1, <1>4 DEF GoesOn
<1>5. CASE Safe(op, Request, Answered) /\ last /\ Conclude(Answered)
  <2>1. CASE round = "preflight"
    <3>1. IF Answered = planned THEN Look("before")
          ELSE Answer("drifted") /\ UNCHANGED response
      BY <1>5, <2>1 DEF Conclude
    <3>2. CASE Answered = planned
      BY <1>1, <1>5, <2>1, <3>1, <3>2 DEF LooksAgain, Look
    <3>3. CASE Answered # planned
      BY <1>1, <3>1, <3>3
    <3>4. QED
      BY <3>2, <3>3
  <2>2. CASE round = "before"
    <3>1. IF Desired(op, Answered) THEN Answer("VERIFIED") /\ UNCHANGED response
          ELSE Look("write")
      BY <1>5, <2>2 DEF Conclude
    <3>2. CASE Desired(op, Answered)
      BY <1>1, <1>5, <2>2, <3>1, <3>2 DEF FindsDesired
    <3>3. CASE ~Desired(op, Answered)
      BY <1>1, <1>5, <2>2, <3>1, <3>3 DEF GoesToWrite, Look
    <3>4. QED
      BY <3>2, <3>3
  <2>3. CASE round = "after"
    <3>1. /\ Answer(IF Desired(op, Answered) THEN "VERIFIED" ELSE "UNCERTAIN")
          /\ UNCHANGED response
      BY <1>5, <2>3 DEF Conclude
    <3>2. CASE Desired(op, Answered)
      BY <1>1, <1>5, <2>3, <3>1, <3>2 DEF FindsDesired
    <3>3. CASE ~Desired(op, Answered)
      BY <1>1, <3>1, <3>3
    <3>4. QED
      BY <3>2, <3>3
  <2>4. QED
    BY <1>1, <2>1, <2>2, <2>3 DEF Looking
<1>6. QED
  BY <1>2, <1>3, <1>4, <1>5

Sent == attempt' = attempt + 1 /\ UNCHANGED <<round, at, seen, answer>>

LooksAfter ==
    /\ round' = "after" /\ at' = 0 /\ seen' = Unseen
    /\ UNCHANGED <<answer, attempt, refreshed>>

LEMMA WritingShape ==
    ASSUME TypesInv, Write
    PROVE  /\ round = "write" /\ op \in AllOperations
           /\ UNCHANGED <<op, planned, changes>>
           /\ \E r \in Responses :
                 /\ response' = r /\ Taken(r)
                 /\ \/ /\ Resent(r) /\ Sent
                       /\ refreshed' = (refreshed \/ r = "unauthorized")
                    \/ Verdict(r) \in {"NOT_SENT", "UNCERTAIN"} /\ Answer(Verdict(r))
                    \/ r = "success" /\ \E a \in {"ACCEPTED", "UNCERTAIN"} : Answer(a)
                    \/ r = "success" /\ LooksAfter
<1>1. op \in AllOperations
  BY IdentityAssumption DEF TypesInv, TypeOK
<1>2. round = "write" /\ UNCHANGED <<op, planned, changes>>
  BY DEF Write
<1>3. PICK r \in Responses :
          /\ response' = r /\ Taken(r)
          /\ IF Resent(r)
             THEN /\ attempt' = attempt + 1
                  /\ refreshed' = (refreshed \/ r = "unauthorized")
                  /\ UNCHANGED <<round, at, seen, answer>>
             ELSE IF Verdict(r) # "taken" THEN Answer(Verdict(r))
             ELSE IF op = "sessions.revoke"
             THEN \E a \in {"ACCEPTED", "UNCERTAIN"} : Answer(a)
             ELSE /\ round' = "after" /\ at' = 0 /\ seen' = Unseen
                  /\ UNCHANGED <<answer, attempt, refreshed>>
  BY DEF Write
<1>4. /\ Verdict(r) \in {"NOT_SENT", "UNCERTAIN", "taken"}
      /\ Verdict(r) = "taken" => r = "success"
  <2>1. RemovalVerdict(r) \in {"NOT_SENT", "UNCERTAIN", "taken"}
        /\ (RemovalVerdict(r) = "taken" => r = "success")
    BY DEF RemovalVerdict
  <2>2. CASE op = "membership.remove"
    BY <2>1, <2>2 DEF Verdict
  <2>3. CASE op # "membership.remove"
    BY <2>3 DEF Verdict
  <2>4. QED
    BY <2>2, <2>3
<1>5. CASE Resent(r)
  BY <1>1, <1>2, <1>3, <1>5 DEF Sent
<1>6. CASE ~Resent(r) /\ Verdict(r) # "taken"
  BY <1>1, <1>2, <1>3, <1>4, <1>6
<1>7. CASE ~Resent(r) /\ Verdict(r) = "taken"
  BY <1>1, <1>2, <1>3, <1>4, <1>7 DEF LooksAfter
<1>8. QED
  BY <1>5, <1>6, <1>7

-----------------------------------------------------------------------------
(***************************************************************************)
(* Every step keeps the types.                                             *)
(***************************************************************************)

\* The two parts of the types that steps disturb, apart from each other.
Tenant ==
    /\ directory \in Directories /\ applied \in Nat /\ late \in BOOLEAN
    /\ changes \in 0..MaxChanges

Progress ==
    /\ \A r \in AllRequests : seen[r] # Nothing => seen[r] \in Evidences(r)
    /\ seen = [r \in AllRequests |-> seen[r]]
    /\ round \in {"planned", "preflight", "before", "write", "after", "done"}
    /\ at \in 0..Len(Requests(op))
    /\ round \in Looking => at < Len(Requests(op))
    /\ attempt \in 0..MaxRetries
    /\ refreshed \in BOOLEAN
    /\ answer \in {"none", "undecided", "drifted", "VERIFIED", "ACCEPTED",
                   "UNCERTAIN", "NOT_SENT"}

LEMMA TypesSplit ==
    TypesInv <=> /\ Tenant /\ Progress /\ op \in Operations
                 /\ held \in BOOLEAN /\ matched \subseteq AllRequests
                 /\ \A r \in AllRequests :
                        /\ planned[r] # Nothing <=> Contains(Requests(op), r)
                        /\ planned[r] # Nothing => planned[r] \in Evidences(r)
BY DEF TypesInv, TypeOK, Tenant, Progress

LEMMA TypesInit == Init => TypesInv
<1> SUFFICES ASSUME Init PROVE TypesInv
  OBVIOUS
<1>1. op \in AllOperations /\ directory \in Directories
  BY IdentityAssumption DEF Init
<1>2. \A r \in AllRequests :
          /\ planned[r] # Nothing <=> Contains(Requests(op), r)
          /\ planned[r] # Nothing => planned[r] \in Evidences(r)
  BY <1>1, EvidenceIsTyped, NothingAssumption DEF Init, Snapshot
<1>3. Tenant
  <2>1. 0 \in Nat /\ 0 \in 0..MaxChanges
    BY IdentityAssumption
  <2>2. QED
    BY <1>1, <2>1, Zenon DEF Init, Tenant
<1>4. Progress
  <2>1. at \in 0..Len(Requests(op))
    BY <1>1, RequestsAre DEF Init
  <2>2. seen = [r \in AllRequests |-> Nothing]
    BY DEF Init, Unseen
  <2>3. /\ \A r \in AllRequests : seen[r] = Nothing
        /\ seen = [r \in AllRequests |-> seen[r]]
    BY <2>2
  <2>4. 0 \in 0..MaxRetries
    BY IdentityAssumption
  <2>5. refreshed \in BOOLEAN
    BY Zenon DEF Init
  <2>6. round \notin Looking
    BY DEF Init, Looking
  <2>7. QED
    BY <2>1, <2>3, <2>4, <2>5, <2>6 DEF Init, Progress
<1>5. QED
  BY <1>2, <1>3, <1>4, TypesSplit DEF Init

LEMMA WitnessKeepsTypes ==
    ASSUME TypesInv, Witness, UNCHANGED <<op, planned>>, Tenant', Progress'
    PROVE  TypesInv'
<1>1. held' \in BOOLEAN /\ matched' \subseteq AllRequests
  BY DEF Witness, TypesInv, TypeOK
<1>2. \A r \in AllRequests :
          /\ planned'[r] # Nothing <=> Contains(Requests(op'), r)
          /\ planned'[r] # Nothing => planned'[r] \in Evidences(r)
  BY DEF TypesInv, TypeOK
<1>3. op' \in Operations
  BY DEF TypesInv, TypeOK
<1>4. QED
  BY <1>1, <1>2, <1>3 DEF TypesInv, TypeOK, Tenant, Progress

\* A look begins, or there are no more.
LEMMA FreshStartsAreTyped ==
    ASSUME TypesInv, op' = op, at' = 0, seen' = Unseen,
           round' \in {"preflight", "before", "write", "after", "done"},
           answer' \in {"none", "undecided", "drifted", "VERIFIED", "ACCEPTED",
                        "UNCERTAIN", "NOT_SENT"},
           UNCHANGED <<attempt, refreshed>>
    PROVE  Progress'
<1>1. Len(Requests(op)) \in Nat /\ 0 < Len(Requests(op))
  BY IdentityAssumption, RequestsAre DEF TypesInv, TypeOK
<1>2. seen' = [r \in AllRequests |-> Nothing]
  BY DEF Unseen
<1>3. QED
  BY <1>1, <1>2 DEF Progress, TypesInv, TypeOK

LEMMA ReadingKeepsTypes ==
    ASSUME TypesInv, Read
    PROVE  Tenant' /\ Progress'
<1>1. /\ round \in Looking /\ op \in AllOperations /\ Unmoved
      /\ \/ \E a \in {"undecided", "drifted", "UNCERTAIN"} : Answer(a)
         \/ GoesOn \/ LooksAgain \/ FindsDesired \/ GoesToWrite
  BY ReadingShape
<1>2. Tenant'
  BY <1>1 DEF Tenant, Unmoved, TypesInv, TypeOK
<1>3. ASSUME NEW a \in {"undecided", "drifted", "UNCERTAIN", "VERIFIED"}, Answer(a)
      PROVE  Progress'
  BY <1>1, <1>3, FreshStartsAreTyped DEF Answer, Unmoved
<1>4. ASSUME NEW which \in {"before", "write"}, Look(which)
      PROVE  Progress'
  <2>1. answer' \in {"none", "undecided", "drifted", "VERIFIED", "ACCEPTED",
                     "UNCERTAIN", "NOT_SENT"}
    BY <1>4 DEF Look, TypesInv, TypeOK
  <2>2. QED
    BY <1>1, <1>4, <2>1, FreshStartsAreTyped DEF Look, Unmoved
<1>5. CASE GoesOn
  <2>1. at \in Nat /\ at < Len(Requests(op)) /\ Len(Requests(op)) \in Nat
    BY <1>1, RequestsAre DEF TypesInv, TypeOK
  <2>2. Request \in AllRequests
    BY <1>1, <2>1, AskedNext DEF Request
  <2>3. Evidence(Request, directory) \in Evidences(Request)
    BY <2>2, EvidenceIsTyped DEF TypesInv, TypeOK
  <2>4. \A r \in AllRequests : Answered[r] # Nothing => Answered[r] \in Evidences(r)
    BY <2>3 DEF Answered, TypesInv, TypeOK
  <2>5. Answered = [r \in AllRequests |-> Answered[r]]
    BY DEF Answered, TypesInv
  <2>6. at' \in 0..Len(Requests(op')) /\ at' < Len(Requests(op'))
    BY <1>1, <1>5, <2>1 DEF GoesOn, Unmoved
  <2>7. /\ \A r \in AllRequests : seen'[r] # Nothing => seen'[r] \in Evidences(r)
        /\ seen' = [r \in AllRequests |-> seen'[r]]
    BY <1>5, <2>4, <2>5 DEF GoesOn
  <2>8. /\ round' \in {"planned", "preflight", "before", "write", "after", "done"}
        /\ attempt' \in 0..MaxRetries
        /\ refreshed' \in BOOLEAN
        /\ answer' \in {"none", "undecided", "drifted", "VERIFIED", "ACCEPTED",
                         "UNCERTAIN", "NOT_SENT"}
    BY <1>5 DEF GoesOn, TypesInv, TypeOK
  <2>9. QED
    BY <1>2, <2>6, <2>7, <2>8 DEF Progress
<1>6. QED
  BY <1>1, <1>2, <1>3, <1>4, <1>5 DEF LooksAgain, FindsDesired, GoesToWrite

LEMMA WritingKeepsTypes ==
    ASSUME TypesInv, Write
    PROVE  Tenant' /\ Progress'
<1>1. op \in AllOperations /\ op' = op /\ UNCHANGED changes
  BY WritingShape
<1>2. PICK r \in Responses :
          /\ Taken(r)
          /\ \/ /\ Resent(r) /\ Sent
                /\ refreshed' = (refreshed \/ r = "unauthorized")
             \/ Verdict(r) \in {"NOT_SENT", "UNCERTAIN"} /\ Answer(Verdict(r))
             \/ r = "success" /\ \E a \in {"ACCEPTED", "UNCERTAIN"} : Answer(a)
             \/ r = "success" /\ LooksAfter
  BY WritingShape
<1>3. Effect(op, directory) \in Directories
  BY <1>1, EffectIsTyped DEF TypesInv, TypeOK
<1>4. Tenant'
  <2>1. /\ applied' = applied \/ applied' = applied + 1
        /\ directory' = directory \/ directory' = Effect(op, directory)
        /\ late' = late \/ late' = TRUE
    BY <1>2 DEF Taken
  <2>2. applied' \in Nat
    BY <2>1 DEF TypesInv, TypeOK
  <2>3. late' \in BOOLEAN
    BY <2>1, Zenon DEF TypesInv, TypeOK
  <2>4. directory' \in Directories /\ changes' \in 0..MaxChanges
    BY <1>1, <1>3, <2>1, Zenon DEF TypesInv, TypeOK
  <2>5. QED
    BY <2>2, <2>3, <2>4, Zenon DEF Tenant
<1>5. CASE Resent(r) /\ Sent /\ refreshed' = (refreshed \/ r = "unauthorized")
  <2>1. attempt' \in 0..MaxRetries
    BY <1>5, IdentityAssumption DEF Resent, Sent, TypesInv, TypeOK
  <2>2. QED
    BY <1>1, <1>4, <1>5, <2>1 DEF Sent, Progress, TypesInv, TypeOK
<1>6. ASSUME NEW a \in {"NOT_SENT", "ACCEPTED", "UNCERTAIN"}, Answer(a)
      PROVE  Progress'
  BY <1>1, <1>6, FreshStartsAreTyped DEF Answer
<1>7. CASE LooksAfter
  <2>1. answer' \in {"none", "undecided", "drifted", "VERIFIED", "ACCEPTED",
                     "UNCERTAIN", "NOT_SENT"}
    BY <1>7 DEF LooksAfter, TypesInv, TypeOK
  <2>2. QED
    BY <1>1, <1>4, <1>7, <2>1, FreshStartsAreTyped DEF LooksAfter
<1>8. QED
  BY <1>2, <1>4, <1>5, <1>6, <1>7

LEMMA ChangesAreTyped ==
    ASSUME TypesInv, ChangeDirectory
    PROVE  Tenant' /\ Progress' /\ UNCHANGED <<op, planned>>
<1>1. directory' \in Directories
  <2> USE DEF TypesInv, TypeOK, Directories
  <2>1. ASSUME NEW r \in ToSet(RoleSources),
               directory' = [directory EXCEPT !.roles =
                                IF r \in @ THEN @ \ {r} ELSE @ \cup {r}]
        PROVE  directory' \in Directories
    BY <2>1
  <2>2. ASSUME NEW l \in {"none", "planned", "other"},
               directory' = [directory EXCEPT !.license = l]
        PROVE  directory' \in Directories
    BY <2>2
  <2>3. /\ [directory EXCEPT !.enabled = ~@] \in Directories
        /\ [directory EXCEPT !.native = ~@] \in Directories
        /\ [directory EXCEPT !.located = ~@] \in Directories
    OBVIOUS
  <2>4. /\ [directory EXCEPT !.fence = ~@] \in Directories
        /\ [directory EXCEPT !.member = ~@] \in Directories
    OBVIOUS
  <2>5. [directory EXCEPT !.seats = 1 - @] \in Directories
    <3>1. directory.seats \in 0..1
      OBVIOUS
    <3>2. 1 - directory.seats \in 0..1
      BY <3>1
    <3>3. QED
      BY <3>2
  <2> HIDE DEF TypesInv, TypeOK, Directories
  <2>6. QED
    BY <2>1, <2>2, <2>3, <2>4, <2>5, Zenon DEF ChangeDirectory
<1>2. changes' \in 0..MaxChanges
  BY IdentityAssumption DEF ChangeDirectory, TypesInv, TypeOK
<1>3. UNCHANGED <<provider, applied, late>>
  BY DEF ChangeDirectory
<1>4. Tenant'
  BY <1>1, <1>2, <1>3 DEF Tenant, TypesInv, TypeOK
<1>5. Progress'
  BY <1>3 DEF provider, Progress, TypesInv, TypeOK
<1>6. QED
  BY <1>3, <1>4, <1>5 DEF provider

LEMMA LateEffectsAreTyped ==
    ASSUME TypesInv, LateEffect
    PROVE  Tenant' /\ Progress' /\ UNCHANGED <<op, planned>>
<1>1. Effect(op, directory) \in Directories
  BY EffectIsTyped, IdentityAssumption DEF TypesInv, TypeOK
<1>2. UNCHANGED <<provider, applied, changes>>
  BY DEF LateEffect
<1>3. Tenant'
  BY <1>1, <1>2 DEF LateEffect, Tenant, TypesInv, TypeOK
<1>4. Progress'
  BY <1>2 DEF provider, Progress, TypesInv, TypeOK
<1>5. QED
  BY <1>2, <1>3, <1>4 DEF provider

LEMMA TypesStep == TypesInv /\ [Next]_vars => TypesInv'
<1> SUFFICES ASSUME TypesInv, [Next]_vars PROVE TypesInv'
  OBVIOUS
<1>1. CASE UNCHANGED vars
  BY <1>1 DEF vars, TypesInv, TypeOK
<1>2. CASE Next
  <2>1. Witness /\ (Start \/ Read \/ Write \/ LoseToken \/ ChangeDirectory \/ LateEffect)
    BY <1>2 DEF Next, Steps
  <2>2. CASE Start
    <3>1. Tenant' /\ UNCHANGED <<op, planned>>
      BY <2>2 DEF Start, Tenant, TypesInv, TypeOK
    <3>2. answer' \in {"none", "undecided", "drifted", "VERIFIED", "ACCEPTED",
                       "UNCERTAIN", "NOT_SENT"}
      BY <2>2 DEF Start, Look, TypesInv, TypeOK
    <3>3. Progress'
      BY <2>2, <3>2, FreshStartsAreTyped DEF Start, Look
    <3>4. QED
      BY <2>1, <3>1, <3>3, WitnessKeepsTypes
  <2>3. CASE Read
    <3>1. UNCHANGED <<op, planned>>
      BY <2>3 DEF Read
    <3>2. QED
      BY <2>1, <2>3, <3>1, ReadingKeepsTypes, WitnessKeepsTypes
  <2>4. CASE Write
    <3>1. UNCHANGED <<op, planned>>
      BY <2>4 DEF Write
    <3>2. QED
      BY <2>1, <2>4, <3>1, WritingKeepsTypes, WitnessKeepsTypes
  <2>5. CASE LoseToken
    <3>1. Tenant' /\ UNCHANGED <<op, planned>>
      BY <2>5 DEF LoseToken, Tenant, TypesInv, TypeOK
    <3>2. Answer("UNCERTAIN")
      BY <2>5 DEF LoseToken, Raise
    <3>3. Progress'
      BY <3>1, <3>2, FreshStartsAreTyped DEF Answer
    <3>4. QED
      BY <2>1, <3>1, <3>3, WitnessKeepsTypes
  <2>6. CASE ChangeDirectory
    BY <2>1, <2>6, ChangesAreTyped, WitnessKeepsTypes
  <2>7. CASE LateEffect
    BY <2>1, <2>7, LateEffectsAreTyped, WitnessKeepsTypes
  <2>8. QED
    BY <2>1, <2>2, <2>3, <2>4, <2>5, <2>6, <2>7
<1>3. QED
  BY <1>1, <1>2

\* Every state of a call is well-formed, and a look never asks more than its requests.
THEOREM TypesAreInvariant == Spec => []TypeOK
<1>1. TypesInv => TypeOK
  BY DEF TypesInv
<1>2. QED
  BY <1>1, TypesInit, TypesStep, PTL DEF Spec

-----------------------------------------------------------------------------
(***************************************************************************)
(* Effects and answers.                                                    *)
(***************************************************************************)

\* The write is taken once, by a request that is not repeated; what the lifecycle is
\* told when it is told that nothing was sent follows from the last response.
EffectInv ==
    /\ applied \in {0, 1}
    /\ late => applied = 1
    /\ round \in {"planned", "preflight", "before", "write"} => applied = 0
    /\ round # "done" => answer = "none"
    /\ answer = "NOT_SENT" =>
           /\ Verdict(response) = "NOT_SENT"
           /\ applied = 1 => response \in {"success", "unreadable"} \cup MayHaveTaken

LEMMA WritingKeepsEffects ==
    ASSUME TypesInv, EffectInv, Write
    PROVE  EffectInv'
<1>1. /\ round = "write" /\ op' = op /\ applied = 0 /\ ~late /\ answer = "none"
      /\ applied \in Nat
  BY WritingShape DEF EffectInv
<1>2. PICK r \in Responses :
          /\ response' = r /\ Taken(r)
          /\ \/ Resent(r) /\ Sent
             \/ Verdict(r) \in {"NOT_SENT", "UNCERTAIN"} /\ Answer(Verdict(r))
             \/ r = "success" /\ \E a \in {"ACCEPTED", "UNCERTAIN"} : Answer(a)
             \/ r = "success" /\ LooksAfter
  BY WritingShape
<1>3. /\ applied' \in {0, 1}
      /\ late' => applied' = 1
      /\ applied' = 1 => r \in {"success", "unreadable"} \cup MayHaveTaken
  BY <1>1, <1>2 DEF Taken
<1>4. CASE Resent(r) /\ Sent
  <2>1. r \in {"throttled", "unauthorized"}
    BY <1>4 DEF Resent
  <2>2. applied' = 0
    BY <1>3, <2>1 DEF MayHaveTaken
  <2>3. QED
    BY <1>1, <1>3, <1>4, <2>2 DEF Sent, EffectInv
<1>5. CASE Verdict(r) \in {"NOT_SENT", "UNCERTAIN"} /\ Answer(Verdict(r))
  <2>1. answer' = Verdict(r) /\ round' = "done" /\ Verdict(r)' = Verdict(r)
    BY <1>1, <1>5 DEF Answer, Verdict, RemovalVerdict
  <2>2. QED
    BY <1>2, <1>3, <2>1 DEF EffectInv, Verdict, RemovalVerdict, MayHaveTaken
<1>6. CASE \E a \in {"ACCEPTED", "UNCERTAIN"} : Answer(a)
  BY <1>3, <1>6 DEF Answer, EffectInv
<1>7. CASE LooksAfter
  BY <1>1, <1>3, <1>7 DEF LooksAfter, EffectInv
<1>8. QED
  BY <1>2, <1>4, <1>5, <1>6, <1>7

\* No other step makes an effect.
LEMMA OthersKeepEffects ==
    ASSUME EffectInv, applied' = applied, late' => late, op' = op, response' = response,
           \/ round' = round /\ answer' = answer
           \/ /\ round # "done"
              /\ \/ /\ round' = "done"
                    /\ answer' \in {"undecided", "drifted", "VERIFIED", "UNCERTAIN"}
                 \/ /\ round' \in {"preflight", "before", "write", "after"}
                    /\ round' # "after" => round \in {"planned", "preflight", "before"}
                    /\ answer' = answer
    PROVE  EffectInv'
BY DEF EffectInv, Verdict, RemovalVerdict

LEMMA EffectsStep == TypesInv /\ EffectInv /\ [Next]_vars => EffectInv'
<1> SUFFICES ASSUME TypesInv, EffectInv, [Next]_vars PROVE EffectInv'
  OBVIOUS
<1>1. CASE UNCHANGED vars
  BY <1>1, OthersKeepEffects DEF vars
<1>2. CASE Start
  BY <1>2, OthersKeepEffects DEF Start, Look
<1>3. CASE Read
  <2>1. /\ round \in Looking /\ Unmoved /\ response' = response
        /\ \/ \E a \in {"undecided", "drifted", "UNCERTAIN"} : Answer(a)
           \/ GoesOn \/ LooksAgain \/ FindsDesired \/ GoesToWrite
    BY <1>3, ReadingShape
  <2>2. applied' = applied /\ late' = late /\ op' = op /\ round # "done"
    BY <2>1 DEF Unmoved, Looking
  <2>3. CASE GoesOn
    BY <2>1, <2>2, <2>3, OthersKeepEffects DEF GoesOn
  <2>4. CASE LooksAgain
    BY <2>1, <2>2, <2>4, OthersKeepEffects DEF LooksAgain, Look
  <2>5. CASE FindsDesired
    BY <2>1, <2>2, <2>5, OthersKeepEffects DEF FindsDesired, Answer
  <2>6. CASE GoesToWrite
    BY <2>1, <2>2, <2>6, OthersKeepEffects DEF GoesToWrite, Look
  <2>7. CASE \E a \in {"undecided", "drifted", "UNCERTAIN"} : Answer(a)
    BY <2>1, <2>2, <2>7, OthersKeepEffects DEF Answer
  <2>8. QED
    BY <2>1, <2>3, <2>4, <2>5, <2>6, <2>7
<1>4. CASE Write
  BY <1>4, WritingKeepsEffects
<1>5. CASE LoseToken
  BY <1>5, OthersKeepEffects DEF LoseToken, Raise, Answer
<1>6. CASE ChangeDirectory
  BY <1>6, OthersKeepEffects DEF ChangeDirectory, provider
<1>7. CASE LateEffect
  BY <1>7, OthersKeepEffects DEF LateEffect, provider
<1>8. QED
  BY <1>1, <1>2, <1>3, <1>4, <1>5, <1>6, <1>7 DEF Next, Steps

LEMMA EffectsHold == Spec => [](TypesInv /\ EffectInv)
<1>1. Init => EffectInv
  BY DEF Init, EffectInv
<1>2. QED
  BY <1>1, TypesInit, TypesStep, EffectsStep, PTL DEF Spec

\* Whatever mixture of throttling, expired tokens and ambiguous answers the write meets,
\* Graph takes it at most once, for any number of retries.
THEOREM EffectsAreSingle == Spec => []OneEffectPerExecution
<1>1. EffectInv => OneEffectPerExecution
  BY DEF EffectInv, OneEffectPerExecution
<1>2. QED
  BY <1>1, EffectsHold, PTL

\* When the lifecycle is told NOT_SENT, and the answer is not one of the two that are
\* misread, the write has no effect, neither visible nor still to come.
THEOREM NotSentIsWithoutEffect == Spec => []NotSentMeansNoEffect
<1>1. EffectInv => NotSentMeansNoEffect
  <2> SUFFICES ASSUME EffectInv, answer = "NOT_SENT", ~Misread
               PROVE  applied = 0 /\ ~late
    BY DEF NotSentMeansNoEffect
  <2>1. Verdict(response) = "NOT_SENT"
    BY DEF EffectInv
  <2>2. response \notin {"success", "unreadable"} \cup MayHaveTaken
    BY <2>1 DEF Verdict, RemovalVerdict, Misread, MayHaveTaken
  <2>3. QED
    BY <2>2 DEF EffectInv
<1>2. QED
  BY <1>1, EffectsHold, PTL

-----------------------------------------------------------------------------
(***************************************************************************)
(* What the provider saw was there.                                        *)
(***************************************************************************)

\* The request whose answer shows whether the desired state is there.
Key(o) == IF o \in Memberships THEN "member" ELSE "user"

LEMMA KeyIsRequested ==
    ASSUME NEW o \in AllOperations
    PROVE  Key(o) \in ToSet(Requests(o)) /\ Key(o) \in AllRequests
<1>1. \A i \in 1..Len(Requests(o)) : Requests(o)[i] \in ToSet(Requests(o))
  BY RequestsAre DEF ToSet
<1>2. CASE o \in Memberships
  BY <1>1, <1>2, RequestsAre, AskedEnds DEF Key
<1>3. CASE o \notin Memberships
  BY <1>1, <1>3, RequestsAre, AskedEnds DEF Key
<1>4. QED
  BY <1>2, <1>3

LEMMA KeyDecides ==
    ASSUME NEW o \in AllOperations, NEW s, NEW t, s[Key(o)] = t[Key(o)]
    PROVE  Desired(o, s) <=> Desired(o, t)
BY DEF AllOperations, Memberships, Key, Desired

\* An instant at which the request for the key shows the desired state is one at which
\* it is there.
SeenInv ==
    /\ round \in {"before", "after"} /\ Key(op) \in Asked(op, at) /\ Desired(op, seen)
           => held
    /\ answer = "VERIFIED" => held

LEMMA KeyShowsTheTruth ==
    ASSUME TypesInv, EffectInv, SeenInv, Witness, op' = op,
           round \in {"before", "after"},
           round' \in {"before", "write", "after", "done"},
           Key(op) \in Asked(op, at + 1), Desired(op, Answered)
    PROVE  held'
<1>1. /\ op \in AllOperations /\ at \in Nat /\ at < Len(Requests(op))
      /\ Key(op) \in AllRequests /\ answer = "none"
  BY IdentityAssumption, RequestsAre, KeyIsRequested
     DEF TypesInv, TypeOK, Looking, EffectInv
<1>2. /\ Asked(op, at + 1) = Asked(op, at) \cup {Request}
      /\ Request \in AllRequests /\ Request \notin Asked(op, at)
  BY <1>1, AskedNext DEF Request
<1>3. /\ Answered[Request] = Evidence(Request, directory)
      /\ \A r \in AllRequests : r # Request => Answered[r] = seen[r]
  BY <1>2 DEF Answered, TypesInv
<1>4. CASE Key(op) = Request
  <2>1. Contains(Requests(op), Key(op))
    BY <1>1, AskedEnds, KeyIsRequested
  <2>2. Snapshot(op, directory)[Key(op)] = Answered[Key(op)]
    BY <1>1, <1>3, <1>4, <2>1 DEF Snapshot
  <2>3. Desired(op, Snapshot(op, directory))
    BY <1>1, <2>2, KeyDecides
  <2>4. QED
    BY <1>1, <2>3 DEF Witness
<1>5. CASE Key(op) # Request
  <2>1. Desired(op, seen) /\ Key(op) \in Asked(op, at)
    BY <1>1, <1>2, <1>3, <1>5, KeyDecides
  <2>2. QED
    BY <2>1 DEF SeenInv, Witness
<1>6. QED
  BY <1>4, <1>5

\* A step that begins a look, or ends the call with another answer, or leaves both alone.
LEMMA OthersKeepSeen ==
    ASSUME TypesInv, SeenInv, op' = op, held => held',
           answer' # "VERIFIED" \/ answer' = answer,
           \/ at' = 0 \/ round' \notin {"before", "after"}
           \/ at' = at /\ seen' = seen /\ round' = round
    PROVE  SeenInv'
<1>1. Asked(op, 0) = {}
  BY IdentityAssumption, AskedEnds DEF TypesInv, TypeOK
<1>2. CASE at' = 0 \/ round' \notin {"before", "after"}
  BY <1>1, <1>2 DEF SeenInv, Asked
<1>3. CASE at' = at /\ seen' = seen /\ round' = round
  <2>1. Asked(op', at') = Asked(op, at)
    BY <1>3
  <2>2. Desired(op', seen') <=> Desired(op, seen)
    BY <1>3
  <2>3. QED
    BY <1>3, <2>1, <2>2 DEF SeenInv
<1>4. QED
  BY <1>2, <1>3

LEMMA SeenStep == TypesInv /\ EffectInv /\ SeenInv /\ [Next]_vars => SeenInv'
<1> SUFFICES ASSUME TypesInv, EffectInv, SeenInv, [Next]_vars PROVE SeenInv'
  OBVIOUS
<1>1. CASE UNCHANGED vars
  BY <1>1, OthersKeepSeen DEF vars
<1>2. CASE Next
  <2>1. Witness /\ (held => held')
    BY <1>2 DEF Next, Witness
  <2>2. CASE Start
    BY <2>1, <2>2, OthersKeepSeen DEF Start, Look
  <2>3. CASE Read
    <3>1. /\ round \in Looking /\ op \in AllOperations /\ Unmoved
          /\ \/ \E a \in {"undecided", "drifted", "UNCERTAIN"} : Answer(a)
             \/ GoesOn \/ LooksAgain \/ FindsDesired \/ GoesToWrite
      BY <2>3, ReadingShape
    <3>2. op' = op
      BY <3>1 DEF Unmoved
    <3>3. CASE GoesOn
      <4>1. at' = at + 1 /\ seen' = Answered /\ round' = round /\ answer' = answer
        BY <3>3 DEF GoesOn
      <4>2. Asked(op', at') = Asked(op, at + 1)
        BY <3>2, <4>1
      <4>3. Desired(op', seen') <=> Desired(op, Answered)
        BY <3>2, <4>1
      <4>4. QED
        BY <2>1, <3>2, <4>1, <4>2, <4>3, KeyShowsTheTruth DEF SeenInv
    <3>4. CASE FindsDesired
      <4>1. /\ round \in {"before", "after"} /\ Desired(op, Answered)
            /\ at + 1 = Len(Requests(op)) /\ round' = "done"
        BY <3>4 DEF FindsDesired, Answer
      <4>2. Key(op) \in Asked(op, at + 1)
        BY <3>1, <4>1, AskedEnds, KeyIsRequested
      <4>3. held'
        BY <2>1, <3>2, <4>1, <4>2, KeyShowsTheTruth
      <4>4. QED
        BY <4>1, <4>3 DEF SeenInv
    <3>5. CASE LooksAgain \/ GoesToWrite
      BY <2>1, <3>2, <3>5, OthersKeepSeen DEF LooksAgain, GoesToWrite, Look
    <3>6. CASE \E a \in {"undecided", "drifted", "UNCERTAIN"} : Answer(a)
      BY <2>1, <3>2, <3>6, OthersKeepSeen DEF Answer
    <3>7. QED
      BY <3>1, <3>3, <3>4, <3>5, <3>6
  <2>4. CASE Write
    <3>1. /\ round = "write" /\ op' = op
          /\ \/ Sent \/ LooksAfter
             \/ \E a \in {"NOT_SENT", "ACCEPTED", "UNCERTAIN"} : Answer(a)
      BY <2>4, WritingShape
    <3>2. CASE Sent
      BY <2>1, <3>1, <3>2, OthersKeepSeen DEF Sent
    <3>3. CASE LooksAfter
      BY <2>1, <3>1, <3>3, OthersKeepSeen DEF LooksAfter
    <3>4. CASE \E a \in {"NOT_SENT", "ACCEPTED", "UNCERTAIN"} : Answer(a)
      BY <2>1, <3>1, <3>4, OthersKeepSeen DEF Answer
    <3>5. QED
      BY <3>1, <3>2, <3>3, <3>4
  <2>5. CASE LoseToken
    BY <2>1, <2>5, OthersKeepSeen DEF LoseToken, Raise, Answer
  <2>6. CASE ChangeDirectory
    BY <2>1, <2>6, OthersKeepSeen DEF ChangeDirectory, provider
  <2>7. CASE LateEffect
    BY <2>1, <2>7, OthersKeepSeen DEF LateEffect, provider
  <2>8. QED
    BY <1>2, <2>2, <2>3, <2>4, <2>5, <2>6, <2>7 DEF Next, Steps
<1>3. QED
  BY <1>1, <1>2

\* Reads are stale when they are used and the effect may show late, and still VERIFIED is
\* only said when the desired state was there at an instant since execute() began.
THEOREM VerifiedStatesWereThere == Spec => []VerifiedWasThere
<1>1. Init => SeenInv
  BY DEF Init, SeenInv
<1>2. SeenInv => VerifiedWasThere
  BY DEF SeenInv, VerifiedWasThere
<1>3. QED
  BY <1>1, <1>2, SeenStep, EffectsHold, PTL DEF Spec

-----------------------------------------------------------------------------
(***************************************************************************)
(* The state that was approved.                                            *)
(***************************************************************************)

Approved ==
    /\ ToSet(Requests(op)) \subseteq matched
    /\ \A r \in ToSet(Requests(op)) : Safe(op, r, planned)

\* The look of preflight compares with the plan what was there when it was read, and
\* checks it; the rest follows a look that agreed in everything.
ApprovedInv ==
    /\ round = "preflight" =>
           \A r \in Asked(op, at) :
               Safe(op, r, seen) /\ (seen[r] = planned[r] => r \in matched)
    /\ round \in {"before", "write", "after"} \/ applied > 0 => Approved

\* What a check reads was asked for no later than the request it follows.
LEMMA ChecksLookBack ==
    ASSUME NEW o \in AllOperations, NEW n \in Nat, n < Len(Requests(o)),
           NEW r \in Asked(o, n), NEW s, NEW t,
           \A x \in AllRequests : x # Requests(o)[n + 1] => s[x] = t[x]
    PROVE  Safe(o, r, s) <=> Safe(o, r, t)
<1> DEFINE next == Requests(o)[n + 1]
<1>1. next \notin Asked(o, n) /\ Asked(o, n) \subseteq AllRequests
  BY AskedNext
<1>2. /\ r = "eligibility" => {"user"} \cup ToSet(RoleSources) \subseteq Asked(o, n)
      /\ r = "sku" => "user" \in Asked(o, n)
  <2>1. PICK i \in 1..n : r = Requests(o)[i]
    BY DEF Asked
  <2>2. \A j \in 1..i : Requests(o)[j] \in Asked(o, n)
    BY <2>1 DEF Asked
  <2>3. Requests(o)[1] = "user" /\ i >= 1
    BY RequestsAre
  <2>4. r = "eligibility" => i >= 5
    <3>1. i \in {1, 2, 3, 4} \/ i >= 5
      BY <2>1
    <3>2. i \in {1, 2, 3, 4} => r # "eligibility"
      BY <2>1, RequestsAre
    <3>3. QED
      BY <3>1, <3>2
  <2>5. r = "eligibility" => {"user"} \cup ToSet(RoleSources) \subseteq Asked(o, n)
    BY <2>1, <2>2, <2>4, RequestsAre, RequestsAreThese
  <2>6. QED
    BY <2>2, <2>3, <2>5
<1>3. \A x \in Asked(o, n) : s[x] = t[x]
  BY <1>1
<1>4. CASE r = "eligibility"
  BY <1>2, <1>3, <1>4 DEF Safe
<1>5. CASE r = "fence"
  BY <1>3, <1>5 DEF Safe
<1>6. CASE r = "sku"
  BY <1>2, <1>3, <1>6 DEF Safe
<1>7. CASE r \notin {"eligibility", "fence", "sku"}
  BY <1>7 DEF Safe
<1>8. QED
  BY <1>4, <1>5, <1>6, <1>7

\* One more request of preflight.
LEMMA ComparingIsSound ==
    ASSUME TypesInv, ApprovedInv, Witness, round = "preflight",
           Safe(op, Request, Answered), NEW r \in Asked(op, at + 1)
    PROVE  /\ Safe(op, r, Answered)
           /\ Answered[r] = planned[r] => r \in matched'
<1>1. op \in AllOperations /\ at \in Nat /\ at < Len(Requests(op))
  BY IdentityAssumption, RequestsAre DEF TypesInv, TypeOK, Looking
<1>2. /\ Asked(op, at + 1) = Asked(op, at) \cup {Request}
      /\ Request \in AllRequests /\ Request \notin Asked(op, at)
      /\ Asked(op, at) \subseteq AllRequests
  BY <1>1, AskedNext DEF Request
<1>3. /\ Answered[Request] = Evidence(Request, directory)
      /\ \A x \in AllRequests : x # Request => Answered[x] = seen[x]
  BY <1>2 DEF Answered, TypesInv
<1>4. matched' = matched \cup
                 {x \in AllRequests : Snapshot(op, directory)[x] = planned[x]}
  BY DEF Witness
<1>5. CASE r = Request
  <2>1. Request \in ToSet(Requests(op))
    BY <1>1, RequestsAre DEF Request, ToSet
  <2>2. Contains(Requests(op), Request)
    BY <1>1, <2>1, AskedEnds
  <2>3. Snapshot(op, directory)[Request] = Answered[Request]
    BY <1>2, <1>3, <2>2 DEF Snapshot
  <2>4. QED
    BY <1>2, <1>4, <1>5, <2>3
<1>6. CASE r \in Asked(op, at)
  <2>1. Safe(op, r, seen) /\ (seen[r] = planned[r] => r \in matched)
    BY <1>6 DEF ApprovedInv
  <2>2. Answered[r] = seen[r]
    BY <1>2, <1>3, <1>6
  <2>3. Safe(op, r, Answered) <=> Safe(op, r, seen)
    BY <1>1, <1>3, <1>6, ChecksLookBack DEF Request
  <2>4. QED
    BY <1>4, <2>1, <2>2, <2>3
<1>7. QED
  BY <1>2, <1>5, <1>6

\* An approval is for good.
LEMMA ApprovalStands ==
    ASSUME TypesInv, Approved, Witness, round # "planned", op' = op, planned' = planned
    PROVE  Approved'
<1>1. matched \subseteq matched'
  BY DEF Witness
<1>2. QED
  BY <1>1 DEF Approved

LEMMA OthersKeepApproved ==
    ASSUME TypesInv, ApprovedInv, Witness, op' = op, planned' = planned,
           round # "planned" \/ applied' = 0,
           \/ round' # "preflight" \/ at' = 0
           \/ round' = round /\ at' = at /\ seen' = seen,
           round' \in {"before", "write", "after"} \/ applied' > 0
               => round \in {"before", "write", "after"} \/ applied > 0,
           round = "planned" => round' \in {"planned", "preflight"}
    PROVE  ApprovedInv'
<1>1. Asked(op, 0) = {}
  BY IdentityAssumption, AskedEnds DEF TypesInv, TypeOK
<1>2. round' = "preflight" =>
          \A r \in Asked(op', at') :
              Safe(op', r, seen') /\ (seen'[r] = planned'[r] => r \in matched')
  <2>1. CASE at' = 0
    BY <1>1, <2>1
  <2>2. CASE round' = round /\ at' = at /\ seen' = seen
    <3>1. round # "planned" => matched \subseteq matched'
      BY DEF Witness
    <3>2. ASSUME round' = "preflight", NEW r \in Asked(op, at)
          PROVE  Safe(op, r, seen) /\ (seen[r] = planned[r] => r \in matched')
      BY <2>2, <3>1, <3>2 DEF ApprovedInv
    <3>3. QED
      BY <2>2, <3>2
  <2>3. QED
    BY <2>1, <2>2
<1>3. round' \in {"before", "write", "after"} \/ applied' > 0 => Approved'
  BY ApprovalStands DEF ApprovedInv
<1>4. QED
  BY <1>2, <1>3 DEF ApprovedInv

LEMMA ApprovedStep ==
    TypesInv /\ EffectInv /\ ApprovedInv /\ [Next]_vars => ApprovedInv'
<1> SUFFICES ASSUME TypesInv, EffectInv, ApprovedInv, [Next]_vars PROVE ApprovedInv'
  OBVIOUS
<1>1. CASE UNCHANGED vars
  BY <1>1 DEF vars, ApprovedInv, Approved, Asked
<1>2. CASE Next
  <2>1. Witness
    BY <1>2 DEF Next
  <2>2. CASE Start
    BY <2>1, <2>2, OthersKeepApproved DEF Start, Look, EffectInv
  <2>3. CASE Read
    <3>1. /\ round \in Looking /\ op \in AllOperations /\ Unmoved
          /\ \/ \E a \in {"undecided", "drifted", "UNCERTAIN"} : Answer(a)
             \/ /\ Safe(op, Request, Answered)
                /\ GoesOn \/ LooksAgain \/ FindsDesired \/ GoesToWrite
      BY <2>3, ReadingShape
    <3>2. /\ op' = op /\ planned' = planned /\ applied' = applied /\ round # "planned"
      BY <3>1 DEF Unmoved, Looking
    <3>3. CASE GoesOn /\ Safe(op, Request, Answered)
      <4>1. /\ at' = at + 1 /\ seen' = Answered /\ round' = round
        BY <3>3 DEF GoesOn
      <4>2. CASE round = "preflight"
        <5>1. \A r \in Asked(op, at + 1) :
                  /\ Safe(op, r, Answered)
                  /\ Answered[r] = planned[r] => r \in matched'
          BY <2>1, <3>3, <4>2, ComparingIsSound
        <5>2. applied = 0
          BY <4>2 DEF EffectInv
        <5>3. QED
          BY <3>2, <4>1, <4>2, <5>1, <5>2 DEF ApprovedInv
      <4>3. CASE round # "preflight"
        BY <2>1, <3>2, <4>1, <4>3, OthersKeepApproved
      <4>4. QED
        BY <4>2, <4>3
    <3>4. CASE LooksAgain /\ Safe(op, Request, Answered)
      <4>1. /\ round = "preflight" /\ at + 1 = Len(Requests(op)) /\ Answered = planned
            /\ round' = "before"
        BY <3>4 DEF LooksAgain, Look
      <4>2. \A r \in Asked(op, at + 1) : Safe(op, r, planned) /\ r \in matched'
        BY <2>1, <3>4, <4>1, ComparingIsSound
      <4>3. Asked(op, at + 1) = ToSet(Requests(op))
        BY <3>1, <4>1, AskedEnds
      <4>4. Approved'
        BY <3>2, <4>2, <4>3 DEF Approved
      <4>5. QED
        BY <4>1, <4>4 DEF ApprovedInv
    <3>5. CASE FindsDesired \/ GoesToWrite
      BY <2>1, <3>2, <3>5, OthersKeepApproved DEF FindsDesired, GoesToWrite, Answer, Look
    <3>6. CASE \E a \in {"undecided", "drifted", "UNCERTAIN"} : Answer(a)
      BY <2>1, <3>2, <3>6, OthersKeepApproved DEF Answer
    <3>7. QED
      BY <3>1, <3>3, <3>4, <3>5, <3>6
  <2>4. CASE Write
    <3>1. /\ round = "write" /\ op' = op /\ planned' = planned
          /\ \/ Sent \/ LooksAfter
             \/ \E a \in {"NOT_SENT", "ACCEPTED", "UNCERTAIN"} : Answer(a)
      BY <2>4, WritingShape
    <3>2. round' # "preflight"
      BY <3>1 DEF Sent, LooksAfter, Answer
    <3>3. QED
      BY <2>1, <3>1, <3>2, OthersKeepApproved
  <2>5. CASE LoseToken
    BY <2>1, <2>5, OthersKeepApproved DEF LoseToken, Raise, Answer
  <2>6. CASE ChangeDirectory
    BY <2>1, <2>6, OthersKeepApproved DEF ChangeDirectory, provider, EffectInv
  <2>7. CASE LateEffect
    BY <2>1, <2>7, OthersKeepApproved DEF LateEffect, provider, EffectInv
  <2>8. QED
    BY <1>2, <2>2, <2>3, <2>4, <2>5, <2>6, <2>7 DEF Next, Steps
<1>3. QED
  BY <1>1, <1>2

\* For every operation, however others change the directory meanwhile, a write takes
\* effect only where each piece of evidence bound by the plan was true at an instant of
\* this call and every check of it held.
THEOREM EffectsFollowApproval == Spec => []EffectOnApprovedState
<1>1. Init => ApprovedInv
  BY DEF Init, ApprovedInv
<1>2. ApprovedInv => EffectOnApprovedState
  BY DEF ApprovedInv, Approved, EffectOnApprovedState
<1>3. QED
  BY <1>1, <1>2, ApprovedStep, EffectsHold, PTL DEF Spec

-----------------------------------------------------------------------------
(***************************************************************************)
(* Types.  The actions of the stores and those of the sessions share no    *)
(* variable, and only a restart is both.                                   *)
(***************************************************************************)

StoresOK ==
    /\ material \in Processes \cup {None}
    /\ encoded \in [Processes -> Processes \cup {None}]
    /\ storing \in [Processes -> {"idle", "absent", "created", "ready"}]
    /\ settled \in [Processes -> BOOLEAN]
    /\ records \subseteq Records /\ IsFiniteSet(records)
    /\ \A p \in Processes : storing[p] \in {"created", "ready"} => encoded[p] # None

SessionsOK ==
    /\ policy \in Policies
    /\ entry \subseteq Accounts
    /\ cache \in [Processes -> SUBSET Accounts]
    /\ live \subseteq Accounts
    /\ principal \in [Processes -> Accounts \cup {None}]
    /\ token \in [Processes -> Accounts \cup {None}]
    /\ pc \in [Processes -> {"idle", "me", "pinned", "send", "sent"}]
    /\ revocations \in 0..MaxRevocations

SecretTypesInv == StoresOK /\ SessionsOK

StoreStep(p) ==
    GetMaterial(p) \/ GenerateKey(p) \/ SetMaterial(p) \/ Seal(p) \/ FailStore(p)

\* A process asks for a token and goes on to where it uses it, or has used it.
SessionStep(p) ==
    \/ \E a \in TokenSources(p) :
          \/ Obtained(p, a, "me")
          \/ principal[p] # None /\ Obtained(p, a, "send")
          \/ pc[p] = "send" /\ Obtained(p, a, "sent")
    \/ Pin(p) \/ Complete(p)

LEMMA StoreStepsKeepTypes ==
    ASSUME StoresOK, NEW p \in Processes, StoreStep(p)
    PROVE  StoresOK' /\ UNCHANGED sessions
<1>1. UNCHANGED sessions
  BY DEF StoreStep, GetMaterial, GenerateKey, SetMaterial, Seal, FailStore
<1>2. CASE GetMaterial(p)
  BY <1>2 DEF GetMaterial, StoresOK, Settled
<1>3. CASE GenerateKey(p)
  BY <1>3, SecretsAssumption DEF GenerateKey, StoresOK
<1>4. CASE SetMaterial(p)
  BY <1>4 DEF SetMaterial, StoresOK
<1>5. CASE Seal(p)
  <2> DEFINE id == Cardinality(records) + 1
             r == [key |-> encoded[p], id |-> id, settled |-> settled[p]]
  <2>1. Cardinality(records) \in Nat /\ Cardinality(records) < MaxRecords
    BY <1>5, FS_CardinalityType DEF StoresOK, Seal
  <2>2. id \in 1..MaxRecords
    BY <2>1, SecretsAssumption
  <2> HIDE DEF id
  <2>3. records' = records \cup {r}
    BY <1>5 DEF Seal, id
  <2>4. encoded[p] \in Processes /\ settled[p] \in BOOLEAN
    BY <1>5 DEF Seal, StoresOK
  <2>5. r \in Records
    BY <2>2, <2>4 DEF Records
  <2>6. IsFiniteSet(records')
    BY <2>3, FS_AddElement DEF StoresOK
  <2> HIDE DEF r
  <2>7. QED
    BY <1>5, <2>3, <2>5, <2>6 DEF Seal, StoresOK
<1>6. CASE FailStore(p)
  BY <1>6 DEF FailStore, StoresOK
<1>7. QED
  BY <1>1, <1>2, <1>3, <1>4, <1>5, <1>6 DEF StoreStep

LEMMA ObtainingKeepsTypes ==
    ASSUME SessionsOK, NEW p \in Processes, NEW a \in Accounts,
           NEW next \in {"me", "send", "sent"}, Obtained(p, a, next)
    PROVE  SessionsOK' /\ UNCHANGED stores
<1>1. cache' \in [Processes -> SUBSET Accounts]
  BY DEF Obtained, SessionsOK
<1>2. entry' \subseteq Accounts
  BY <1>1 DEF Obtained, SessionsOK
<1>3. /\ token' \in [Processes -> Accounts \cup {None}]
      /\ pc' \in [Processes -> {"idle", "me", "pinned", "send", "sent"}]
  BY DEF Obtained, SessionsOK
<1>4. QED
  BY <1>1, <1>2, <1>3 DEF Obtained, SessionsOK

LEMMA SourcesAreAccounts ==
    ASSUME SessionsOK, NEW p \in Processes
    PROVE  TokenSources(p) \subseteq Accounts
BY DEF TokenSources, Candidates, SessionsOK

LEMMA SessionStepsKeepTypes ==
    ASSUME SessionsOK, NEW p \in Processes, SessionStep(p)
    PROVE  SessionsOK' /\ UNCHANGED stores
<1>1. ASSUME NEW a \in TokenSources(p), NEW next \in {"me", "send", "sent"},
             Obtained(p, a, next)
      PROVE  SessionsOK' /\ UNCHANGED stores
  BY <1>1, SourcesAreAccounts, ObtainingKeepsTypes
<1>2. CASE Pin(p)
  BY <1>2 DEF Pin, SessionsOK
<1>3. CASE Complete(p)
  BY <1>3 DEF Complete, SessionsOK
<1>4. QED
  BY <1>1, <1>2, <1>3 DEF SessionStep

LEMMA EndingKeepsTypes ==
    ASSUME SessionsOK, EndSession
    PROVE  SessionsOK' /\ UNCHANGED stores
BY SecretsAssumption DEF EndSession, SessionsOK

LEMMA RestartKeepsTypes ==
    ASSUME SecretTypesInv, NEW p \in Processes, Restart(p)
    PROVE  SecretTypesInv'
<1>1. StoresOK'
  BY DEF Restart, SecretTypesInv, StoresOK
<1>2. SessionsOK'
  BY SecretsAssumption DEF Restart, SecretTypesInv, SessionsOK
<1>3. QED
  BY <1>1, <1>2 DEF SecretTypesInv

LEMMA StepsSplit ==
    ASSUME SessionsOK, [SecretsNext]_secretsVars
    PROVE  \/ UNCHANGED secretsVars
           \/ \E p \in Processes : StoreStep(p) \/ SessionStep(p) \/ Restart(p)
           \/ EndSession
BY DEF SecretsNext, StoreStep, SessionStep, AskMe, GetToken, Refresh

LEMMA SecretTypesStep == SecretTypesInv /\ [SecretsNext]_secretsVars => SecretTypesInv'
<1> SUFFICES ASSUME SecretTypesInv, [SecretsNext]_secretsVars PROVE SecretTypesInv'
  OBVIOUS
<1>1. CASE UNCHANGED secretsVars
  BY <1>1 DEF secretsVars, SecretTypesInv, StoresOK, SessionsOK, Records
<1>2. ASSUME NEW p \in Processes, StoreStep(p)
      PROVE  SecretTypesInv'
  BY <1>2, StoreStepsKeepTypes DEF SecretTypesInv, sessions, SessionsOK
<1>3. ASSUME NEW p \in Processes, SessionStep(p)
      PROVE  SecretTypesInv'
  BY <1>3, SessionStepsKeepTypes DEF SecretTypesInv, stores, StoresOK
<1>4. CASE EndSession
  BY <1>4, EndingKeepsTypes DEF SecretTypesInv, stores, StoresOK
<1>5. QED
  BY <1>1, <1>2, <1>3, <1>4, StepsSplit, RestartKeepsTypes DEF SecretTypesInv

LEMMA SecretTypesInit == SecretsInit => SecretTypesInv
BY SecretsAssumption, FS_EmptySet DEF SecretsInit, SecretTypesInv, StoresOK, SessionsOK

\* Keys, records, caches, principals and tokens are always well-formed.
THEOREM SecretTypesAreInvariant == SecretsSpec => []SecretsTypeOK
<1>1. SecretTypesInv => SecretsTypeOK
  BY DEF SecretTypesInv, StoresOK, SessionsOK, SecretsTypeOK
<1>2. QED
  BY <1>1, SecretTypesInit, SecretTypesStep, PTL DEF SecretsSpec

-----------------------------------------------------------------------------
(***************************************************************************)
(* Records that stay readable.                                             *)
(***************************************************************************)

\* There is a key, and nobody is about to store another one.  This lasts.
Quiet == material # None /\ Settled

\* Whatever was begun or sealed in quiet has the key of the keychain.
SealInv ==
    /\ \A p \in Processes : settled[p] => Quiet
    /\ \A p \in Processes : settled[p] /\ storing[p] = "ready" => encoded[p] = material
    /\ \A r \in records : r.settled => Quiet /\ r.key = material

\* A step of another kind than the three below keeps the key, the records and quiet.
LEMMA KeepingSeals ==
    ASSUME SealInv, UNCHANGED <<material, settled, records>>, Quiet => Settled',
           \A p \in Processes :
               storing'[p] = "ready" => storing[p] = "ready" /\ encoded'[p] = encoded[p]
    PROVE  SealInv'
BY DEF SealInv, Quiet

LEMMA StoreStepsKeepSeals ==
    ASSUME StoresOK, SealInv, NEW p \in Processes, StoreStep(p)
    PROVE  SealInv'
<1>1. CASE GetMaterial(p)
  <2>1. Quiet => Quiet'
    BY <1>1 DEF GetMaterial, StoresOK, Quiet, Settled
  <2>2. settled'[p] => Quiet
    BY <1>1 DEF GetMaterial, StoresOK, Quiet
  <2>3. storing'[p] = "ready" => encoded'[p] = material'
    BY <1>1 DEF GetMaterial, StoresOK
  <2>4. \A q \in Processes \ {p} :
            /\ settled'[q] = settled[q] /\ storing'[q] = storing[q]
            /\ encoded'[q] = encoded[q]
    BY <1>1 DEF GetMaterial, StoresOK
  <2>5. material' = material /\ records' = records
    BY <1>1 DEF GetMaterial
  <2>6. \A q \in Processes :
            /\ settled'[q] => Quiet'
            /\ settled'[q] /\ storing'[q] = "ready" => encoded'[q] = material'
    BY <2>1, <2>2, <2>3, <2>4, <2>5 DEF SealInv
  <2>7. \A r \in records' : r.settled => Quiet' /\ r.key = material'
    BY <2>1, <2>5 DEF SealInv
  <2>8. QED
    BY <2>6, <2>7 DEF SealInv
<1>2. CASE GenerateKey(p)
  <2>1. ~Settled
    BY <1>2 DEF GenerateKey, Settled
  <2>2. \A q \in Processes :
            storing'[q] = "ready" => storing[q] = "ready" /\ encoded'[q] = encoded[q]
    BY <1>2 DEF GenerateKey, StoresOK
  <2>3. UNCHANGED <<material, settled, records>>
    BY <1>2 DEF GenerateKey
  <2>4. QED
    BY <2>1, <2>2, <2>3, KeepingSeals DEF Quiet
<1>3. CASE SetMaterial(p)
  <2>1. ~Quiet
    BY <1>3 DEF SetMaterial, Settled, Quiet
  <2>2. UNCHANGED <<settled, records>>
    BY <1>3 DEF SetMaterial
  <2>3. QED
    BY <2>1, <2>2 DEF SealInv
<1>4. CASE Seal(p)
  <2>1. UNCHANGED <<material, settled>>
    BY <1>4 DEF Seal
  <2>2. /\ storing' = [storing EXCEPT ![p] = "idle"] /\ storing[p] = "ready"
        /\ encoded' = [encoded EXCEPT ![p] = None]
    BY <1>4 DEF Seal
  <2>3. Quiet => Quiet'
    BY <2>1, <2>2 DEF StoresOK, Quiet, Settled
  <2>4. \A r \in records' :
            r \in records \/ (r.key = encoded[p] /\ r.settled = settled[p])
    <3> DEFINE new == [key |-> encoded[p], id |-> Cardinality(records) + 1,
                       settled |-> settled[p]]
    <3>1. new.key = encoded[p] /\ new.settled = settled[p]
      OBVIOUS
    <3>2. records' = records \cup {new}
      BY <1>4 DEF Seal
    <3> HIDE DEF new
    <3>3. QED
      BY <3>1, <3>2
  <2>5. \A r \in records' : r.settled => Quiet' /\ r.key = material'
    BY <2>1, <2>2, <2>3, <2>4 DEF SealInv
  <2>6. \A q \in Processes :
            /\ settled'[q] => Quiet'
            /\ settled'[q] /\ storing'[q] = "ready" => encoded'[q] = material'
    BY <2>1, <2>2, <2>3 DEF SealInv, StoresOK
  <2>7. QED
    BY <2>5, <2>6 DEF SealInv
<1>5. CASE FailStore(p)
  BY <1>5, KeepingSeals DEF FailStore, StoresOK, Quiet, Settled
<1>6. QED
  BY <1>1, <1>2, <1>3, <1>4, <1>5 DEF StoreStep

LEMMA SealStep == SecretTypesInv /\ SealInv /\ [SecretsNext]_secretsVars => SealInv'
<1> SUFFICES ASSUME SecretTypesInv, SealInv, [SecretsNext]_secretsVars PROVE SealInv'
  OBVIOUS
<1> USE DEF SecretTypesInv
<1>1. CASE UNCHANGED stores
  BY <1>1, KeepingSeals DEF stores, Quiet, Settled
<1>2. ASSUME NEW p \in Processes, StoreStep(p)
      PROVE  SealInv'
  BY <1>2, StoreStepsKeepSeals
<1>3. ASSUME NEW p \in Processes, Restart(p)
      PROVE  SealInv'
  BY <1>3, KeepingSeals DEF Restart, StoresOK, Quiet, Settled
<1>4. QED
  BY <1>1, <1>2, <1>3, StepsSplit, SessionStepsKeepTypes, EndingKeepsTypes
     DEF secretsVars, stores

\* For any number of processes that race to create the key, and crash while they do, what
\* was begun when a key was stored and no race was left is readable ever after.
THEOREM SettledRecordsStayReadable == SecretsSpec => []SettledRecordsReadable
<1>1. SecretsInit => SealInv
  BY DEF SecretsInit, SealInv
<1>2. SealInv => SettledRecordsReadable
  BY DEF SealInv, SettledRecordsReadable
<1>3. QED
  BY <1>1, <1>2, SecretTypesInit, SecretTypesStep, SealStep, PTL DEF SecretsSpec

-----------------------------------------------------------------------------
(***************************************************************************)
(* The token of the pinned principal.                                      *)
(***************************************************************************)

\* A token in use passed its validation, and who is pinned was authorized.
PinInv ==
    \A p \in Processes :
        /\ pc[p] \in {"me", "send", "sent"} => token[p] \in Accounts /\ ValidToken(token[p])
        /\ principal[p] # None => principal[p] \in Accounts /\ Matches(principal[p])
        /\ pc[p] \in {"pinned", "send", "sent"} => principal[p] # None

LEMMA ObtainingKeepsPins ==
    ASSUME SessionsOK, PinInv, NEW p \in Processes, NEW a \in Accounts,
           NEW next \in {"me", "send", "sent"}, Obtained(p, a, next),
           next # "me" => principal[p] # None
    PROVE  PinInv'
<1>1. UNCHANGED <<policy, principal>>
  BY DEF Obtained
<1>2. \A b : (Matches(b) => Matches(b)') /\ (ValidToken(b) => ValidToken(b)')
  BY <1>1 DEF Matches, ValidToken
<1>3. \A q \in Processes \ {p} : pc'[q] = pc[q] /\ token'[q] = token[q]
  BY DEF Obtained, SessionsOK
<1>4. \/ ValidToken(a) /\ token'[p] = a /\ pc'[p] = next
      \/ pc'[p] = "idle"
  BY DEF Obtained, SessionsOK
<1>5. QED
  BY <1>1, <1>2, <1>3, <1>4 DEF PinInv, Matches, ValidToken

LEMMA SessionStepsKeepPins ==
    ASSUME SessionsOK, PinInv, NEW p \in Processes, SessionStep(p)
    PROVE  PinInv'
<1>1. ASSUME NEW a \in TokenSources(p), NEW next \in {"me", "send", "sent"},
             Obtained(p, a, next), next # "me" => principal[p] # None
      PROVE  PinInv'
  BY <1>1, SourcesAreAccounts, ObtainingKeepsPins
<1>2. pc[p] = "send" => principal[p] # None
  BY DEF PinInv
<1>3. CASE Pin(p)
  <2>1. policy' = policy /\ pc[p] = "me" /\ token[p] \in Accounts
    BY <1>3 DEF Pin, PinInv
  <2>3. \A q \in Processes \ {p} :
            pc'[q] = pc[q] /\ token'[q] = token[q] /\ principal'[q] = principal[q]
    BY <1>3 DEF Pin, SessionsOK
  <2>4. \/ Matches(token[p]) /\ principal'[p] = token[p] /\ pc'[p] = "pinned"
        \/ principal'[p] = principal[p] /\ pc'[p] = "idle"
    BY <1>3 DEF Pin, SessionsOK
  <2>5. token[p] # None
    BY <2>1, SecretsAssumption
  <2>6. ASSUME NEW q \in Processes
        PROVE  /\ pc'[q] \in {"me", "send", "sent"} =>
                      token'[q] \in Accounts /\ ValidToken(token'[q])
               /\ principal'[q] # None =>
                      principal'[q] \in Accounts /\ Matches(principal'[q])
               /\ pc'[q] \in {"pinned", "send", "sent"} => principal'[q] # None
    BY <2>1, <2>3, <2>4, <2>5 DEF PinInv
  <2>7. QED
    BY <2>1, <2>6 DEF PinInv, Matches, ValidToken
<1>4. CASE Complete(p)
  BY <1>4 DEF Complete, PinInv, SessionsOK, Matches, ValidToken
<1>5. QED
  BY <1>1, <1>2, <1>3, <1>4 DEF SessionStep

LEMMA PinStep == SecretTypesInv /\ PinInv /\ [SecretsNext]_secretsVars => PinInv'
<1> SUFFICES ASSUME SecretTypesInv, PinInv, [SecretsNext]_secretsVars PROVE PinInv'
  OBVIOUS
<1> USE DEF SecretTypesInv
<1>1. CASE UNCHANGED sessions
  BY <1>1 DEF sessions, PinInv, Matches, ValidToken
<1>2. ASSUME NEW p \in Processes, SessionStep(p)
      PROVE  PinInv'
  BY <1>2, SessionStepsKeepPins
<1>3. ASSUME NEW p \in Processes, Restart(p)
      PROVE  PinInv'
  BY <1>3 DEF Restart, SessionsOK, PinInv, Matches, ValidToken
<1>4. CASE EndSession
  BY <1>4 DEF EndSession, PinInv, Matches, ValidToken
<1>5. QED
  BY <1>1, <1>2, <1>3, <1>4, StepsSplit, StoreStepsKeepTypes DEF secretsVars, sessions

\* For any accounts, sign-ins, expiries and restarts: where one object id is allowed, a
\* request has the token of the principal its client is pinned to.
THEOREM RequestsGoAsPrincipal == SecretsSpec => []RequestsAsPrincipal
<1>1. SecretsInit => PinInv
  BY DEF SecretsInit, PinInv
<1>2. SecretTypesInv /\ PinInv => RequestsAsPrincipal
  <2> SUFFICES ASSUME SecretTypesInv, PinInv, Cardinality(policy.ids) = 1,
                      NEW p \in Processes, pc[p] \in {"send", "sent"}
               PROVE  token[p] = principal[p]
    BY DEF RequestsAsPrincipal
  <2>1. IsFiniteSet(policy.ids)
    BY SecretsAssumption, FS_Subset DEF SecretTypesInv, SessionsOK
  <2>2. PICK a : policy.ids = {a}
    BY <2>1, FS_Singleton
  <2>3. ValidToken(token[p]) /\ Matches(principal[p])
    BY DEF PinInv
  <2>4. QED
    BY <2>2, <2>3 DEF ValidToken, Matches
<1>3. QED
  BY <1>1, <1>2, SecretTypesInit, SecretTypesStep, PinStep, PTL DEF SecretsSpec

=============================================================================
