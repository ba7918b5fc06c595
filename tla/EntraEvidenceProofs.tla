-------------------------- MODULE EntraEvidenceProofs --------------------------
(***************************************************************************)
(* Theorems about EntraEvidence, for any policies, tenants, bounds and     *)
(* manifests.  First the order of the steps of a call, then the invariant  *)
(* of a call under way and of the reports of the last one, then what every *)
(* new report is worth.                                                    *)
(***************************************************************************)
EXTENDS EntraEvidence, FiniteSetTheorems, SequenceTheorems, TLAPS

-----------------------------------------------------------------------------
(***************************************************************************)
(* The order of the steps of a call.                                       *)
(***************************************************************************)

\* x is one of the steps of q.
Occurs(q, x) == \E k \in 1..Len(q) : q[k] = x

\* Every y in q comes after an x.
Precedes(q, x, y) == \A k \in 1..Len(q) : q[k] = y => \E j \in 1..(k - 1) : q[j] = x

\* The steps of two sequences in a row are those of either.
LEMMA OccursInEither ==
    ASSUME NEW S, NEW a \in Seq(S), NEW b \in Seq(S), NEW x
    PROVE  /\ a \o b \in Seq(S)
           /\ Occurs(a \o b, x) <=> Occurs(a, x) \/ Occurs(b, x)
<1> DEFINE q == a \o b
<1>1. /\ q \in Seq(S) /\ Len(q) = Len(a) + Len(b) /\ Len(a) \in Nat /\ Len(b) \in Nat
      /\ \A k \in 1..Len(q) : q[k] = IF k <= Len(a) THEN a[k] ELSE b[k - Len(a)]
  OBVIOUS
<1> HIDE DEF q
<1>2. ASSUME Occurs(q, x)
      PROVE  Occurs(a, x) \/ Occurs(b, x)
  <2>1. PICK k \in 1..Len(q) : q[k] = x
    BY <1>2 DEF Occurs
  <2>2. k <= Len(a) => k \in 1..Len(a)
    BY <1>1
  <2>3. ~(k <= Len(a)) => k - Len(a) \in 1..Len(b)
    BY <1>1
  <2>4. QED
    BY <1>1, <2>1, <2>2, <2>3 DEF Occurs
<1>3. ASSUME NEW k \in 1..Len(a), a[k] = x
      PROVE  Occurs(q, x)
  BY <1>1, <1>3 DEF Occurs
<1>4. ASSUME NEW k \in 1..Len(b), b[k] = x
      PROVE  Occurs(q, x)
  <2>1. k + Len(a) \in 1..Len(q) /\ ~(k + Len(a) <= Len(a)) /\ (k + Len(a)) - Len(a) = k
    BY <1>1
  <2>2. QED
    BY <1>1, <1>4, <2>1 DEF Occurs
<1>5. QED
  BY <1>1, <1>2, <1>3, <1>4 DEF Occurs, q

\* What comes first in the first of two sequences, and occurs there or comes first in the
\* second too, comes first in both in a row.
LEMMA PrecedesInBoth ==
    ASSUME NEW S, NEW a \in Seq(S), NEW b \in Seq(S), NEW x, NEW y,
           Precedes(a, x, y), Occurs(a, x) \/ Precedes(b, x, y)
    PROVE  Precedes(a \o b, x, y)
<1> DEFINE q == a \o b
<1>1. /\ q \in Seq(S) /\ Len(q) = Len(a) + Len(b) /\ Len(a) \in Nat /\ Len(b) \in Nat
      /\ \A k \in 1..Len(q) : q[k] = IF k <= Len(a) THEN a[k] ELSE b[k - Len(a)]
  OBVIOUS
<1> HIDE DEF q
<1>2. ASSUME NEW k \in 1..Len(q), q[k] = y, k <= Len(a)
      PROVE  \E j \in 1..(k - 1) : q[j] = x
  <2>1. k \in 1..Len(a) /\ a[k] = y
    BY <1>1, <1>2
  <2>2. PICK j \in 1..(k - 1) : a[j] = x
    BY <2>1 DEF Precedes
  <2>3. j \in 1..Len(q) /\ j <= Len(a)
    BY <1>1, <2>1, <2>2
  <2>4. QED
    BY <1>1, <2>2, <2>3
<1>3. ASSUME NEW k \in 1..Len(q), q[k] = y, ~(k <= Len(a)), Occurs(a, x)
      PROVE  \E j \in 1..(k - 1) : q[j] = x
  <2>1. PICK j \in 1..Len(a) : a[j] = x
    BY <1>3 DEF Occurs
  <2>2. j \in 1..Len(q) /\ j <= Len(a) /\ j \in 1..(k - 1)
    BY <1>1, <1>3
  <2>3. QED
    BY <1>1, <2>1, <2>2
<1>4. ASSUME NEW k \in 1..Len(q), q[k] = y, ~(k <= Len(a)), Precedes(b, x, y)
      PROVE  \E j \in 1..(k - 1) : q[j] = x
  <2>1. k - Len(a) \in 1..Len(b) /\ b[k - Len(a)] = y
    BY <1>1, <1>4
  <2>2. PICK i \in 1..((k - Len(a)) - 1) : b[i] = x
    BY <1>4, <2>1 DEF Precedes
  <2>3. /\ i + Len(a) \in 1..Len(q) /\ ~(i + Len(a) <= Len(a)) /\ i + Len(a) \in 1..(k - 1)
        /\ (i + Len(a)) - Len(a) = i
    BY <1>1, <2>1, <2>2
  <2>4. q[i + Len(a)] = x
    BY <1>1, <2>2, <2>3
  <2>5. QED
    BY <2>3, <2>4
<1>5. QED
  BY <1>2, <1>3, <1>4 DEF Precedes, q

\* Nothing has to come before a step that does not occur.
LEMMA AbsentPrecedes ==
    ASSUME NEW q, NEW x, NEW y, ~Occurs(q, y)
    PROVE  Precedes(q, x, y)
BY DEF Occurs, Precedes

\* What came first still does when another step is done.
LEMMA TailPrecedes ==
    ASSUME NEW S, NEW q \in Seq(S), q # <<>>, NEW x, NEW y, Precedes(q, x, y), Head(q) # x
    PROVE  Precedes(Tail(q), x, y)
<1>1. /\ Len(q) \in Nat \ {0} /\ Len(Tail(q)) = Len(q) - 1 /\ Head(q) = q[1]
      /\ \A k \in 1..Len(Tail(q)) : Tail(q)[k] = q[k + 1]
  OBVIOUS
<1>2. SUFFICES ASSUME NEW k \in 1..Len(Tail(q)), Tail(q)[k] = y
               PROVE  \E j \in 1..(k - 1) : Tail(q)[j] = x
  BY DEF Precedes
<1>3. k + 1 \in 1..Len(q) /\ q[k + 1] = y
  BY <1>1, <1>2
<1>4. PICK j \in 1..((k + 1) - 1) : q[j] = x
  BY <1>3 DEF Precedes
<1>5. j # 1
  BY <1>1, <1>4
<1>6. j - 1 \in 1..(k - 1) /\ j - 1 \in 1..Len(Tail(q)) /\ (j - 1) + 1 = j
  BY <1>1, <1>2, <1>4, <1>5
<1>7. QED
  BY <1>1, <1>4, <1>6

-----------------------------------------------------------------------------
(* The steps of each target. *)

\* SetToSeq lists every member of a finite set.
LEMMA SequenceOfAll ==
    ASSUME NEW T, IsFiniteSet(T)
    PROVE  /\ Cardinality(T) \in Nat
           /\ SetToSeq(T) \in [1..Cardinality(T) -> T]
           /\ \A t \in T : \E i \in 1..Cardinality(T) : SetToSeq(T)[i] = t
<1> DEFINE n == Cardinality(T)
           f == SetToSeq(T)
<1>1. n \in Nat /\ ExistsBijection(1..n, T)
  BY FS_CardinalityType
<1>2. PICK g \in [1..n -> T] : IsInjective(g)
  BY <1>1 DEF ExistsBijection, Bijection, Injection, IsInjective
<1>3. f \in [1..n -> T] /\ IsInjective(f)
  BY <1>2 DEF SetToSeq
<1> HIDE DEF f
<1>4. f \in Injection(1..n, T)
  BY <1>3 DEF Injection, IsInjective
<1>5. IsFiniteSet(1..n) /\ Cardinality(1..n) = n
  BY <1>1, FS_Interval
<1>6. f \in Surjection(1..n, T)
  BY <1>4, <1>5, FS_Injection
<1>7. QED
  BY <1>1, <1>3, <1>6 DEF Surjection, f

\* EachTarget lists the steps of all targets and no other.
LEMMA EachTargetSteps ==
    ASSUME NEW T, IsFiniteSet(T), NEW n \in {2, 3}, NEW S, NEW steps,
           \A t \in T : steps[t] \in Seq(S) /\ Len(steps[t]) = n
    PROVE  /\ EachTarget(T, n, steps) \in Seq(S)
           /\ \A x : Occurs(EachTarget(T, n, steps), x)
                       <=> \E t \in T : \E j \in 1..n : steps[t][j] = x
<1> DEFINE all == EachTarget(T, n, steps)
           c == Cardinality(T)
           f == SetToSeq(T)
<1>1. c \in Nat /\ f \in [1..c -> T] /\ \A t \in T : \E i \in 1..c : f[i] = t
  BY SequenceOfAll
<1> HIDE DEF f, c
<1>2. all = [i \in 1..n * c |-> steps[f[((i - 1) \div n) + 1]][((i - 1) % n) + 1]]
  BY DEF EachTarget, f, c
<1>3. ASSUME NEW i \in 1..n * c
      PROVE  ((i - 1) \div n) + 1 \in 1..c /\ ((i - 1) % n) + 1 \in 1..n
  <2>1. CASE n = 2
    BY <1>1, <1>3, <2>1
  <2>2. CASE n = 3
    BY <1>1, <1>3, <2>2
  <2>3. QED
    BY <2>1, <2>2
<1>4. ASSUME NEW i \in 1..c, NEW j \in 1..n
      PROVE  LET k == n * (i - 1) + j IN
             k \in 1..n * c /\ ((k - 1) \div n) + 1 = i /\ ((k - 1) % n) + 1 = j
  <2>1. CASE n = 2
    BY <1>1, <1>4, <2>1
  <2>2. CASE n = 3
    <3>1. PICK m \in 0..(c - 1) : i = m + 1
      BY <1>1, <1>4
    <3>2. ASSUME NEW r \in 0..2
          PROVE  (3 * m + r) \div 3 = m /\ (3 * m + r) % 3 = r
      <4>1. m \in Nat
        BY <1>1
      <4> QED
        BY ONLY <4>1
    <3>3. 3 * (i - 1) + j \in 1..3 * c /\ (3 * (i - 1) + j) - 1 = 3 * m + (j - 1)
      BY <1>1, <2>2, <3>1
    <3>4. j - 1 \in 0..2
      BY <2>2
    <3>5. QED
      BY <2>2, <3>1, <3>2, <3>3, <3>4
  <2>3. QED
    BY <2>1, <2>2
<1>5. n * c \in Nat
  BY <1>1
<1>6. ASSUME NEW i \in 1..n * c
      PROVE  all[i] \in S
  <2> DEFINE a == ((i - 1) \div n) + 1
             b == ((i - 1) % n) + 1
  <2>1. all[i] = steps[f[a]][b]
    BY <1>2
  <2>2. a \in 1..c /\ b \in 1..n
    BY <1>3
  <2> HIDE DEF a, b
  <2>3. f[a] \in T
    BY <1>1, <2>2
  <2>4. steps[f[a]] \in Seq(S) /\ b \in 1..Len(steps[f[a]])
    BY <2>2, <2>3
  <2>5. QED
    BY <2>1, <2>4
<1>7. all \in Seq(S) /\ Len(all) = n * c
  BY <1>2, <1>5, <1>6
<1>8. ASSUME NEW x, Occurs(all, x)
      PROVE  \E t \in T : \E j \in 1..n : steps[t][j] = x
  <2>1. PICK i \in 1..n * c : all[i] = x
    BY <1>7, <1>8 DEF Occurs
  <2>2. f[((i - 1) \div n) + 1] \in T /\ ((i - 1) % n) + 1 \in 1..n
    BY <1>1, <1>3
  <2>3. QED
    BY <1>2, <2>1, <2>2
<1>9. ASSUME NEW x, NEW t \in T, NEW j \in 1..n, steps[t][j] = x
      PROVE  Occurs(all, x)
  <2>1. PICK i \in 1..c : f[i] = t
    BY <1>1
  <2> DEFINE k == n * (i - 1) + j
  <2>2. k \in 1..n * c /\ ((k - 1) \div n) + 1 = i /\ ((k - 1) % n) + 1 = j
    BY <1>4
  <2> HIDE DEF k
  <2>3. all[k] = x
    BY <1>2, <1>9, <2>1, <2>2
  <2>4. QED
    BY <1>7, <2>2, <2>3 DEF Occurs
<1>10. QED
  BY <1>7, <1>8, <1>9

-----------------------------------------------------------------------------
(* The steps of each evaluation. *)

\* The steps a call under policy p may have.
StepSet(p) ==
    {"authorize", "read", "catalogs", "conclude"} \X
        (Evaluations \cup {<<"token">>} \cup {<<"domain", d>> : d \in Domains}
         \cup (IF p.drift = None THEN {}
               ELSE UNION {{<<"delegated", t.principal>>, <<"roles", t.principal>>,
                            t.principal} : t \in p.drift.targets})
         \cup (IF p.credentials = None THEN {}
               ELSE UNION {{<<"application", t.application>>, <<"owners", t.application>>} :
                              t \in p.credentials.targets}))

\* The steps of the grant evaluation are the reads of its targets.
LEMMA DriftStepsAre ==
    ASSUME NEW p \in Documents
    PROVE  /\ DriftSteps(p) \in Seq(StepSet(p))
           /\ \A x : Occurs(DriftSteps(p), x) <=>
                 /\ p.drift # None
                 /\ \E t \in p.drift.targets :
                       x \in {Read(<<"delegated", t.principal>>),
                              Read(<<"roles", t.principal>>), <<"catalogs", t.principal>>}
<1>1. CASE p.drift = None
  <2>1. DriftSteps(p) = <<>>
    BY <1>1 DEF DriftSteps
  <2>2. QED
    BY <1>1, <2>1 DEF Occurs
<1>2. CASE p.drift # None
  <2> DEFINE T == p.drift.targets
             f == [t \in T |-> TargetSteps(t)]
             S == StepSet(p)
  <2>1. IsFiniteSet(T)
    BY <1>2, DocumentsAssumption
  <2>2. ASSUME NEW t \in T
        PROVE  /\ f[t] \in Seq(S) /\ Len(f[t]) = 3
               /\ f[t][1] = Read(<<"delegated", t.principal>>)
               /\ f[t][2] = Read(<<"roles", t.principal>>)
               /\ f[t][3] = <<"catalogs", t.principal>>
    <3>1. f[t] = TargetSteps(t)
      OBVIOUS
    <3>2. /\ Read(<<"delegated", t.principal>>) \in S
          /\ Read(<<"roles", t.principal>>) \in S
          /\ <<"catalogs", t.principal>> \in S
      BY <1>2 DEF StepSet, Read
    <3> HIDE DEF f, S, T
    <3>3. QED
      BY <3>1, <3>2 DEF TargetSteps
  <2>3. DriftSteps(p) = EachTarget(T, 3, f)
    BY <1>2 DEF DriftSteps
  <2> HIDE DEF f, S, T
  <2>10. /\ \A t \in T : f[t] \in Seq(S) /\ Len(f[t]) = 3
        /\ 3 \in {2, 3}
    BY <2>2
  <2>4. /\ EachTarget(T, 3, f) \in Seq(S)
        /\ \A x : Occurs(EachTarget(T, 3, f), x) <=> \E t \in T : \E j \in 1..3 : f[t][j] = x
    BY <2>1, <2>10, EachTargetSteps
  <2>5. ASSUME NEW t \in T, NEW x
        PROVE  (\E j \in 1..3 : f[t][j] = x) <=>
                   x \in {Read(<<"delegated", t.principal>>),
                          Read(<<"roles", t.principal>>), <<"catalogs", t.principal>>}
    <3>1. \A j \in 1..3 : j = 1 \/ j = 2 \/ j = 3
      OBVIOUS
    <3> HIDE DEF Read
    <3>2. QED
      BY <2>2, <3>1
  <2>6. ASSUME NEW x
        PROVE  Occurs(DriftSteps(p), x) <=> \E t \in T : \E j \in 1..3 : f[t][j] = x
    BY <2>3, <2>4
  <2>7. DriftSteps(p) \in Seq(S)
    BY <2>3, <2>4
  <2> HIDE DEF Read, Occurs
  <2>8. QED
    BY <1>2, <2>5, <2>6, <2>7 DEF S, T
<1>3. QED
  BY <1>1, <1>2

\* The steps of the credential evaluation are the reads of its targets.
LEMMA CredentialStepsAre ==
    ASSUME NEW p \in Documents
    PROVE  /\ CredentialSteps(p) \in Seq(StepSet(p))
           /\ \A x : Occurs(CredentialSteps(p), x) <=>
                 /\ p.credentials # None
                 /\ \E t \in p.credentials.targets :
                       x \in {Read(<<"application", t.application>>),
                              Read(<<"owners", t.application>>)}
<1>1. CASE p.credentials = None
  <2>1. CredentialSteps(p) = <<>>
    BY <1>1 DEF CredentialSteps
  <2>2. QED
    BY <1>1, <2>1 DEF Occurs
<1>2. CASE p.credentials # None
  <2> DEFINE T == p.credentials.targets
             f == [t \in T |-> ApplicationSteps(t)]
             S == StepSet(p)
  <2>1. IsFiniteSet(T)
    BY <1>2, DocumentsAssumption
  <2>2. ASSUME NEW t \in T
        PROVE  /\ f[t] \in Seq(S) /\ Len(f[t]) = 2
               /\ f[t][1] = Read(<<"application", t.application>>)
               /\ f[t][2] = Read(<<"owners", t.application>>)
    <3>1. f[t] = ApplicationSteps(t)
      OBVIOUS
    <3>2. /\ Read(<<"application", t.application>>) \in S
          /\ Read(<<"owners", t.application>>) \in S
      BY <1>2 DEF StepSet, Read
    <3> HIDE DEF f, S, T
    <3>3. QED
      BY <3>1, <3>2 DEF ApplicationSteps
  <2>3. CredentialSteps(p) = EachTarget(T, 2, f)
    BY <1>2 DEF CredentialSteps
  <2> HIDE DEF f, S, T
  <2>10. /\ \A t \in T : f[t] \in Seq(S) /\ Len(f[t]) = 2
        /\ 2 \in {2, 3}
    BY <2>2
  <2>4. /\ EachTarget(T, 2, f) \in Seq(S)
        /\ \A x : Occurs(EachTarget(T, 2, f), x) <=> \E t \in T : \E j \in 1..2 : f[t][j] = x
    BY <2>1, <2>10, EachTargetSteps
  <2>5. ASSUME NEW t \in T, NEW x
        PROVE  (\E j \in 1..2 : f[t][j] = x) <=>
                   x \in {Read(<<"application", t.application>>),
                          Read(<<"owners", t.application>>)}
    BY <2>2
  <2>6. ASSUME NEW x
        PROVE  Occurs(CredentialSteps(p), x) <=> \E t \in T : \E j \in 1..2 : f[t][j] = x
    BY <2>3, <2>4
  <2>7. CredentialSteps(p) \in Seq(S)
    BY <2>3, <2>4
  <2> HIDE DEF Read, Occurs
  <2>8. QED
    BY <1>2, <2>5, <2>6, <2>7 DEF S, T
<1>3. QED
  BY <1>1, <1>2

PostureSteps == [i \in 1..Cardinality(Domains) |-> Read(<<"domain", SetToSeq(Domains)[i]>>)]

\* The steps of the posture evaluation are the reads of the four domains.
LEMMA PostureStepsAre ==
    ASSUME NEW p
    PROVE  /\ PostureSteps \in Seq(StepSet(p))
           /\ \A x : Occurs(PostureSteps, x) <=> \E d \in Domains : x = Read(<<"domain", d>>)
<1> DEFINE n == Cardinality(Domains)
           f == SetToSeq(Domains)
           S == StepSet(p)
<1>1. IsFiniteSet(Domains)
  <2>1. /\ Domains = ({"conditional_access"} \cup {"permanent"}) \cup ({"active"} \cup {"eligible"})
        /\ \A x : IsFiniteSet({x})
    BY FS_Singleton DEF Domains
  <2>2. QED
    BY <2>1, FS_Union
<1>2. n \in Nat /\ f \in [1..n -> Domains] /\ \A d \in Domains : \E i \in 1..n : f[i] = d
  BY <1>1, SequenceOfAll
<1>3. \A d \in Domains : Read(<<"domain", d>>) \in S
  BY DEF StepSet, Read
<1>4. PostureSteps = [i \in 1..n |-> Read(<<"domain", f[i]>>)]
  BY DEF PostureSteps
<1> HIDE DEF n, f, S, Domains, Read
<1>5. /\ PostureSteps \in Seq(S) /\ Len(PostureSteps) = n
      /\ \A i \in 1..n : PostureSteps[i] = Read(<<"domain", f[i]>>)
  BY <1>2, <1>3, <1>4
<1>6. ASSUME NEW x
      PROVE  Occurs(PostureSteps, x) <=> \E d \in Domains : x = Read(<<"domain", d>>)
  <2>1. ASSUME NEW i \in 1..n, PostureSteps[i] = x
        PROVE  \E d \in Domains : x = Read(<<"domain", d>>)
    BY <1>2, <1>5, <2>1
  <2>2. ASSUME NEW d \in Domains, x = Read(<<"domain", d>>)
        PROVE  \E i \in 1..n : PostureSteps[i] = x
    <3>1. PICK i \in 1..n : f[i] = d
      BY <1>2
    <3>2. QED
      BY <1>5, <2>2, <3>1
  <2>3. Occurs(PostureSteps, x) <=> \E i \in 1..n : PostureSteps[i] = x
    BY <1>5 DEF Occurs
  <2>4. QED
    BY <2>1, <2>2, <2>3
<1>7. QED
  BY <1>5, <1>6 DEF S

\* An evaluation is authorized first and concluded last.
LEMMA EvaluationSteps ==
    ASSUME NEW S, NEW c, <<"authorize", c>> \in S, <<"conclude", c>> \in S, NEW steps \in Seq(S),
           NEW q, q = Evaluation(c, steps)
    PROVE  /\ q \in Seq(S) /\ q # <<>> /\ q[Len(q)] = <<"conclude", c>>
           /\ \A x : Occurs(q, x) <=>
                         x \in {<<"authorize", c>>, <<"conclude", c>>} \/ Occurs(steps, x)
           /\ \A x : Occurs(steps, x) /\ ~Occurs(steps, <<"conclude", c>>) =>
                         Precedes(q, x, <<"conclude", c>>)
           /\ \A x, y : y \notin {<<"authorize", c>>, <<"conclude", c>>} /\ Precedes(steps, x, y)
                           => Precedes(q, x, y)
<1> DEFINE first == <<<<"authorize", c>>>>
           last == <<<<"conclude", c>>>>
           some == first \o steps
<1>1. /\ first \in Seq(S) /\ last \in Seq(S) /\ Len(last) = 1 /\ last[1] = <<"conclude", c>>
      /\ \A x : Occurs(first, x) <=> x = <<"authorize", c>>
      /\ \A x : Occurs(last, x) <=> x = <<"conclude", c>>
  BY DEF Occurs
<1>2. q = some \o last
  BY DEF Evaluation
<1> HIDE DEF first, last
<1>3. /\ some \in Seq(S)
      /\ \A x : Occurs(some, x) <=> x = <<"authorize", c>> \/ Occurs(steps, x)
  BY <1>1, OccursInEither
<1> HIDE DEF some
<1>4. /\ q \in Seq(S)
      /\ \A x : Occurs(q, x) <=> Occurs(some, x) \/ x = <<"conclude", c>>
  BY <1>1, <1>2, <1>3, OccursInEither
<1>5. q # <<>> /\ q[Len(q)] = <<"conclude", c>>
  <2>1. /\ Len(q) = Len(some) + Len(last) /\ Len(some) \in Nat
        /\ \A k \in 1..Len(q) : q[k] = IF k <= Len(some) THEN some[k] ELSE last[k - Len(some)]
    <3>1. some \in Seq(S) /\ last \in Seq(S)
      BY <1>1, <1>3
    <3>2. QED
      BY <1>2, <3>1
  <2>2. /\ Len(q) = Len(some) + 1 /\ Len(q) \in 1..Len(q) /\ ~(Len(q) <= Len(some))
        /\ Len(q) - Len(some) = 1
    BY <1>1, <2>1
  <2>3. q[Len(q)] = last[Len(q) - Len(some)]
    BY <2>1, <2>2
  <2>4. QED
    BY <1>1, <1>4, <2>2, <2>3
<1>6. ASSUME NEW x, Occurs(steps, x), ~Occurs(steps, <<"conclude", c>>)
      PROVE  Precedes(q, x, <<"conclude", c>>)
  <2>1. ~Occurs(some, <<"conclude", c>>) /\ Occurs(some, x)
    BY <1>3, <1>6
  <2>2. QED
    BY <1>1, <1>2, <1>3, <2>1, AbsentPrecedes, PrecedesInBoth
<1>7. ASSUME NEW x, NEW y, y \notin {<<"authorize", c>>, <<"conclude", c>>}, Precedes(steps, x, y)
      PROVE  Precedes(q, x, y)
  <2>1. Precedes(first, x, y) /\ Precedes(last, x, y)
    BY <1>1, <1>7, AbsentPrecedes
  <2>2. Precedes(some, x, y)
    BY <1>1, <1>7, <2>1, PrecedesInBoth DEF some
  <2>3. QED
    BY <1>1, <1>2, <1>3, <2>1, <2>2, PrecedesInBoth
<1>8. \A x : Occurs(q, x) <=> x \in {<<"authorize", c>>, <<"conclude", c>>} \/ Occurs(steps, x)
  BY <1>3, <1>4
<1>9. \A x : Occurs(steps, x) /\ ~Occurs(steps, <<"conclude", c>>) =>
                Precedes(q, x, <<"conclude", c>>)
  BY <1>6
<1>10. \A x, y : y \notin {<<"authorize", c>>, <<"conclude", c>>} /\ Precedes(steps, x, y)
                    => Precedes(q, x, y)
  BY <1>7
<1>11. q \in Seq(S)
  BY <1>4
<1>12. QED
  BY <1>5, <1>8, <1>9, <1>10, <1>11

\* The sources a report of c rests on, where the policy has the baseline.
Rests(p, c) ==
    IF \/ c \in {"drift", "debt"} /\ p.drift = None
       \/ c = "credentials" /\ p.credentials = None
    THEN {} ELSE EvidenceOfReport(p, c)

\* What the order of steps promises to every evaluation.
Ordered(p, c, q) ==
    /\ q \in Seq(StepSet(p)) /\ q # <<>> /\ q[Len(q)] = <<"conclude", c>>
    /\ \A k : Occurs(q, <<"conclude", k>>) =>
                  \/ k = c
                  \/ k \in {"drift", "credentials"} /\ c \in {"readiness", "debt"}
    /\ \A k \in Evaluations : \A s \in Rests(p, k) : Precedes(q, Read(s), <<"conclude", k>>)
    /\ \A k \in {"drift", "credentials"} :
           Precedes(q, <<"conclude", k>>, <<"conclude", "readiness">>)
    /\ Precedes(q, <<"conclude", "drift">>, <<"conclude", "debt">>)

\* One evaluation, of steps that conclude nothing and read all it rests on.
LEMMA OneIsOrdered ==
    ASSUME NEW p, NEW c \in {"drift", "credentials", "posture"},
           NEW steps \in Seq(StepSet(p)), \A k : ~Occurs(steps, <<"conclude", k>>),
           \A s \in Rests(p, c) : Occurs(steps, Read(s)),
           NEW q, q = Evaluation(c, steps)
    PROVE  /\ Ordered(p, c, q)
           /\ \A k : Occurs(q, <<"conclude", k>>) <=> k = c
<1>1. <<"authorize", c>> \in StepSet(p) /\ <<"conclude", c>> \in StepSet(p)
  BY DEF StepSet, Evaluations
<1>2. /\ q \in Seq(StepSet(p)) /\ q # <<>> /\ q[Len(q)] = <<"conclude", c>>
      /\ \A x : Occurs(q, x) <=>
                    x \in {<<"authorize", c>>, <<"conclude", c>>} \/ Occurs(steps, x)
      /\ \A x : Occurs(steps, x) /\ ~Occurs(steps, <<"conclude", c>>) =>
                    Precedes(q, x, <<"conclude", c>>)
  BY <1>1, EvaluationSteps
<1>3. ASSUME NEW k
      PROVE  Occurs(q, <<"conclude", k>>) <=> k = c
  <2>1. <<"conclude", k>> \in {<<"authorize", c>>, <<"conclude", c>>} <=> k = c
    OBVIOUS
  <2>2. QED
    BY <1>2, <2>1
<1>4. \A k : k # c => \A x : Precedes(q, x, <<"conclude", k>>)
  BY <1>3, AbsentPrecedes
<1>5. \A s \in Rests(p, c) : Precedes(q, Read(s), <<"conclude", c>>)
  BY <1>2
<1>6. c # "readiness" /\ c # "debt"
  OBVIOUS
<1>7. QED
  BY <1>2, <1>3, <1>4, <1>5, <1>6 DEF Ordered

\* The grant evaluation on its own.
LEMMA DriftIsOrdered ==
    ASSUME NEW p \in Documents, NEW q, q = Evaluation("drift", DriftSteps(p))
    PROVE  /\ Ordered(p, "drift", q)
           /\ \A k : Occurs(q, <<"conclude", k>>) <=> k = "drift"
           /\ \A s \in Rests(p, "debt") : Occurs(q, Read(s))
<1>1. /\ DriftSteps(p) \in Seq(StepSet(p))
      /\ \A x : Occurs(DriftSteps(p), x) <=>
            /\ p.drift # None
            /\ \E t \in p.drift.targets :
                  x \in {Read(<<"delegated", t.principal>>),
                         Read(<<"roles", t.principal>>), <<"catalogs", t.principal>>}
  BY DriftStepsAre
<1>2. \A k : ~Occurs(DriftSteps(p), <<"conclude", k>>)
  BY <1>1 DEF Read
<1>3. \A s \in Rests(p, "drift") : Occurs(DriftSteps(p), Read(s))
  <2>1. CASE p.drift = None
    BY <2>1 DEF Rests
  <2>2. CASE p.drift # None
    <3>1. Rests(p, "drift") = UNION {{<<"delegated", t.principal>>, <<"roles", t.principal>>} :
                                        t \in p.drift.targets}
      BY <2>2 DEF Rests, EvidenceOfReport
    <3>2. ASSUME NEW t \in p.drift.targets
          PROVE  /\ Occurs(DriftSteps(p), Read(<<"delegated", t.principal>>))
                 /\ Occurs(DriftSteps(p), Read(<<"roles", t.principal>>))
      BY <1>1, <2>2
    <3>3. QED
      BY <3>1, <3>2
  <2>3. QED
    BY <2>1, <2>2
<1>4. Rests(p, "debt") = Rests(p, "drift")
  BY DEF Rests, EvidenceOfReport
<1>5. <<"authorize", "drift">> \in StepSet(p) /\ <<"conclude", "drift">> \in StepSet(p)
  BY DEF StepSet, Evaluations
<1>6. \A x : Occurs(DriftSteps(p), x) => Occurs(q, x)
  BY <1>1, <1>5, EvaluationSteps
<1>7. QED
  BY <1>1, <1>2, <1>3, <1>4, <1>6, OneIsOrdered

\* The credential evaluation on its own.
LEMMA CredentialsAreOrdered ==
    ASSUME NEW p \in Documents, NEW q, q = Evaluation("credentials", CredentialSteps(p))
    PROVE  /\ Ordered(p, "credentials", q)
           /\ \A k : Occurs(q, <<"conclude", k>>) <=> k = "credentials"
<1>1. /\ CredentialSteps(p) \in Seq(StepSet(p))
      /\ \A x : Occurs(CredentialSteps(p), x) <=>
            /\ p.credentials # None
            /\ \E t \in p.credentials.targets :
                  x \in {Read(<<"application", t.application>>),
                         Read(<<"owners", t.application>>)}
  BY CredentialStepsAre
<1>2. \A k : ~Occurs(CredentialSteps(p), <<"conclude", k>>)
  BY <1>1 DEF Read
<1>3. \A s \in Rests(p, "credentials") : Occurs(CredentialSteps(p), Read(s))
  <2>1. CASE p.credentials = None
    BY <2>1 DEF Rests
  <2>2. CASE p.credentials # None
    <3>1. Rests(p, "credentials") =
              UNION {{<<"application", t.application>>, <<"owners", t.application>>} :
                        t \in p.credentials.targets}
      BY <2>2 DEF Rests, EvidenceOfReport
    <3> HIDE DEF Read
    <3>2. QED
      BY <1>1, <2>2, <3>1
  <2>3. QED
    BY <2>1, <2>2
<1>4. QED
  BY <1>1, <1>2, <1>3, OneIsOrdered

\* The posture evaluation.
LEMMA PostureIsOrdered ==
    ASSUME NEW p, NEW q, q = Evaluation("posture", PostureSteps)
    PROVE  Ordered(p, "posture", q)
<1>1. /\ PostureSteps \in Seq(StepSet(p))
      /\ \A x : Occurs(PostureSteps, x) <=> \E d \in Domains : x = Read(<<"domain", d>>)
  BY PostureStepsAre
<1>2. \A k : ~Occurs(PostureSteps, <<"conclude", k>>)
  BY <1>1 DEF Read
<1>3. Rests(p, "posture") = {<<"domain", d>> : d \in Domains}
  BY DEF Rests, EvidenceOfReport
<1>4. \A s \in Rests(p, "posture") : Occurs(PostureSteps, Read(s))
  BY <1>1, <1>3
<1>5. QED
  BY <1>1, <1>2, <1>4, OneIsOrdered

\* The playbook: the evaluation of credentials, then that of grants.
LEMMA ReadinessIsOrdered ==
    ASSUME NEW p \in Documents, NEW a, a = Evaluation("credentials", CredentialSteps(p)),
           NEW b, b = Evaluation("drift", DriftSteps(p)),
           NEW q, q = Evaluation("readiness", a \o b)
    PROVE  Ordered(p, "readiness", q)
<1> DEFINE S == StepSet(p)
           both == a \o b
           end == <<"conclude", "readiness">>
<1>1. /\ a \in Seq(S) /\ b \in Seq(S)
      /\ Ordered(p, "credentials", a) /\ Ordered(p, "drift", b)
      /\ \A k : Occurs(a, <<"conclude", k>>) <=> k = "credentials"
      /\ \A k : Occurs(b, <<"conclude", k>>) <=> k = "drift"
  BY DriftIsOrdered, CredentialsAreOrdered DEF Ordered
<1>2. /\ both \in Seq(S)
      /\ \A k : Occurs(both, <<"conclude", k>>) <=> k \in {"drift", "credentials"}
  BY <1>1, OccursInEither
<1>3. \A x, y : Precedes(a, x, y) /\ Precedes(b, x, y) => Precedes(both, x, y)
  BY <1>1, PrecedesInBoth
<1>4. <<"authorize", "readiness">> \in S /\ end \in S
  BY DEF StepSet, Evaluations
<1> HIDE DEF both, S
<1>5. /\ q \in Seq(S) /\ q # <<>> /\ q[Len(q)] = end
      /\ \A x : Occurs(q, x) <=>
                    x \in {<<"authorize", "readiness">>, end} \/ Occurs(both, x)
      /\ \A x : Occurs(both, x) /\ ~Occurs(both, end) => Precedes(q, x, end)
      /\ \A x, y : y \notin {<<"authorize", "readiness">>, end} /\ Precedes(both, x, y)
                       => Precedes(q, x, y)
  BY <1>2, <1>4, EvaluationSteps DEF both
<1>6. \A k : Occurs(q, <<"conclude", k>>) => k \in {"readiness", "drift", "credentials"}
  BY <1>2, <1>5
<1>7. \A k \in {"drift", "credentials"} : Precedes(q, <<"conclude", k>>, end)
  BY <1>2, <1>5
<1>8. ASSUME NEW k \in Evaluations, NEW s \in Rests(p, k)
      PROVE  Precedes(q, Read(s), <<"conclude", k>>)
  <2>1. CASE k = "readiness"
    BY <2>1 DEF Rests, EvidenceOfReport
  <2>2. CASE k # "readiness"
    <3>1. Precedes(a, Read(s), <<"conclude", k>>) /\ Precedes(b, Read(s), <<"conclude", k>>)
      BY <1>1 DEF Ordered
    <3>2. <<"conclude", k>> \notin {<<"authorize", "readiness">>, end}
      BY <2>2
    <3>3. QED
      BY <1>3, <1>5, <3>1, <3>2
  <2>3. QED
    BY <2>1, <2>2
<1>9. Precedes(q, <<"conclude", "drift">>, <<"conclude", "debt">>)
  BY <1>6, AbsentPrecedes
<1>10. QED
  BY <1>5, <1>6, <1>7, <1>8, <1>9 DEF Ordered, S

\* The debt evaluation: the scopes of the token, then the evaluation of grants.
LEMMA DebtIsOrdered ==
    ASSUME NEW p \in Documents, NEW a, a = Evaluation("drift", DriftSteps(p)),
           NEW q, q = Evaluation("debt", <<Read(<<"token">>)>> \o a)
    PROVE  Ordered(p, "debt", q) /\ ~Occurs(q, <<"conclude", "credentials">>)
<1> DEFINE S == StepSet(p)
           first == <<Read(<<"token">>)>>
           both == first \o a
           end == <<"conclude", "debt">>
<1>1. /\ a \in Seq(S) /\ Ordered(p, "drift", a)
      /\ \A k : Occurs(a, <<"conclude", k>>) <=> k = "drift"
      /\ \A s \in Rests(p, "debt") : Occurs(a, Read(s))
  BY DriftIsOrdered DEF Ordered
<1>2. first \in Seq(S) /\ \A k : ~Occurs(first, <<"conclude", k>>)
  <2>1. Read(<<"token">>) \in S
    BY DEF StepSet, Read
  <2>2. first \in Seq(S) /\ Len(first) = 1 /\ first[1] = Read(<<"token">>)
    BY <2>1
  <2>3. QED
    BY <2>2 DEF Occurs, Read
<1> HIDE DEF first, S
<1>3. /\ both \in Seq(S)
      /\ \A x : Occurs(both, x) <=> Occurs(first, x) \/ Occurs(a, x)
  BY <1>1, <1>2, OccursInEither
<1>4. \A k, x : Precedes(first, x, <<"conclude", k>>)
  BY <1>2, AbsentPrecedes
<1>5. \A k, x : Precedes(a, x, <<"conclude", k>>) => Precedes(both, x, <<"conclude", k>>)
  BY <1>1, <1>2, <1>4, PrecedesInBoth
<1>6. <<"authorize", "debt">> \in S /\ end \in S
  BY DEF StepSet, Evaluations, S
<1>7. /\ q \in Seq(S) /\ q # <<>> /\ q[Len(q)] = end
      /\ \A x : Occurs(q, x) <=> x \in {<<"authorize", "debt">>, end} \/ Occurs(both, x)
      /\ \A x : Occurs(both, x) /\ ~Occurs(both, end) => Precedes(q, x, end)
      /\ \A x, y : y \notin {<<"authorize", "debt">>, end} /\ Precedes(both, x, y)
                       => Precedes(q, x, y)
  <2>1. q = Evaluation("debt", both)
    BY DEF first
  <2> HIDE DEF both
  <2>2. QED
    BY <1>3, <1>6, <2>1, EvaluationSteps
<1> HIDE DEF both
<1>8. \A k : Occurs(q, <<"conclude", k>>) => k \in {"debt", "drift"}
  BY <1>1, <1>2, <1>3, <1>7
<1>9. ~Occurs(both, end) /\ Occurs(a, <<"conclude", "drift">>)
  BY <1>1, <1>2, <1>3
<1>10. ASSUME NEW k \in Evaluations, NEW s \in Rests(p, k)
       PROVE  Precedes(q, Read(s), <<"conclude", k>>)
  <2>1. CASE k = "debt"
    BY <1>1, <1>3, <1>7, <1>9, <2>1
  <2>2. CASE k # "debt"
    <3>1. Precedes(both, Read(s), <<"conclude", k>>)
      BY <1>1, <1>5 DEF Ordered
    <3>2. <<"conclude", k>> \notin {<<"authorize", "debt">>, end}
      BY <2>2
    <3>3. QED
      BY <1>7, <3>1, <3>2
  <2>3. QED
    BY <2>1, <2>2
<1>11. \A k \in {"drift", "credentials"} :
           Precedes(q, <<"conclude", k>>, <<"conclude", "readiness">>)
  <2>1. ~Occurs(q, <<"conclude", "readiness">>)
    BY <1>8
  <2>2. QED
    BY <2>1, AbsentPrecedes
<1>12. Precedes(q, <<"conclude", "drift">>, end)
  BY <1>3, <1>7, <1>9
<1>13. QED
  BY <1>7, <1>8, <1>10, <1>11, <1>12 DEF Ordered, S

\* Every call reads what its conclusions rest on before it concludes.
LEMMA StepsAreOrdered ==
    ASSUME NEW p \in Documents, NEW c \in Evaluations
    PROVE  Ordered(p, c, Steps(p, c))
<1>1. CASE c = "drift"
  BY <1>1, DriftIsOrdered DEF Steps
<1>2. CASE c = "credentials"
  BY <1>2, CredentialsAreOrdered DEF Steps
<1>3. CASE c = "readiness"
  BY <1>3, ReadinessIsOrdered DEF Steps, OrderedNodes
<1>4. CASE c = "debt"
  BY <1>4, DebtIsOrdered DEF Steps
<1>5. CASE c = "posture"
  BY <1>5, PostureIsOrdered DEF Steps, PostureSteps
<1>6. QED
  BY <1>1, <1>2, <1>3, <1>4, <1>5 DEF Evaluations

-----------------------------------------------------------------------------
(***************************************************************************)
(* A call under way.                                                       *)
(***************************************************************************)

\* Every record there may ever be.
Everything == UNION {Records[s] : s \in Sources}

\* The calls there can be under policy p.
Runs(p) ==
    [evaluation : Evaluations, todo : Seq(StepSet(p)),
     got : [Sources -> SUBSET Everything], steady : [Sources -> SUBSET Everything],
     pages : [Sources -> Nat]]

\* Types: what was read of a source are records of that source.
TypesInv ==
    /\ tenant \in [Sources -> SUBSET Everything]
    /\ \A s \in Sources : tenant[s] \subseteq Records[s]
    /\ held \in Usable /\ now \in Nat
    /\ run # None => /\ run \in Runs(held)
                     /\ \A s \in Sources : run.got[s] \subseteq Records[s]

\* What is left to do reads and concludes all it has to before it concludes more.
Remaining(r, q) ==
    /\ q # <<>> /\ q[Len(q)] = <<"conclude", r.evaluation>>
    /\ \A k : Occurs(q, <<"conclude", k>>) =>
                  \/ k = r.evaluation
                  \/ k \in {"drift", "credentials"} /\ r.evaluation \in {"readiness", "debt"}
    /\ \A k \in Evaluations : \A s \in Rests(held, k) :
           \/ s \in Sources /\ r.pages[s] > 0
           \/ Precedes(q, Read(s), <<"conclude", k>>)

\* The nodes the playbook and the debt evaluation build on.
Reporting(q, done) ==
    /\ \A k \in {"drift", "credentials"} :
           k \in done \/ Precedes(q, <<"conclude", k>>, <<"conclude", "readiness">>)
    /\ "drift" \in done \/ Precedes(q, <<"conclude", "drift">>, <<"conclude", "debt">>)

\* What was there while a source was read, and is read, is in the evidence.
Steady(r) == \A s \in Sources : Head(r.todo) # Read(s) => r.steady[s] \subseteq r.got[s]

\* Where the call under way is, and what the reports of its nodes are good for.
RunInv ==
    run # None =>
        /\ Remaining(run, run.todo) /\ Steady(run)
        /\ Reporting(run.todo, DOMAIN nodes)
        /\ DOMAIN nodes \subseteq {"drift", "credentials"} /\ status = None

\* The call goes on with r, having read what it was to read.
Reads(r) ==
    /\ r \in Runs(held) /\ r.evaluation = run.evaluation
    /\ \A s \in Sources : r.got[s] \subseteq Records[s]
    /\ \A s \in Sources : run.pages[s] > 0 => r.pages[s] > 0
    /\ \A s \in Sources : Head(run.todo) # Read(s) =>
           /\ r.steady[s] \subseteq r.got[s]
           /\ s[1] # "catalog" => r.steady[s] = run.steady[s]
    /\ \/ r.todo = run.todo
       \/ /\ r.todo = Tail(run.todo) /\ Head(run.todo)[1] # "conclude"
          /\ \A s : Head(run.todo) = Read(s) =>
                 s \in Sources /\ r.pages[s] > 0 /\ r.steady[s] \subseteq r.got[s]

\* The call ends without a new report.
Stops ==
    /\ run' = None
    /\ \/ status' = "refused" /\ nodes' = NoNodes
       \/ status' = "halted" /\ nodes' = nodes /\ run.evaluation = "readiness"
    /\ UNCHANGED <<tenant, file, held, now, changes>>

\* What is raised makes no report.
LEMMA RaiseStops ==
    ASSUME Raise \/ Refuse
    PROVE  Stops
BY DEF Raise, Refuse, Stops

\* A step done changes nothing but what is left.
LEMMA DoneFields ==
    ASSUME NEW p, NEW r \in Runs(p), r.todo # <<>>
    PROVE  /\ Done(r) \in Runs(p) /\ Done(r).todo = Tail(r.todo)
           /\ Done(r).evaluation = r.evaluation /\ Done(r).got = r.got
           /\ Done(r).steady = r.steady /\ Done(r).pages = r.pages
<1>1. Tail(r.todo) \in Seq(StepSet(p))
  BY DEF Runs
<1>2. QED
  BY <1>1 DEF Runs, Done

\* The run in which source s has the records S, was read often enough, and what was
\* there all the time is T.
LEMMA SourceFields ==
    ASSUME NEW p, NEW r \in Runs(p), NEW s \in Sources, NEW S \in SUBSET Everything,
           NEW T \in SUBSET Everything, NEW n \in Nat,
           NEW q, q = [r EXCEPT !.got[s] = S, !.steady[s] = T, !.pages[s] = n]
    PROVE  /\ q \in Runs(p) /\ q.todo = r.todo /\ q.evaluation = r.evaluation
           /\ q.got = [r.got EXCEPT ![s] = S] /\ q.steady = [r.steady EXCEPT ![s] = T]
           /\ q.pages = [r.pages EXCEPT ![s] = n]
BY DEF Runs

\* Before its own conclusion a call has something left to do.
LEMMA RemainingIsNotOver ==
    ASSUME NEW S, NEW r, NEW q \in Seq(S), Remaining(r, q), Head(q) # <<"conclude", r.evaluation>>
    PROVE  /\ Tail(q) # <<>> /\ Tail(q)[Len(Tail(q))] = <<"conclude", r.evaluation>>
           /\ \A x : Occurs(Tail(q), x) => Occurs(q, x)
<1>1. /\ Len(q) \in Nat \ {0} /\ Head(q) = q[1] /\ q[Len(q)] = <<"conclude", r.evaluation>>
      /\ Len(Tail(q)) = Len(q) - 1 /\ \A k \in 1..Len(Tail(q)) : Tail(q)[k] = q[k + 1]
  BY DEF Remaining
<1>2. Len(q) # 1
  BY <1>1
<1>3. Len(Tail(q)) \in 1..Len(Tail(q)) /\ Len(Tail(q)) + 1 = Len(q) /\ Len(Tail(q)) # 0
  BY <1>1, <1>2
<1>4. \A k \in 1..Len(Tail(q)) : k + 1 \in 1..Len(q)
  BY <1>1
<1>5. Tail(q)[Len(Tail(q))] = q[Len(q)]
  <2>1. \A n \in 1..Len(Tail(q)) : n + 1 = Len(q) => Tail(q)[n] = q[Len(q)]
    BY <1>1
  <2>2. QED
    BY <1>3, <2>1
<1>6. Tail(q) # <<>>
  <2>1. Len(<<>>) = 0
    OBVIOUS
  <2>2. QED
    BY <1>3, <2>1
<1>7. ASSUME NEW x, Occurs(Tail(q), x)
      PROVE  Occurs(q, x)
  <2>1. PICK k \in 1..Len(Tail(q)) : Tail(q)[k] = x
    BY <1>7 DEF Occurs
  <2>2. k + 1 \in 1..Len(q) /\ q[k + 1] = x
    BY <1>1, <1>4, <2>1
  <2>3. QED
    BY <2>2 DEF Occurs
<1>8. QED
  BY <1>1, <1>5, <1>6, <1>7

\* A read, a failed or a granted authorization keeps the invariant of the call.
LEMMA ReadingKeepsTheRun ==
    ASSUME TypesInv, RunInv, run # None, NEW r, Reads(r), Advance(r)
    PROVE  TypesInv' /\ RunInv'
<1> DEFINE q == run.todo
<1>1. /\ run' = r /\ UNCHANGED <<tenant, file, held, now, nodes, status, changes>>
      /\ q \in Seq(StepSet(held)) /\ q # <<>> /\ run \in Runs(held)
  BY DEF Advance, TypesInv, RunInv, Remaining, Runs
<1>2. TypesInv'
  BY <1>1 DEF TypesInv, Reads
<1>3. CASE r.todo = q
  <2>1. Remaining(r, r.todo)
    BY <1>3 DEF RunInv, Remaining, Reads
  <2>2. Steady(r)
    BY <1>3 DEF Steady, Reads
  <2>3. QED
    BY <1>1, <1>2, <1>3, <2>1, <2>2 DEF RunInv, Remaining, Rests, Steady
<1>4. CASE r.todo = Tail(q) /\ r.todo # q
  <2>1. /\ Head(q)[1] # "conclude"
        /\ \A s : Head(q) = Read(s) =>
               s \in Sources /\ r.pages[s] > 0 /\ r.steady[s] \subseteq r.got[s]
        /\ r.evaluation = run.evaluation
    BY <1>4 DEF Reads
  <2>2. \A k : Head(q) # <<"conclude", k>>
    BY <2>1
  <2>3. \A x, y : Precedes(q, x, y) /\ Head(q) # x => Precedes(Tail(q), x, y)
    BY <1>1, TailPrecedes
  <2>4. /\ Tail(q) # <<>> /\ Tail(q)[Len(Tail(q))] = <<"conclude", run.evaluation>>
        /\ \A x : Occurs(Tail(q), x) => Occurs(q, x)
    BY <1>1, <2>2, RemainingIsNotOver DEF RunInv
  <2>5. \A k \in Evaluations : \A s \in Rests(held, k) :
            \/ s \in Sources /\ r.pages[s] > 0
            \/ Precedes(Tail(q), Read(s), <<"conclude", k>>)
    <3> SUFFICES ASSUME NEW k \in Evaluations, NEW s \in Rests(held, k)
                 PROVE  \/ s \in Sources /\ r.pages[s] > 0
                        \/ Precedes(Tail(q), Read(s), <<"conclude", k>>)
      OBVIOUS
    <3>1. \/ s \in Sources /\ run.pages[s] > 0
          \/ Precedes(q, Read(s), <<"conclude", k>>)
      BY DEF RunInv, Remaining
    <3>2. QED
      BY <2>1, <2>3, <3>1 DEF Reads
  <2>6. Remaining(r, Tail(q))
    BY <2>1, <2>4, <2>5 DEF RunInv, Remaining
  <2>7. Reporting(Tail(q), DOMAIN nodes)
    BY <2>2, <2>3 DEF RunInv, Reporting
  <2>8. Steady(r)
    BY <2>1 DEF Steady, Reads
  <2>9. QED
    BY <1>1, <1>2, <1>4, <2>6, <2>7, <2>8 DEF RunInv, Remaining, Rests, Steady
<1>5. QED
  BY <1>3, <1>4 DEF Reads

\* What the invariant says of the step a call is at.
LEMMA AtTheHead ==
    ASSUME TypesInv, RunInv, run # None
    PROVE  /\ run \in Runs(held) /\ run.todo \in Seq(StepSet(held)) /\ run.todo # <<>>
           /\ Tail(run.todo) \in Seq(StepSet(held))
           /\ \A s \in Sources : Head(run.todo) # Read(s) => run.steady[s] \subseteq run.got[s]
<1>1. run \in Runs(held) /\ run.todo \in Seq(StepSet(held)) /\ run.todo # <<>>
  BY DEF TypesInv, RunInv, Remaining, Runs
<1>2. QED
  BY <1>1 DEF RunInv, Steady

\* A step that only moves on.
LEMMA MovingOnReads ==
    ASSUME TypesInv, RunInv, run # None, Head(run.todo)[1] \in {"authorize", "catalogs"}
    PROVE  Reads(Done(run))
<1>1. /\ run \in Runs(held) /\ run.todo # <<>>
      /\ \A s \in Sources : Head(run.todo) # Read(s) => run.steady[s] \subseteq run.got[s]
  BY AtTheHead
<1>2. /\ Done(run) \in Runs(held) /\ Done(run).todo = Tail(run.todo)
      /\ Done(run).evaluation = run.evaluation /\ Done(run).got = run.got
      /\ Done(run).steady = run.steady /\ Done(run).pages = run.pages
  BY <1>1, DoneFields
<1>3. \A s : Head(run.todo) # Read(s)
  BY DEF Read
<1>4. \A s \in Sources : run.got[s] \subseteq Records[s]
  BY DEF TypesInv
<1>5. QED
  BY <1>1, <1>2, <1>3, <1>4 DEF Reads

\* An authorization moves on or ends the call.
LEMMA AuthorizeReads ==
    ASSUME TypesInv, RunInv, NEW c \in Evaluations, Authorize(c)
    PROVE  Stops \/ \E r : Reads(r) /\ Advance(r)
<1>1. run # None /\ Head(run.todo) = <<"authorize", c>>
  BY DEF Authorize, At
<1>2. CASE Authorized(c)
  <2>1. Advance(Done(run))
    BY <1>2 DEF Authorize
  <2>2. Head(run.todo)[1] \in {"authorize", "catalogs"}
    BY <1>1
  <2>3. QED
    BY <1>1, <2>1, <2>2, MovingOnReads
<1>3. CASE ~Authorized(c)
  BY <1>3, RaiseStops DEF Authorize
<1>4. QED
  BY <1>2, <1>3

\* A failed request ends the call.
LEMMA FailStops ==
    ASSUME Fail
    PROVE  Stops
BY RaiseStops DEF Fail

\* Resolving roles moves on or ends the call.
LEMMA ResolveRolesReads ==
    ASSUME TypesInv, RunInv, NEW w \in DOMAIN ClientId, ResolveRoles(w)
    PROVE  Stops \/ \E r : Reads(r) /\ Advance(r)
<1>1. run # None /\ Head(run.todo) = <<"catalogs", w>>
  BY DEF ResolveRoles, At
<1>2. Advance(Done(run)) \/ Raise
  BY DEF ResolveRoles
<1>3. CASE Advance(Done(run))
  <2>1. Head(run.todo)[1] \in {"authorize", "catalogs"}
    BY <1>1
  <2>2. QED
    BY <1>1, <1>3, <2>1, MovingOnReads
<1>4. QED
  BY <1>2, <1>3, RaiseStops

\* A read of source s in one response.
LEMMA ResponseReads ==
    ASSUME TypesInv, RunInv, run # None, NEW s \in Sources, NEW q,
           q = [run EXCEPT !.got[s] = tenant[s], !.steady[s] = tenant[s], !.pages[s] = 1],
           NEW r, \/ r = q /\ s[1] = "catalog" /\ \A x : Head(run.todo) # Read(x)
                  \/ r = Done(q) /\ Head(run.todo) = Read(s)
    PROVE  Reads(r)
<1>1. /\ run \in Runs(held) /\ run.todo # <<>>
      /\ \A x \in Sources : Head(run.todo) # Read(x) => run.steady[x] \subseteq run.got[x]
  BY AtTheHead
<1>2. tenant[s] \in SUBSET Everything /\ tenant[s] \subseteq Records[s]
      /\ \A x \in Sources : run.got[x] \subseteq Records[x]
  BY DEF TypesInv
<1>3. /\ q \in Runs(held) /\ q.todo = run.todo /\ q.evaluation = run.evaluation
      /\ q.got = [run.got EXCEPT ![s] = tenant[s]]
      /\ q.steady = [run.steady EXCEPT ![s] = tenant[s]]
      /\ q.pages = [run.pages EXCEPT ![s] = 1]
  BY <1>1, <1>2 DEF Runs
<1>4. /\ run.got \in [Sources -> SUBSET Everything] /\ run.pages \in [Sources -> Nat]
      /\ run.steady \in [Sources -> SUBSET Everything]
  BY <1>1 DEF Runs
<1>5. \A x \in Sources : /\ q.got[x] \subseteq Records[x]
                         /\ (run.pages[x] > 0 => q.pages[x] > 0)
                         /\ (Head(run.todo) # Read(x) => q.steady[x] \subseteq q.got[x])
                         /\ (x # s => q.steady[x] = run.steady[x])
  <2>1. ASSUME NEW x \in Sources, x # s
        PROVE  q.got[x] = run.got[x] /\ q.pages[x] = run.pages[x] /\ q.steady[x] = run.steady[x]
    BY <1>3, <1>4, <2>1
  <2>2. q.got[s] = tenant[s] /\ q.pages[s] = 1 /\ q.steady[s] = tenant[s]
    BY <1>3, <1>4
  <2>3. QED
    BY <1>1, <1>2, <2>1, <2>2
<1>6. q.pages[s] > 0 /\ q.steady[s] \subseteq q.got[s]
  BY <1>3, <1>4
<1>7. CASE r = q /\ s[1] = "catalog" /\ \A x : Head(run.todo) # Read(x)
  BY <1>3, <1>5, <1>7 DEF Reads
<1>8. CASE r = Done(q) /\ Head(run.todo) = Read(s)
  <2>5. q \in Runs(held) /\ q.todo # <<>>
    BY <1>1, <1>3
  <2>6. /\ Done(q) \in Runs(held) /\ Done(q).todo = Tail(q.todo)
        /\ Done(q).evaluation = q.evaluation /\ Done(q).got = q.got
        /\ Done(q).steady = q.steady /\ Done(q).pages = q.pages
    BY ONLY <2>5, DoneFields
  <2>1. /\ r \in Runs(held) /\ r.todo = Tail(run.todo)
        /\ r.evaluation = run.evaluation /\ r.got = q.got /\ r.steady = q.steady
        /\ r.pages = q.pages
    BY <1>3, <1>8, <2>6
  <2>2. \A x : Head(run.todo) = Read(x) => x = s
    BY <1>8 DEF Read
  <2>3. Head(run.todo)[1] # "conclude"
    BY <1>8 DEF Read
  <2>4. QED
    BY <1>5, <1>6, <2>1, <2>2, <2>3 DEF Reads
<1>9. QED
  BY <1>7, <1>8

\* A source read in one response.
LEMMA ReadOneReads ==
    ASSUME TypesInv, RunInv, NEW s \in Sources, ReadOne(s)
    PROVE  \E r : Reads(r) /\ Advance(r)
BY ResponseReads DEF ReadOne, At

\* A catalog of roles is read in one response, or one too many ends the call.
LEMMA ReadCatalogReads ==
    ASSUME TypesInv, RunInv, NEW w \in DOMAIN ClientId, NEW s \in Sources, ReadCatalog(w, s)
    PROVE  Stops \/ \E r : Reads(r) /\ Advance(r)
<1> DEFINE q == [run EXCEPT !.got[s] = tenant[s], !.steady[s] = tenant[s], !.pages[s] = 1]
<1>1. run # None /\ Head(run.todo) = <<"catalogs", w>> /\ (Raise \/ Advance(q))
  BY DEF ReadCatalog, At
<1>2. \A x : Head(run.todo) # Read(x)
  BY <1>1 DEF Read
<1>3. Reads(q)
  <2>1. s[1] = "catalog"
    BY DEF ReadCatalog, MissingCatalogs
  <2>2. QED
    BY <1>1, <1>2, <2>1, ResponseReads
<1>4. QED
  BY <1>1, <1>3, RaiseStops

\* A page is added to what was read; on the last one all that was there since the first is
\* in; a page beyond the bounds ends the call.
LEMMA ReadPageReads ==
    ASSUME TypesInv, RunInv, NEW s \in Sources, NEW S \in SUBSET Records[s],
           NEW more \in BOOLEAN, ReadPage(s, S, more)
    PROVE  Stops \/ \E r : Reads(r) /\ Advance(r)
<1> DEFINE there == IF run.pages[s] = 0 THEN tenant[s] ELSE run.steady[s]
           all == run.got[s] \cup S
           n == run.pages[s] + 1
           q == [run EXCEPT !.got[s] = all, !.pages[s] = n, !.steady[s] = there]
<1>1. /\ run # None /\ Head(run.todo) = Read(s)
      /\ (more \/ there \subseteq run.got[s] \cup S)
      /\ (Raise \/ Advance(Taken(s, S, more)))
  BY DEF ReadPage, At, Page
<1>2. /\ run \in Runs(held) /\ run.todo # <<>>
      /\ \A x \in Sources : Head(run.todo) # Read(x) => run.steady[x] \subseteq run.got[x]
  BY <1>1, AtTheHead
<1>3. tenant[s] \in SUBSET Everything /\ S \in SUBSET Everything
      /\ \A x \in Sources : run.got[x] \subseteq Records[x]
  BY <1>1 DEF TypesInv, Everything
<1>4. Taken(s, S, more) = IF more THEN q ELSE Done(q)
  BY DEF Taken
<1>5. /\ run.got \in [Sources -> SUBSET Everything] /\ run.pages \in [Sources -> Nat]
      /\ run.steady \in [Sources -> SUBSET Everything]
  BY <1>2 DEF Runs
<1>6. there \in SUBSET Everything
  BY <1>3, <1>5
<1>14. all \in SUBSET Everything /\ n \in Nat
  BY <1>3, <1>5
<1> HIDE DEF there, all, n
<1>7. /\ q.todo = run.todo /\ q.evaluation = run.evaluation
      /\ q.got = [run.got EXCEPT ![s] = all]
      /\ q.steady = [run.steady EXCEPT ![s] = there]
      /\ q.pages = [run.pages EXCEPT ![s] = n]
  BY <1>2 DEF Runs
<1>8. q \in Runs(held)
  BY <1>2, <1>6, <1>14 DEF Runs
<1> HIDE DEF q
<1>9. q.got[s] = run.got[s] \cup S /\ q.pages[s] = run.pages[s] + 1 /\ q.steady[s] = there
  BY <1>5, <1>7 DEF all, n
<1>10. \A x \in Sources : /\ q.got[x] \subseteq Records[x]
                          /\ (run.pages[x] > 0 => q.pages[x] > 0)
                          /\ (Head(run.todo) # Read(x) => q.steady[x] \subseteq q.got[x])
                          /\ (x # s => q.steady[x] = run.steady[x])
  <2>1. ASSUME NEW x \in Sources, x # s
        PROVE  q.got[x] = run.got[x] /\ q.pages[x] = run.pages[x] /\ q.steady[x] = run.steady[x]
    BY <1>5, <1>7, <2>1
  <2>2. run.pages[s] > 0 => q.pages[s] > 0
    BY <1>5, <1>9
  <2>3. QED
    BY <1>1, <1>2, <1>3, <1>9, <2>1, <2>2
<1>15. \A x \in Sources : Head(run.todo) # Read(x) => q.steady[x] = run.steady[x]
  BY <1>1, <1>10
<1>11. CASE more
  <2>1. Reads(q)
    BY <1>7, <1>8, <1>10, <1>15 DEF Reads
  <2>2. QED
    BY <1>1, <1>4, <1>11, <2>1, RaiseStops
<1>12. CASE ~more
  <2>1. q.pages[s] > 0
    BY <1>5, <1>9
  <2>2. q.steady[s] \subseteq q.got[s]
    BY <1>1, <1>9, <1>12
  <2>3. q \in Runs(held) /\ q.todo # <<>>
    BY <1>2, <1>7, <1>8
  <2>4. /\ Done(q) \in Runs(held) /\ Done(q).todo = Tail(q.todo)
        /\ Done(q).evaluation = q.evaluation /\ Done(q).got = q.got
        /\ Done(q).steady = q.steady /\ Done(q).pages = q.pages
    BY ONLY <2>3, DoneFields
  <2>5. \A x : Head(run.todo) = Read(x) => x = s
    BY <1>1 DEF Read
  <2>6. Head(run.todo)[1] # "conclude"
    BY <1>1 DEF Read
  <2>7. Reads(Done(q))
    BY <1>7, <1>10, <1>15, <2>1, <2>2, <2>4, <2>5, <2>6 DEF Reads
  <2>8. QED
    BY <1>1, <1>4, <1>12, <2>7, RaiseStops
<1>13. QED
  BY <1>11, <1>12

\* The steps of a call that make no report.
Reading ==
    \/ \E c \in Evaluations : Authorize(c)
    \/ Fail
    \/ \E s \in Sources : ReadOne(s)
    \/ \E s \in Sources : \E S \in SUBSET Records[s], more \in BOOLEAN : ReadPage(s, S, more)
    \/ \E w \in DOMAIN ClientId : ResolveRoles(w)
    \/ \E w \in DOMAIN ClientId, s \in Sources : ReadCatalog(w, s)

\* All of them move on or end the call.
LEMMA ReadingReads ==
    ASSUME TypesInv, RunInv, Reading
    PROVE  Stops \/ \E r : Reads(r) /\ Advance(r)
<1>1. CASE \E c \in Evaluations : Authorize(c)
  BY <1>1, AuthorizeReads
<1>2. CASE Fail
  BY <1>2, FailStops
<1>3. CASE \E s \in Sources : ReadOne(s)
  BY <1>3, ReadOneReads
<1>4. CASE \E s \in Sources : \E S \in SUBSET Records[s], more \in BOOLEAN : ReadPage(s, S, more)
  BY <1>4, ReadPageReads
<1>5. CASE \E w \in DOMAIN ClientId : ResolveRoles(w)
  BY <1>5, ResolveRolesReads
<1>6. CASE \E w \in DOMAIN ClientId, s \in Sources : ReadCatalog(w, s)
  BY <1>6, ReadCatalogReads
<1>7. QED
  BY <1>1, <1>2, <1>3, <1>4, <1>5, <1>6 DEF Reading

\* A call that ended is under no obligation.
LEMMA StoppingKeepsTheRun ==
    ASSUME TypesInv, Stops
    PROVE  TypesInv' /\ RunInv'
BY DEF TypesInv, RunInv, Stops
\* These steps are steps of a call.
LEMMA ReadingStartsARun ==
    ASSUME Reading
    PROVE  run # None
BY DEF Reading, Authorize, Fail, ReadOne, ReadPage, ResolveRoles, ReadCatalog, At

\* What a node evaluation can say of a target.
Alignments == {"not_aligned", "exception_approved", "aligned"}

\* What the two node evaluations say of a target is one of three words.
NodesInv ==
    \A k \in {"drift", "credentials"} \cap DOMAIN nodes :
        \A t \in nodes[k].targets : t.alignment \in Alignments

\* The inductive invariant.
EvidenceInv == TypesInv /\ RunInv /\ NodesInv

\* It holds when the server starts.
LEMMA InitEstablishes ==
    ASSUME Init
    PROVE  EvidenceInv
<1>1. tenant \in Tenants /\ file \in Usable /\ held = file /\ now = 0 /\ run = None
      /\ nodes = NoNodes /\ status = None
  BY DEF Init
<1>2. tenant = [s \in Sources |-> tenant[s]] /\ \A s \in Sources : tenant[s] \subseteq Records[s]
  BY <1>1, EvidenceAssumption DEF Sources
<1>3. TypesInv
  BY <1>1, <1>2 DEF TypesInv, Everything
<1>4. DOMAIN nodes = {}
  BY <1>1 DEF NoNodes
<1>5. NodesInv
  BY <1>4 DEF NodesInv
<1>6. QED
  BY <1>1, <1>3, <1>5 DEF EvidenceInv, RunInv

\* A change of the tenant takes a record away from what is steady only while its source is
\* read.
LEMMA ChangeKeepsTheRun ==
    ASSUME TypesInv, RunInv, NEW s \in Sources, NEW x \in Records[s], Change(s, x)
    PROVE  TypesInv' /\ RunInv'
<1>1. /\ tenant' = [tenant EXCEPT ![s] = IF x \in tenant[s] THEN tenant[s] \ {x}
                                                            ELSE tenant[s] \cup {x}]
      /\ run' = IF run # None /\ Head(run.todo) = <<"read", s>>
                THEN [run EXCEPT !.steady[s] = run.steady[s] \ {x}] ELSE run
      /\ UNCHANGED <<file, held, now, nodes, status>>
  BY DEF Change
<1>2. /\ tenant' \in [Sources -> SUBSET Everything]
      /\ \A y \in Sources : tenant'[y] \subseteq Records[y]
  BY <1>1 DEF TypesInv, Everything
<1>3. CASE run # None /\ Head(run.todo) = <<"read", s>>
  <2> DEFINE q == run'
             there == run.steady[s] \ {x}
  <2>1. run \in Runs(held) /\ Steady(run)
    BY <1>3 DEF TypesInv, RunInv
  <2>2. there \in SUBSET Everything
    BY <2>1 DEF Runs
  <2>3. q = [run EXCEPT !.steady[s] = there]
    BY <1>1, <1>3
  <2> HIDE DEF there
  <2>4. /\ q.todo = run.todo /\ q.evaluation = run.evaluation /\ q.got = run.got
        /\ q.pages = run.pages /\ q.steady = [run.steady EXCEPT ![s] = there]
    BY <2>1, <2>3 DEF Runs
  <2>5. q \in Runs(held)
    BY <2>1, <2>2, <2>3 DEF Runs
  <2>6. \A y \in Sources : y # s => q.steady[y] = run.steady[y]
    BY <2>1, <2>4 DEF Runs
  <2>7. Head(q.todo) = Read(s)
    BY <1>3, <2>4 DEF Read
  <2> HIDE DEF q
  <2>8. Steady(q)
    BY <2>1, <2>4, <2>6, <2>7 DEF Steady
  <2>9. TypesInv'
    BY <1>1, <1>2, <1>3, <2>4, <2>5 DEF TypesInv, q
  <2>10. RunInv'
    BY <1>1, <1>3, <2>4, <2>8 DEF RunInv, Remaining, Rests, Steady, q
  <2>11. QED
    BY <2>9, <2>10
<1>4. CASE ~(run # None /\ Head(run.todo) = <<"read", s>>)
  <2>1. run' = run
    BY <1>1, <1>4
  <2>2. TypesInv'
    BY <1>1, <1>2, <2>1 DEF TypesInv
  <2>3. RunInv'
    BY <1>1, <2>1 DEF RunInv, Remaining, Rests, Steady
  <2>4. QED
    BY <2>2, <2>3
<1>5. QED
  BY <1>3, <1>4

\* Time, a policy put in place and a restart do not disturb a call, or end it.
LEMMA AroundKeepsTheRun ==
    ASSUME TypesInv, RunInv, Tick \/ (\E p \in Documents : ReplacePolicy(p)) \/ Restart
    PROVE  TypesInv' /\ RunInv'
<1>1. CASE Tick
  BY <1>1 DEF Tick, TypesInv, RunInv, Remaining, Rests, Steady
<1>2. CASE \E p \in Documents : ReplacePolicy(p)
  BY <1>2 DEF ReplacePolicy, TypesInv, RunInv, Remaining, Rests, Steady
<1>3. CASE Restart
  BY <1>3 DEF Restart, TypesInv, RunInv
<1>4. QED
  BY <1>1, <1>2, <1>3

\* A call begins with everything ahead of it.
LEMMA BeginStartsARun ==
    ASSUME TypesInv, NEW c \in Evaluations, Begin(c)
    PROVE  TypesInv' /\ RunInv'
<1> DEFINE q == Steps(held, c)
           zero == [s \in Sources |-> 0]
           r == [evaluation |-> c, todo |-> q, got |-> Empty, steady |-> Empty, pages |-> zero]
<1>1. held \in Documents /\ held \in Usable
  BY DEF TypesInv, Usable
<1>2. Ordered(held, c, q)
  BY <1>1, StepsAreOrdered
<1>3. /\ run' = r /\ nodes' = NoNodes /\ status' = None
      /\ UNCHANGED <<tenant, file, held, now, changes>>
  BY DEF Begin
<1> HIDE DEF q
<1>4. /\ r.evaluation = c /\ r.todo = q /\ r.got = Empty /\ r.steady = Empty /\ r.pages = zero
  OBVIOUS
<1>5. Empty \in [Sources -> SUBSET Everything] /\ zero \in [Sources -> Nat]
      /\ \A s \in Sources : Empty[s] = {}
  BY DEF Empty
<1> HIDE DEF zero
<1>6. r \in Runs(held)
  BY <1>2, <1>5 DEF Runs, Ordered
<1> HIDE DEF r
<1>7. Remaining(r, q)
  BY <1>2, <1>4 DEF Remaining, Ordered
<1>8. Steady(r)
  BY <1>4, <1>5 DEF Steady
<1>9. DOMAIN NoNodes = {}
  BY DEF NoNodes
<1>10. Reporting(q, {})
  BY <1>2 DEF Reporting, Ordered
<1>11. TypesInv'
  BY <1>3, <1>4, <1>5, <1>6 DEF TypesInv
<1>12. QED
  BY <1>3, <1>4, <1>7, <1>8, <1>9, <1>10, <1>11 DEF RunInv, Remaining, Rests, Steady

\* Nothing comes before the step that is next.
LEMMA HeadHasNothingBefore ==
    ASSUME NEW S, NEW q \in Seq(S), q # <<>>, NEW x, NEW y, Head(q) = y
    PROVE  ~Precedes(q, x, y)
<1>1. 1 \in 1..Len(q) /\ q[1] = y
  OBVIOUS
<1>2. 1..(1 - 1) = {}
  OBVIOUS
<1>3. ~\E j \in 1..(1 - 1) : q[j] = x
  BY <1>2
<1>4. QED
  BY <1>1, <1>3 DEF Precedes

\* What is known where a call concludes.
LEMMA WhereItConcludes ==
    ASSUME TypesInv, RunInv, NEW c \in Evaluations, At(<<"conclude", c>>)
    PROVE  /\ run # None /\ run \in Runs(held) /\ DOMAIN nodes \subseteq {"drift", "credentials"}
           /\ status = None
           /\ \/ c = run.evaluation
              \/ c \in {"drift", "credentials"} /\ run.evaluation \in {"readiness", "debt"}
           /\ \A s \in Rests(held, c) : s \in Sources /\ run.pages[s] > 0
           /\ \A s \in Sources : run.steady[s] \subseteq run.got[s]
           /\ c = "readiness" => {"drift", "credentials"} \subseteq DOMAIN nodes
           /\ c = "debt" => "drift" \in DOMAIN nodes
<1> DEFINE q == run.todo
<1>1. /\ run # None /\ Head(q) = <<"conclude", c>> /\ q \in Seq(StepSet(held)) /\ q # <<>>
      /\ run \in Runs(held)
  BY AtTheHead DEF At
<1>2. /\ Remaining(run, q) /\ Steady(run) /\ Reporting(q, DOMAIN nodes)
      /\ DOMAIN nodes \subseteq {"drift", "credentials"} /\ status = None
  BY <1>1 DEF RunInv
<1>3. Occurs(q, <<"conclude", c>>)
  <2>1. 1 \in 1..Len(q) /\ q[1] = Head(q)
    BY <1>1
  <2>2. QED
    BY <1>1, <2>1 DEF Occurs
<1>4. \A x : ~Precedes(q, x, <<"conclude", c>>)
  BY <1>1, HeadHasNothingBefore
<1>5. \A s \in Sources : Head(q) # Read(s)
  BY <1>1 DEF Read
<1> HIDE DEF q
<1>6. /\ \/ c = run.evaluation
         \/ c \in {"drift", "credentials"} /\ run.evaluation \in {"readiness", "debt"}
      /\ \A s \in Rests(held, c) : s \in Sources /\ run.pages[s] > 0
  BY <1>2, <1>3, <1>4 DEF Remaining
<1>7. \A s \in Sources : run.steady[s] \subseteq run.got[s]
  BY <1>2, <1>5 DEF Steady, q
<1>8. /\ (c = "readiness" => {"drift", "credentials"} \subseteq DOMAIN nodes)
      /\ (c = "debt" => "drift" \in DOMAIN nodes)
  BY <1>2, <1>4 DEF Reporting
<1>9. QED
  BY <1>1, <1>2, <1>6, <1>7, <1>8

\* A new report is added to those of the nodes.
LEMMA ReportedNodes ==
    ASSUME NEW c, NEW report
    PROVE  /\ DOMAIN Reported(c, report) = DOMAIN nodes \cup {c}
           /\ Reported(c, report)[c] = report
           /\ \A x \in DOMAIN nodes : x # c => Reported(c, report)[x] = nodes[x]
BY DEF Reported

\* A call that goes on after the conclusion of one of its nodes.
LEMMA NodeKeepsTheRun ==
    ASSUME TypesInv, RunInv, NEW c \in Evaluations, At(<<"conclude", c>>), c # run.evaluation,
           run' = Done(run), DOMAIN nodes' = DOMAIN nodes \cup {c},
           UNCHANGED <<tenant, file, held, now, changes, status>>
    PROVE  TypesInv' /\ RunInv'
<1> DEFINE q == run.todo
<1>1. /\ run # None /\ Head(q) = <<"conclude", c>> /\ q \in Seq(StepSet(held)) /\ q # <<>>
      /\ run \in Runs(held)
  BY AtTheHead DEF At
<1>2. /\ Remaining(run, q) /\ Steady(run) /\ Reporting(q, DOMAIN nodes)
      /\ DOMAIN nodes \subseteq {"drift", "credentials"} /\ status = None
  BY <1>1 DEF RunInv
<1>3. c \in {"drift", "credentials"}
  BY WhereItConcludes
<1>4. /\ run' \in Runs(held) /\ run'.todo = Tail(q) /\ run'.evaluation = run.evaluation
      /\ run'.got = run.got /\ run'.steady = run.steady /\ run'.pages = run.pages
  BY <1>1, DoneFields
<1>5. Head(q) # <<"conclude", run.evaluation>>
  BY <1>1
<1>6. \A x, y : Precedes(q, x, y) /\ Head(q) # x => Precedes(Tail(q), x, y)
  BY <1>1, TailPrecedes
<1>7. /\ Tail(q) # <<>> /\ Tail(q)[Len(Tail(q))] = <<"conclude", run.evaluation>>
      /\ \A x : Occurs(Tail(q), x) => Occurs(q, x)
  BY <1>1, <1>2, <1>5, RemainingIsNotOver
<1> HIDE DEF q
<1>8. Remaining(run', Tail(q))
  <2>1. \A s : Head(q) # Read(s)
    BY <1>1 DEF Read
  <2>3. ASSUME NEW k \in Evaluations, NEW s \in Rests(held, k)
        PROVE  \/ s \in Sources /\ run'.pages[s] > 0
               \/ Precedes(Tail(q), Read(s), <<"conclude", k>>)
    BY <1>2, <1>4, <1>6, <2>1 DEF Remaining
  <2>4. QED
    BY <1>2, <1>4, <1>7, <2>3 DEF Remaining
<1>9. Steady(run')
  BY <1>1, <1>4, WhereItConcludes DEF Steady
<1>10. Reporting(Tail(q), DOMAIN nodes')
  BY <1>1, <1>2, <1>6 DEF Reporting
<1>11. TypesInv'
  BY <1>1, <1>4 DEF TypesInv
<1>12. RunInv'
  BY <1>2, <1>3, <1>4, <1>8, <1>9, <1>10 DEF RunInv, Remaining, Rests, Steady
<1>13. QED
  BY <1>11, <1>12

\* A conclusion keeps the invariant of the call.
LEMMA ConcludingKeepsTheRun ==
    ASSUME TypesInv, RunInv, NEW c \in Evaluations, NEW report, NEW outcome,
           Conclude(c, report, outcome)
    PROVE  TypesInv' /\ RunInv'
<1>1. At(<<"conclude", c>>)
  BY DEF Conclude
<1>2. CASE Raise
  BY <1>2, RaiseStops, StoppingKeepsTheRun
<1>3. CASE ~Raise /\ c = run.evaluation
  BY <1>3 DEF Conclude, TypesInv, RunInv
<1>4. CASE ~Raise /\ c # run.evaluation
  <2>1. /\ nodes' = Reported(c, report) /\ run' = Done(run)
        /\ UNCHANGED <<tenant, file, held, now, changes, status>>
    BY <1>4 DEF Conclude
  <2>2. DOMAIN nodes' = DOMAIN nodes \cup {c}
    BY <2>1, ReportedNodes
  <2>3. QED
    BY <1>1, <1>4, <2>1, <2>2, NodeKeepsTheRun
<1>5. QED
  BY <1>2, <1>3, <1>4

\* So does that of the playbook.
LEMMA ReadinessKeepsTheRun ==
    ASSUME TypesInv, ConcludeReadiness
    PROVE  TypesInv' /\ RunInv'
<1>1. CASE Refuse
  BY <1>1, RaiseStops, StoppingKeepsTheRun
<1>2. CASE run' = None /\ UNCHANGED <<tenant, file, held, now, changes>>
  BY <1>2 DEF TypesInv, RunInv
<1>3. QED
  BY <1>1, <1>2 DEF ConcludeReadiness

\* Every step keeps the invariant of the call.
LEMMA StepKeepsTheRun ==
    ASSUME TypesInv, RunInv, [Next]_vars
    PROVE  TypesInv' /\ RunInv'
<1>1. CASE Tick \/ (\E p \in Documents : ReplacePolicy(p)) \/ Restart
  BY <1>1, AroundKeepsTheRun
<1>2. CASE \E s \in Sources : \E r \in Records[s] : Change(s, r)
  BY <1>2, ChangeKeepsTheRun
<1>3. CASE \E c \in Evaluations : Begin(c)
  BY <1>3, BeginStartsARun
<1>4. CASE Reading
  <2>1. CASE Stops
    BY <2>1, StoppingKeepsTheRun
  <2>2. CASE \E r : Reads(r) /\ Advance(r)
    BY <1>4, <2>2, ReadingStartsARun, ReadingKeepsTheRun
  <2>3. QED
    BY <1>4, <2>1, <2>2, ReadingReads
<1>5. CASE ConcludeDrift \/ ConcludeCredentials \/ ConcludePosture
  BY <1>5, ConcludingKeepsTheRun
     DEF ConcludeDrift, ConcludeCredentials, ConcludePosture, Evaluations
<1>6. CASE \E available \in BOOLEAN : ConcludeDebt(available)
  BY <1>6, ConcludingKeepsTheRun DEF ConcludeDebt, Evaluations
<1>7. CASE ConcludeReadiness
  BY <1>7, ReadinessKeepsTheRun
<1>8. CASE UNCHANGED vars
  BY <1>8 DEF vars, TypesInv, RunInv, Remaining, Rests, Steady
<1>9. QED
  BY <1>1, <1>2, <1>3, <1>4, <1>5, <1>6, <1>7, <1>8 DEF Next, Step, Reading

\* The reports of the nodes say one of three words of a target.
LEMMA ReportsAreJudged ==
    ASSUME NEW p, NEW e, NEW t, NEW k \in {"drift", "credentials"}, NEW report,
           \/ k = "drift" /\ report = DriftReport(p, e, t)
           \/ k = "credentials" /\ report = CredentialReport(p, e, t)
    PROVE  \A x \in report.targets : x.alignment \in Alignments
<1>1. \A f : Overall(f) \in Alignments
  BY DEF Overall, Alignments
<1>2. CASE report = DriftReport(p, e, t)
  BY <1>1, <1>2 DEF DriftReport
<1>3. CASE report = CredentialReport(p, e, t)
  BY <1>1, <1>3 DEF CredentialReport
<1>4. QED
  BY <1>2, <1>3

\* A call that ends early leaves the reports of its nodes, or none.
LEMMA StoppingKeepsTheNodes ==
    ASSUME NodesInv, Stops
    PROVE  NodesInv'
<1>1. nodes' \in {nodes, NoNodes} /\ DOMAIN NoNodes = {}
  BY DEF Stops, NoNodes
<1>2. QED
  BY <1>1 DEF NodesInv

\* A conclusion reports one evaluation more.
LEMMA ConcludingKeepsTheNodes ==
    ASSUME NodesInv, NEW c, NEW report, NEW outcome,
           c \in {"drift", "credentials"} => \A x \in report.targets : x.alignment \in Alignments,
           Conclude(c, report, outcome)
    PROVE  NodesInv'
<1>1. CASE Raise
  BY <1>1, RaiseStops, StoppingKeepsTheNodes
<1>2. CASE ~Raise
  <2>1. nodes' = Reported(c, report)
    BY <1>2 DEF Conclude
  <2>2. DOMAIN nodes' = DOMAIN nodes \cup {c} /\ nodes'[c] = report
    BY <2>1, ReportedNodes
  <2>3. ASSUME NEW x \in DOMAIN nodes, x # c
        PROVE  nodes'[x] = nodes[x]
    BY <2>1, <2>3 DEF Reported
  <2>4. QED
    BY <2>2, <2>3 DEF NodesInv
<1>3. QED
  BY <1>1, <1>2

\* So does that of the playbook.
LEMMA ReadinessKeepsTheNodes ==
    ASSUME NodesInv, ConcludeReadiness
    PROVE  NodesInv'
<1>1. CASE \E report : nodes' = Reported("readiness", report)
  BY <1>1 DEF NodesInv, Reported
<1>2. CASE nodes' = [x \in DOMAIN nodes \ {"drift"} |-> nodes[x]]
  BY <1>2 DEF NodesInv
<1>3. CASE Refuse
  BY <1>3, RaiseStops, StoppingKeepsTheNodes
<1>4. QED
  BY <1>1, <1>2, <1>3 DEF ConcludeReadiness

\* Every step keeps the invariant of the reports.
LEMMA StepKeepsTheNodes ==
    ASSUME TypesInv, RunInv, NodesInv, [Next]_vars
    PROVE  NodesInv'
<1>1. CASE UNCHANGED nodes
  BY <1>1 DEF NodesInv
<1>2. CASE nodes' = NoNodes
  <2>1. DOMAIN nodes' = {}
    BY <1>2 DEF NoNodes
  <2>2. QED
    BY <2>1 DEF NodesInv
<1>3. CASE Reading
  BY <1>1, <1>3, ReadingReads, StoppingKeepsTheNodes DEF Advance
<1>4. CASE ConcludeDrift
  BY <1>4, ReportsAreJudged, ConcludingKeepsTheNodes DEF ConcludeDrift
<1>5. CASE ConcludeCredentials
  BY <1>5, ReportsAreJudged, ConcludingKeepsTheNodes DEF ConcludeCredentials
<1>6. CASE ConcludePosture
  BY <1>6, ConcludingKeepsTheNodes DEF ConcludePosture
<1>7. CASE \E available \in BOOLEAN : ConcludeDebt(available)
  BY <1>7, ConcludingKeepsTheNodes DEF ConcludeDebt
<1>8. CASE ConcludeReadiness
  BY <1>8, ReadinessKeepsTheNodes
<1>9. QED
  BY <1>1, <1>2, <1>3, <1>4, <1>5, <1>6, <1>7, <1>8
     DEF Next, Step, Reading, Tick, Change, ReplacePolicy, Restart, Begin, vars

\* The invariant.
LEMMA EvidenceIsInvariant == Spec => []EvidenceInv
<1>1. Init => EvidenceInv
  BY InitEstablishes
<1>2. EvidenceInv /\ [Next]_vars => EvidenceInv'
  BY StepKeepsTheRun, StepKeepsTheNodes DEF EvidenceInv
<1>3. QED
  BY <1>1, <1>2, PTL DEF Spec

-----------------------------------------------------------------------------
(***************************************************************************)
(* Where a new report comes from.                                          *)
(***************************************************************************)

\* The report of c is what its evaluation concludes now, under the policy that is held.
Made(c, report) ==
    \/ c = "drift" /\ report = DriftReport(held, run.got, now)
    \/ c = "credentials" /\ report = CredentialReport(held, run.got, now)
    \/ c = "posture" /\ report = PostureReport(held, run.got, now)
    \/ /\ c = "debt" /\ status' = report.status
       /\ \E e, available : report = DebtReport(held, e, nodes["drift"], available, now)
    \/ /\ c = "readiness" /\ status' = "complete"
       /\ report = Correlate(nodes["drift"], nodes["credentials"])

\* A conclusion makes one report, after the authorization before it.
LEMMA OneReport ==
    ASSUME NEW c, NEW report, NEW outcome, Conclude(c, report, outcome), run # None, NEW k \in New,
           DOMAIN nodes \subseteq {"drift", "credentials"}
    PROVE  /\ k = c /\ At(<<"conclude", c>>) /\ Revalidated(c) /\ nodes'[c] = report
           /\ DOMAIN nodes \subseteq DOMAIN nodes'
           /\ c = run.evaluation => status' = outcome
<1>1. CASE Raise
  <2>1. nodes' \in {nodes, NoNodes} /\ DOMAIN NoNodes = {}
    BY <1>1, RaiseStops DEF Stops, NoNodes
  <2>2. QED
    BY <2>1 DEF New
<1>2. CASE ~Raise
  <2>1. /\ nodes' = Reported(c, report) /\ Revalidated(c) /\ At(<<"conclude", c>>)
        /\ c = run.evaluation => status' = outcome
    BY <1>2 DEF Conclude
  <2>2. DOMAIN nodes' = DOMAIN nodes \cup {c} /\ nodes'[c] = report
    BY <2>1, ReportedNodes
  <2>3. QED
    BY <2>1, <2>2 DEF New
<1>3. QED
  BY <1>1, <1>2

\* A new report is made by the conclusion of its evaluation and by nothing else.
LEMMA NewReports ==
    ASSUME EvidenceInv, [Next]_vars, NEW c \in New
    PROVE  /\ c \in Evaluations /\ At(<<"conclude", c>>) /\ Revalidated(c)
           /\ Made(c, nodes'[c]) /\ DOMAIN nodes \subseteq DOMAIN nodes'
<1>1. CASE ConcludeDrift
  <2>1. run # None /\ DOMAIN nodes \subseteq {"drift", "credentials"}
    BY <1>1 DEF ConcludeDrift, Conclude, At, EvidenceInv, RunInv
  <2>2. QED
    BY <1>1, <2>1, OneReport DEF ConcludeDrift, Made, Evaluations
<1>2. CASE ConcludeCredentials
  <2>1. run # None /\ DOMAIN nodes \subseteq {"drift", "credentials"}
    BY <1>2 DEF ConcludeCredentials, Conclude, At, EvidenceInv, RunInv
  <2>2. QED
    BY <1>2, <2>1, OneReport DEF ConcludeCredentials, Made, Evaluations
<1>3. CASE ConcludePosture
  <2>1. run # None /\ DOMAIN nodes \subseteq {"drift", "credentials"}
    BY <1>3 DEF ConcludePosture, Conclude, At, EvidenceInv, RunInv
  <2>2. QED
    BY <1>3, <2>1, OneReport DEF ConcludePosture, Made, Evaluations
<1>4. CASE \E available \in BOOLEAN : ConcludeDebt(available)
  <2>1. PICK report : /\ \E e, available :
                             report = DebtReport(held, e, nodes["drift"], available, now)
                      /\ Conclude("debt", report, report.status)
    BY <1>4 DEF ConcludeDebt
  <2>2. run # None /\ DOMAIN nodes \subseteq {"drift", "credentials"}
    BY <2>1 DEF Conclude, At, EvidenceInv, RunInv
  <2>3. /\ c = "debt" /\ At(<<"conclude", c>>) /\ Revalidated(c) /\ nodes'[c] = report
        /\ DOMAIN nodes \subseteq DOMAIN nodes'
        /\ c = run.evaluation => status' = report.status
    <3> DEFINE outcome == report.status
    <3>1. Conclude("debt", report, outcome)
      BY <2>1
    <3> HIDE DEF outcome
    <3>2. /\ c = "debt" /\ At(<<"conclude", "debt">>) /\ Revalidated("debt")
          /\ nodes'["debt"] = report /\ DOMAIN nodes \subseteq DOMAIN nodes'
          /\ "debt" = run.evaluation => status' = outcome
      BY <2>2, <3>1, OneReport
    <3>3. QED
      BY <3>2 DEF outcome
  <2>4. c = run.evaluation
    BY <2>3, WhereItConcludes DEF EvidenceInv, Evaluations
  <2>5. QED
    BY <2>1, <2>3, <2>4 DEF Made, Evaluations
<1>5. CASE ConcludeReadiness
  <2>1. nodes' # [x \in DOMAIN nodes \ {"drift"} |-> nodes[x]] /\ nodes' # NoNodes
    BY DEF New, NoNodes
  <2> DEFINE report == Correlate(nodes["drift"], nodes["credentials"])
  <2>2. /\ At(<<"conclude", "readiness">>) /\ Revalidated("readiness")
        /\ nodes' = Reported("readiness", report) /\ status' = "complete"
    BY <1>5, <2>1 DEF ConcludeReadiness, Refuse
  <2> HIDE DEF report
  <2>3. DOMAIN nodes' = DOMAIN nodes \cup {"readiness"} /\ nodes'["readiness"] = report
    BY <2>2, ReportedNodes
  <2>4. c = "readiness"
    BY <2>3 DEF New
  <2>5. QED
    BY <2>2, <2>3, <2>4 DEF Made, Evaluations, report
<1>6. CASE nodes' \in {nodes, NoNodes}
  <2>1. DOMAIN NoNodes = {}
    BY DEF NoNodes
  <2>2. QED
    BY <1>6, <2>1 DEF New
<1>7. CASE Reading
  BY <1>6, <1>7, ReadingReads DEF EvidenceInv, Advance, Stops
<1>8. QED
  BY <1>1, <1>2, <1>3, <1>4, <1>5, <1>6, <1>7
     DEF Next, Step, Reading, Tick, Change, ReplacePolicy, Restart, Begin, vars

\* What the last authorization of an evaluation establishes.
LEMMA WhatIsAuthorized ==
    ASSUME EvidenceInv, NEW c \in Evaluations, Revalidated(c)
    PROVE  /\ file = held /\ held \in Documents /\ Loadable(held) /\ ~Expired(held, now)
           /\ c # "posture" => held.active = "privileged_read"
           /\ held.active \in ReadProfiles
           /\ c # "readiness" => c \in Active(held).contracts
           /\ c = "readiness" => c \in Active(held).playbooks
           /\ c \in {"drift", "debt"} => held.drift # None
           /\ c = "credentials" => held.credentials # None
           /\ c = "drift" => Principals(held.drift.targets) \subseteq Runtime.service_principals
           /\ c = "credentials" =>
                  Applications(held.credentials.targets) \subseteq Runtime.applications
<1>1. /\ file = held /\ Authorized(c)
      /\ c \in {"drift", "credentials"} => held.active = "privileged_read"
  BY DEF Revalidated
<1>2. held \in Documents /\ Loadable(held)
  BY DEF EvidenceInv, TypesInv, Usable
<1>3. \A k : ReadAuthorized(held, k, Tenant, now) =>
                 ~Expired(held, now) /\ held.active \in ReadProfiles /\ k \in Active(held).contracts
  BY DEF ReadAuthorized
<1>4. CASE c = "drift"
  BY <1>1, <1>2, <1>3, <1>4 DEF Authorized, DriftAuthorized
<1>5. CASE c = "credentials"
  BY <1>1, <1>2, <1>3, <1>5 DEF Authorized, CredentialsAuthorized
<1>6. CASE c = "readiness"
  BY <1>1, <1>2, <1>6 DEF Authorized, PlaybookAuthorized, ReadProfiles
<1>7. CASE c = "debt"
  BY <1>1, <1>2, <1>3, <1>7 DEF Authorized, DebtAuthorized
<1>8. CASE c = "posture"
  BY <1>1, <1>2, <1>3, <1>8 DEF Authorized
<1>9. QED
  BY <1>4, <1>5, <1>6, <1>7, <1>8 DEF Evaluations

\* A report is made under the policy of the file at that moment, which is in force and enables
\* the evaluation: the file is read again, and the authorization made again, in the step that
\* makes the report.
THEOREM ReportsAreMadeInForce == Spec => ReportUnderPolicyInForce
<1>1. ASSUME EvidenceInv, [Next]_vars, NEW c \in New
      PROVE  UnderPolicyInForce(c)
  BY <1>1, NewReports, WhatIsAuthorized DEF UnderPolicyInForce
<1>2. EvidenceInv /\ [Next]_vars => [\A c \in New : UnderPolicyInForce(c)]_vars
  BY <1>1
<1>3. QED
  BY <1>2, EvidenceIsInvariant, PTL DEF Spec, ReportUnderPolicyInForce

\* What a new report rests on was read, and what was there all along is in it.
LEMMA EverythingWasRead ==
    ASSUME EvidenceInv, NEW c \in Evaluations, At(<<"conclude", c>>), Revalidated(c),
           NEW s \in EvidenceOfReport(held, c)
    PROVE  s \in Sources /\ run.pages[s] > 0 /\ run.steady[s] \subseteq run.got[s]
<1>1. s \in Rests(held, c)
  BY WhatIsAuthorized DEF Rests
<1>2. QED
  BY <1>1, WhereItConcludes DEF EvidenceInv

\* A report is complete or there is none: every source it rests on comes before its conclusion
\* in the steps of the call, and a source is done only when a page without a next link was
\* read, by which time all that was there since the first page has been seen.
THEOREM ReportsReadEverything == Spec => CompleteMeansEverythingRead
<1>1. ASSUME EvidenceInv, [Next]_vars, NEW c \in New
      PROVE  ReadEverything(c)
  BY <1>1, NewReports, EverythingWasRead DEF ReadEverything
<1>2. EvidenceInv /\ [Next]_vars => [\A c \in New : ReadEverything(c)]_vars
  BY <1>1
<1>3. QED
  BY <1>2, EvidenceIsInvariant, PTL DEF Spec, CompleteMeansEverythingRead

-----------------------------------------------------------------------------
(***************************************************************************)
(* What a finding says it is excused by.                                   *)
(***************************************************************************)

\* The policy has an exception for the subject that has not expired at t.
InTime(c, p, t, subject) ==
    \E x \in ExceptionsOf(p, c) : t < x.expires /\ SubjectOf(c, x) = subject

\* What is excused is called so.
LEMMA VerdictIsExcused ==
    ASSUME NEW b
    PROVE  Verdict(b) = "exception_approved" <=> b
BY DEF Verdict

\* A grant is excused by an exception for that grant.
LEMMA DriftExcuses ==
    ASSUME NEW p, NEW e, NEW t, NEW f \in DriftReport(p, e, t).findings,
           f.alignment = "exception_approved"
    PROVE  InTime("drift", p, t, f.subject)
<1> DEFINE X == Unexpired(p.drift.exceptions, t)
<1>1. PICK u : f \in DriftFindings(u, e, X)
  BY DEF DriftReport
<1>2. ASSUME NEW g, NEW kind, NEW control, f = Unexpected(u, g, kind, control, X)
      PROVE  InTime("drift", p, t, f.subject)
  <2>1. /\ f.subject = <<u.principal, g.resource, g.permission, g.consent>>
        /\ GrantExcused(u, g, kind, X)
    BY <1>2, VerdictIsExcused DEF Finding, Unexpected
  <2>2. QED
    BY <2>1 DEF InTime, ExceptionsOf, SubjectOf, Unexpired, GrantExcused
<1>3. \/ \E s : f = Finding("expected_missing", s, "not_aligned")
      \/ \E g, kind, control : f = Unexpected(u, g, kind, control, X)
  BY <1>1 DEF DriftFindings
<1>4. QED
  BY <1>2, <1>3 DEF Finding

\* An application and the two parts of a credential in a row.
LEMMA PairAfterOne ==
    ASSUME NEW x, NEW y, NEW z
    PROVE  <<x>> \o <<y, z>> = <<x, y, z>>
<1> DEFINE S == {x, y, z}
           a == <<x>>
           b == <<y, z>>
<1>1. a \in Seq(S) /\ b \in Seq(S) /\ Len(a) = 1 /\ Len(b) = 2
  OBVIOUS
<1>2. a[1] = x /\ b[1] = y /\ b[2] = z
  OBVIOUS
<1>7. <<x, y, z>> \in Seq(S) /\ Len(<<x, y, z>>) = 3
  OBVIOUS
<1>8. <<x, y, z>>[1] = x /\ <<x, y, z>>[2] = y /\ <<x, y, z>>[3] = z
  OBVIOUS
<1> HIDE DEF a, b, S
<1>3. /\ a \o b \in Seq(S) /\ Len(a \o b) = Len(a) + Len(b)
      /\ \A i \in 1 .. Len(a) + Len(b) : (a \o b)[i] = IF i <= Len(a) THEN a[i] ELSE b[i - Len(a)]
  BY <1>1, ConcatProperties
<1>4. Len(a \o b) = 3 /\ (a \o b)[1] = a[1] /\ (a \o b)[2] = b[1] /\ (a \o b)[3] = b[2]
  <2>1. (a \o b)[2] = b[2 - 1] /\ (a \o b)[3] = b[3 - 1] /\ (a \o b)[1] = a[1]
    BY <1>1, <1>3
  <2>2. QED
    BY <1>1, <1>3, <2>1
<1>5. \A i \in 1..Len(a \o b) : (a \o b)[i] = <<x, y, z>>[i]
  <2>1. ASSUME NEW i \in 1..3
        PROVE  (a \o b)[i] = <<x, y, z>>[i]
    <3>1. i = 1 \/ i = 2 \/ i = 3
      OBVIOUS
    <3>2. QED
      BY <1>2, <1>4, <1>8, <3>1
  <2>2. QED
    BY <1>4, <2>1
<1>6. a \o b = <<x, y, z>>
  BY <1>3, <1>4, <1>5, <1>7, SeqEqual
<1>9. QED
  BY <1>6 DEF a, b

\* A credential is excused by an exception for that credential: the policy is not loaded
\* where an exception for a control of one credential selects none.
LEMMA CredentialsExcuse ==
    ASSUME NEW p, BaselinesValid(p), p.credentials # None, NEW e, NEW t,
           NEW f \in CredentialReport(p, e, t).findings, f.alignment = "exception_approved"
    PROVE  InTime("credentials", p, t, f.subject)
<1> DEFINE X == Unexpired(p.credentials.exceptions, t)
<1>1. PICK u : f \in CredentialFindings(u, e, X, t)
  BY DEF CredentialReport
<1>2. ASSUME NEW control, f = Finding(control, <<u.application>>,
                                      Verdict(CredentialExcused(u, control, None, X)))
      PROVE  InTime("credentials", p, t, f.subject)
  <2>1. f.subject = <<u.application>> /\ CredentialExcused(u, control, None, X)
    BY <1>2, VerdictIsExcused DEF Finding
  <2>2. PICK x \in X : x.application = u.application /\ x.key = None
    BY <2>1 DEF CredentialExcused
  <2>3. SubjectOf("credentials", x) = <<x.application>>
    BY <2>2 DEF SubjectOf
  <2>4. QED
    BY <2>1, <2>2, <2>3 DEF InTime, ExceptionsOf, Unexpired
<1>3. ASSUME NEW control \in KeyControls, NEW c,
             f = Finding(control, <<u.application, c.kind, c.key>>,
                         Verdict(CredentialExcused(u, control, <<c.kind, c.key>>, X)))
      PROVE  InTime("credentials", p, t, f.subject)
  <2>1. /\ f.subject = <<u.application, c.kind, c.key>>
        /\ CredentialExcused(u, control, <<c.kind, c.key>>, X)
    BY <1>3, VerdictIsExcused DEF Finding
  <2>2. PICK x \in X : /\ x.application = u.application /\ x.control = control
                       /\ x.key \in {None, <<c.kind, c.key>>}
    BY <2>1 DEF CredentialExcused
  <2>3. x.key # None /\ x.key = <<c.kind, c.key>>
    BY <2>2 DEF BaselinesValid, Unexpired
  <2>4. SubjectOf("credentials", x) = <<x.application>> \o x.key
    BY <2>3 DEF SubjectOf
  <2>5. <<u.application>> \o <<c.kind, c.key>> = <<u.application, c.kind, c.key>>
    BY PairAfterOne
  <2>6. SubjectOf("credentials", x) = f.subject
    BY <2>1, <2>2, <2>3, <2>4, <2>5
  <2>7. QED
    BY <2>2, <2>6 DEF InTime, ExceptionsOf, Unexpired
<1>4. \/ \E control : f = Finding(control, <<u.application>>,
                                  Verdict(CredentialExcused(u, control, None, X)))
      \/ \E control \in KeyControls : \E c :
            f = Finding(control, <<u.application, c.kind, c.key>>,
                        Verdict(CredentialExcused(u, control, <<c.kind, c.key>>, X)))
  BY <1>1 DEF CredentialFindings
<1>5. QED
  BY <1>2, <1>3, <1>4

\* A posture domain is excused by an exception for that domain.
LEMMA PostureExcuses ==
    ASSUME NEW p, NEW e, NEW t, NEW f \in PostureReport(p, e, t).findings,
           f.alignment = "exception_approved"
    PROVE  InTime("posture", p, t, f.subject)
<1> DEFINE X == IF p.posture = None THEN {} ELSE Unexpired(p.posture.exceptions, t)
           Judge(control, d, alignment) ==
               Finding(control, <<d>>,
                       IF \E x \in X : x.domain = d /\ x.control = control
                       THEN "exception_approved" ELSE alignment)
<1>1. \/ \E control, d : \/ f = Judge(control, d, "not_aligned")
                         \/ f = Judge(control, d, "not_evaluated")
      \/ f = Finding("baseline_not_configured", <<>>, "not_evaluated")
  BY DEF PostureReport
<1>2. ASSUME NEW control, NEW d, NEW alignment \in {"not_aligned", "not_evaluated"},
             f = Judge(control, d, alignment)
      PROVE  InTime("posture", p, t, f.subject)
  <2>1. f.subject = <<d>> /\ \E x \in X : x.domain = d
    BY <1>2 DEF Finding
  <2>2. PICK x \in X : x.domain = d
    BY <2>1
  <2>3. /\ p.posture # None /\ x \in ExceptionsOf(p, "posture") /\ x.expires > t
        /\ SubjectOf("posture", x) = <<d>>
    BY <2>2 DEF Unexpired, ExceptionsOf, SubjectOf
  <2>4. QED
    BY <2>1, <2>3 DEF InTime
<1>3. QED
  BY <1>1, <1>2 DEF Finding

\* A debt is called excused by its exception or because its alignment was so already.
LEMMA DebtIsExcused ==
    ASSUME NEW p, NEW t, NEW control, NEW subject, NEW alignment, NEW f,
           f = JudgeDebt(p, t, control, subject, alignment),
           f.alignment = "exception_approved"
    PROVE  InTime("debt", p, t, f.subject) \/ alignment = "exception_approved"
<1>1. f.subject = <<subject>> /\ f.control = control
  BY DEF JudgeDebt, Finding
<1>2. CASE \E x \in Unexpired(p.debt.exceptions, t) : x.control = control /\ x.subject = subject
  BY <1>1, <1>2 DEF InTime, ExceptionsOf, SubjectOf, Unexpired
<1>3. CASE ~\E x \in Unexpired(p.debt.exceptions, t) : x.control = control /\ x.subject = subject
  BY <1>3 DEF JudgeDebt, Finding
<1>4. QED
  BY <1>2, <1>3

\* Only the alignment of the server's own grants can be so already.
LEMMA DebtExcuses ==
    ASSUME NEW p, NEW e, NEW drift, NEW available, NEW t,
           NEW f \in DebtReport(p, e, drift, available, t).findings,
           f.alignment = "exception_approved"
    PROVE  InTime("debt", p, t, f.subject) \/ f.control = "grant_drift"
<1>1. PICK seen, current : f \in DebtFindings(p, seen, current, available, t)
  BY DEF DebtReport
<1>2. ASSUME NEW control, NEW subject, NEW alignment, alignment # "exception_approved",
             f = JudgeDebt(p, t, control, subject, alignment)
      PROVE  InTime("debt", p, t, f.subject)
  BY <1>2, DebtIsExcused
<1>3. ASSUME NEW control, NEW S, f \in Debts(p, t, control, S)
      PROVE  InTime("debt", p, t, f.subject)
  BY <1>2, <1>3 DEF Debts
<1>4. \A c : EvidenceOf(p, seen, available, c) # "exception_approved"
  BY DEF EvidenceOf
<1>5. CASE f \in GrantDebts(p, seen, current, t)
  <2>1. CASE \E a : f = JudgeDebt(p, t, "grant_drift", "current_app", a)
    BY <2>1 DEF JudgeDebt, Finding
  <2>2. CASE f = JudgeDebt(p, t, "current_app_missing", "current_app", "not_evaluated")
    BY <1>2, <2>2
  <2>3. QED
    BY <1>3, <1>5, <2>1, <2>2 DEF GrantDebts
<1>6. CASE f \in ContractDebts(p, seen, current, available, t)
  <2>1. ASSUME NEW c, f = JudgeDebt(p, t, "no_recent_evidence", c,
                                    EvidenceOf(p, seen, available, c))
        PROVE  InTime("debt", p, t, f.subject)
    BY <1>2, <1>4, <2>1
  <2>2. QED
    BY <1>3, <1>6, <2>1 DEF ContractDebts
<1>7. CASE f \in LifecycleDebts(p, t)
  BY <1>3, <1>7 DEF LifecycleDebts
<1>8. CASE f \in ResourceDebts(p, t)
  BY <1>3, <1>8 DEF ResourceDebts
<1>9. QED
  BY <1>1, <1>5, <1>6, <1>7, <1>8 DEF DebtFindings

\* A finding is excused only by a signed exception for exactly its subject that has not expired
\* when the report is made; debt may pass on what drift excused.
THEOREM ReportsExceptInForce == Spec => ExceptionsInForce
<1>1. ASSUME EvidenceInv, [Next]_vars, NEW c \in New \ {"readiness"},
             NEW f \in nodes'[c].findings, f.alignment = "exception_approved"
      PROVE  \/ Excused(c, f.subject)
             \/ c = "debt" /\ f.control = "grant_drift"
  <2>1. /\ c \in Evaluations /\ At(<<"conclude", c>>) /\ Revalidated(c)
        /\ Made(c, nodes'[c])
    BY <1>1, NewReports
  <2>2. /\ file = held /\ Loadable(held)
        /\ c = "credentials" => held.credentials # None
    BY <1>1, <2>1, WhatIsAuthorized
  <2>3. BaselinesValid(held)
    BY <2>2 DEF Loadable, PolicyValid
  <2>4. InTime(c, held, now, f.subject) => Excused(c, f.subject)
    BY <2>2 DEF InTime, Excused
  <2>5. CASE c = "drift"
    BY <1>1, <2>1, <2>4, <2>5, DriftExcuses DEF Made
  <2>6. CASE c = "credentials"
    BY <1>1, <2>1, <2>2, <2>3, <2>4, <2>6, CredentialsExcuse DEF Made
  <2>7. CASE c = "posture"
    BY <1>1, <2>1, <2>4, <2>7, PostureExcuses DEF Made
  <2>8. CASE c = "debt"
    BY <1>1, <2>1, <2>4, <2>8, DebtExcuses DEF Made
  <2>9. QED
    BY <1>1, <2>1, <2>5, <2>6, <2>7, <2>8 DEF Made
<1>2. ASSUME EvidenceInv, [Next]_vars, NEW c \in New \ {"readiness"}
      PROVE  ExcusedInForce(c)
  BY <1>1, <1>2 DEF ExcusedInForce
<1>3. EvidenceInv /\ [Next]_vars => [\A c \in New \ {"readiness"} : ExcusedInForce(c)]_vars
  BY <1>2
<1>4. QED
  BY <1>3, EvidenceIsInvariant, PTL DEF Spec, ExceptionsInForce

\* What "not out of line" says of every finding.
LEMMA OverallSays ==
    ASSUME NEW F, Overall(F) # "not_aligned"
    PROVE  /\ \A f \in F : f.alignment # "not_aligned"
           /\ \A f \in F : f.alignment = "exception_approved" => Overall(F) = "exception_approved"
BY DEF Overall

\* A deviation is excused or out of line.
LEMMA VerdictIsOneOfTwo ==
    ASSUME NEW b
    PROVE  Verdict(b) \in {"exception_approved", "not_aligned"}
BY DEF Verdict

\* Aligned grants: the target of a line of the report is the one with its client id, each of
\* its deviations was read and is a finding, and no finding is out of line.
LEMMA GrantsAreClean ==
    ASSUME EvidenceInv, [Next]_vars, "drift" \in New
    PROVE  CleanGrants
<1> DEFINE X == Unexpired(held.drift.exceptions, now)
           got == run.got
           Findings(t) == DriftFindings(t, got, X)
<1>1. /\ At(<<"conclude", "drift">>) /\ Revalidated("drift") /\ "drift" \in Evaluations
      /\ nodes'["drift"] = DriftReport(held, got, now)
  BY NewReports DEF Made
<1>2. /\ file = held /\ Loadable(held) /\ held.drift # None
      /\ Principals(held.drift.targets) \subseteq Runtime.service_principals
  BY <1>1, WhatIsAuthorized
<1>3. OneEach(held.drift.targets, "principal")
  BY <1>2 DEF Loadable, PolicyValid, BaselinesValid
<1>4. SUFFICES ASSUME NEW t \in held.drift.targets, NEW r \in nodes'["drift"].targets,
                      r.workload = ClientId[t.principal], r.alignment # "not_aligned"
               PROVE  /\ \A d \in GrantDeviations(t) :
                             r.alignment = "exception_approved" /\ Excused("drift", d)
                      /\ \A c \in t.contracts : Manifest[c].scopes \subseteq
                             {g.permission : g \in run.got[<<"delegated", t.principal>>]}
  BY DEF CleanGrants
<1>5. PICK u \in held.drift.targets :
          r = [workload |-> ClientId[u.principal], contracts |-> u.contracts,
               alignment |-> Overall(Findings(u))]
  BY <1>1 DEF DriftReport
<1>6. u = t
  <2>1. ClientId[u.principal] = ClientId[t.principal]
    BY <1>4, <1>5
  <2>2. u.principal \in Runtime.service_principals /\ t.principal \in Runtime.service_principals
    BY <1>2 DEF Principals
  <2>3. u.principal = t.principal
    BY <2>1, <2>2, ClientIdAssumption
  <2>4. QED
    BY <1>3, <2>3 DEF OneEach
<1>7. r.alignment = Overall(Findings(t))
  BY <1>5, <1>6
<1>8. /\ \A f \in Findings(t) : f.alignment # "not_aligned"
      /\ \A f \in Findings(t) : f.alignment = "exception_approved" =>
                                    r.alignment = "exception_approved"
  BY <1>4, <1>7, OverallSays
<1>9. \A f \in Findings(t) : f \in DriftReport(held, got, now).findings
  BY DEF DriftReport
<1>10. ASSUME NEW g, NEW kind, NEW control, Unexpected(t, g, kind, control, X) \in Findings(t)
       PROVE  /\ r.alignment = "exception_approved"
              /\ Excused("drift", <<t.principal, g.resource, g.permission, g.consent>>)
  <2> DEFINE f == Unexpected(t, g, kind, control, X)
  <2>1. /\ f.subject = <<t.principal, g.resource, g.permission, g.consent>>
        /\ f.alignment \in {"exception_approved", "not_aligned"}
    BY VerdictIsOneOfTwo DEF Unexpected, Finding
  <2>2. f.alignment = "exception_approved"
    BY <1>8, <1>10, <2>1
  <2>3. f \in DriftReport(held, got, now).findings
    BY <1>9, <1>10
  <2> HIDE DEF f
  <2>4. InTime("drift", held, now, f.subject)
    BY <2>2, <2>3, DriftExcuses
  <2>5. QED
    BY <1>2, <1>8, <1>10, <2>1, <2>2, <2>4 DEF InTime, Excused, f
<1>11. /\ run.steady[<<"roles", t.principal>>] \subseteq got[<<"roles", t.principal>>]
       /\ run.steady[<<"delegated", t.principal>>] \subseteq got[<<"delegated", t.principal>>]
  <2>1. /\ <<"roles", t.principal>> \in EvidenceOfReport(held, "drift")
        /\ <<"delegated", t.principal>> \in EvidenceOfReport(held, "drift")
    BY DEF EvidenceOfReport
  <2>2. QED
    BY <1>1, <2>1, EverythingWasRead
<1>12. ASSUME NEW g \in got[<<"roles", t.principal>>]
       PROVE  Unexpected(t, g, "application", "application_unexpected", X) \in Findings(t)
  BY DEF DriftFindings
<1>13. ASSUME NEW g \in got[<<"delegated", t.principal>>],
              ~(Expected(t, g) /\ g.consent \in t.consents)
       PROVE  \E control : Unexpected(t, g, "delegated", control, X) \in Findings(t)
  <2> DEFINE control == IF Expected(t, g) THEN "consent_type_mismatch"
                                          ELSE "delegated_unexpected"
  <2>1. Unexpected(t, g, "delegated", control, X) \in Findings(t)
    BY <1>13 DEF DriftFindings
  <2>2. QED
    BY <2>1
<1>14. ASSUME NEW d \in GrantDeviations(t)
       PROVE  r.alignment = "exception_approved" /\ Excused("drift", d)
  <2>1. PICK g : /\ d = <<t.principal, g.resource, g.permission, g.consent>>
                 /\ \/ g \in run.steady[<<"roles", t.principal>>]
                    \/ /\ g \in run.steady[<<"delegated", t.principal>>]
                       /\ \/ g.resource # Graph \/ g.consent \notin t.consents
                          \/ /\ g.permission # "User.Read"
                             /\ \A c \in t.contracts : g.permission \notin Manifest[c].scopes
    BY DEF GrantDeviations
  <2>2. CASE g \in run.steady[<<"roles", t.principal>>]
    BY <1>10, <1>11, <1>12, <2>1, <2>2
  <2>3. CASE g \notin run.steady[<<"roles", t.principal>>]
    <3>1. g \in got[<<"delegated", t.principal>>]
      BY <1>11, <2>1, <2>3
    <3>2. ~(Expected(t, g) /\ g.consent \in t.consents)
      BY <2>1, <2>3 DEF Expected, ExpectedScopes
    <3>3. QED
      BY <1>10, <1>13, <2>1, <3>1, <3>2
  <2>4. QED
    BY <2>2, <2>3
<1>15. ASSUME NEW c \in t.contracts, NEW s \in Manifest[c].scopes
       PROVE  s \in {g.permission : g \in got[<<"delegated", t.principal>>]}
  <2> DEFINE f == Finding("expected_missing", <<t.principal, Graph, s, None>>, "not_aligned")
  <2>1. s \in ExpectedScopes(t)
    BY DEF ExpectedScopes
  <2>2. f.alignment = "not_aligned"
    BY DEF Finding
  <2>3. f \notin Findings(t)
    BY <1>8, <2>2
  <2>4. ~\A g \in got[<<"delegated", t.principal>>] : ~(g.resource = Graph /\ g.permission = s)
    BY <2>1, <2>3 DEF DriftFindings
  <2>5. QED
    BY <2>4
<1>16. QED
  BY <1>14, <1>15

\* Aligned credentials, in the same way; what is about to expire is active or expired.
LEMMA CredentialsAreClean ==
    ASSUME EvidenceInv, [Next]_vars, "credentials" \in New
    PROVE  CleanCredentials
<1> DEFINE X == Unexpired(held.credentials.exceptions, now)
           got == run.got
           Findings(t) == CredentialFindings(t, got, X, now)
<1>1. /\ At(<<"conclude", "credentials">>) /\ Revalidated("credentials")
      /\ "credentials" \in Evaluations
      /\ nodes'["credentials"] = CredentialReport(held, got, now)
  BY NewReports DEF Made
<1>2. /\ file = held /\ held \in Documents /\ Loadable(held) /\ held.credentials # None
      /\ Applications(held.credentials.targets) \subseteq Runtime.applications
  BY <1>1, WhatIsAuthorized
<1>3. OneEach(held.credentials.targets, "application") /\ BaselinesValid(held)
  BY <1>2 DEF Loadable, PolicyValid, BaselinesValid
<1>4. SUFFICES ASSUME NEW t \in held.credentials.targets,
                      NEW r \in nodes'["credentials"].targets,
                      r.workload = ClientId[t.application], r.alignment # "not_aligned"
               PROVE  /\ \A d \in CredentialDeviations(t) :
                             r.alignment = "exception_approved" /\ Excused("credentials", d)
                      /\ r.alignment = "aligned" =>
                             Cardinality(run.got[<<"owners", t.application>>]) >= t.owners
  BY DEF CleanCredentials
<1>5. PICK u \in held.credentials.targets :
          r = [workload |-> ClientId[u.application], alignment |-> Overall(Findings(u))]
  BY <1>1 DEF CredentialReport
<1>6. u = t
  <2>1. ClientId[u.application] = ClientId[t.application]
    BY <1>4, <1>5
  <2>2. u.application \in Runtime.applications /\ t.application \in Runtime.applications
    BY <1>2 DEF Applications
  <2>3. u.application = t.application
    BY <2>1, <2>2, ClientIdAssumption
  <2>4. QED
    BY <1>3, <2>3 DEF OneEach
<1>7. r.alignment = Overall(Findings(t))
  BY <1>5, <1>6
<1>8. /\ \A f \in Findings(t) : f.alignment # "not_aligned"
      /\ \A f \in Findings(t) : f.alignment = "exception_approved" =>
                                    r.alignment = "exception_approved"
  BY <1>4, <1>7, OverallSays
<1>9. \A f \in Findings(t) : f \in CredentialReport(held, got, now).findings
  BY DEF CredentialReport
<1>10. /\ <<"application", t.application>> \in Sources /\ <<"owners", t.application>> \in Sources
       /\ run.steady[<<"application", t.application>>]
              \subseteq got[<<"application", t.application>>]
  <2>1. /\ <<"application", t.application>> \in EvidenceOfReport(held, "credentials")
        /\ <<"owners", t.application>> \in EvidenceOfReport(held, "credentials")
    BY DEF EvidenceOfReport
  <2>2. QED
    BY <1>1, <2>1, EverythingWasRead
<1>11. \A s \in Sources : got[s] \subseteq Records[s]
  BY <1>1 DEF At, EvidenceInv, TypesInv
<1>12. ASSUME NEW c \in got[<<"application", t.application>>], NEW control \in KeyControls,
              Breaches(control, t, c, now)
       PROVE  /\ r.alignment = "exception_approved"
              /\ Excused("credentials", <<t.application, c.kind, c.key>>)
  <2> DEFINE f == Finding(control, <<t.application, c.kind, c.key>>,
                          Verdict(CredentialExcused(t, control, <<c.kind, c.key>>, X)))
  <2>1. f \in Findings(t)
    <3> DEFINE Of(x) == {Finding(k, <<t.application, x.kind, x.key>>,
                                 Verdict(CredentialExcused(t, k, <<x.kind, x.key>>, X))) :
                            k \in {k \in KeyControls : Breaches(k, t, x, now)}}
    <3>1. f \in Of(c)
      BY <1>12
    <3>2. f \in UNION {Of(x) : x \in got[<<"application", t.application>>]}
      <4> HIDE DEF Of, f, got
      <4>1. QED
        BY <3>1
    <3>3. QED
      BY <3>2 DEF CredentialFindings
  <2>2. /\ f.subject = <<t.application, c.kind, c.key>>
        /\ f.alignment \in {"exception_approved", "not_aligned"}
    BY VerdictIsOneOfTwo DEF Finding
  <2>3. f.alignment = "exception_approved"
    BY <1>8, <2>1, <2>2
  <2>4. f \in CredentialReport(held, got, now).findings
    BY <1>9, <2>1
  <2> HIDE DEF f
  <2>5. InTime("credentials", held, now, f.subject)
    BY <1>2, <1>3, <2>3, <2>4, CredentialsExcuse
  <2>6. Excused("credentials", f.subject)
    BY <1>2, <2>5 DEF InTime, Excused
  <2>7. r.alignment = "exception_approved"
    BY <1>8, <2>1, <2>3
  <2>8. QED
    BY <2>2, <2>6, <2>7
<1>13. ASSUME NEW d \in CredentialDeviations(t)
       PROVE  r.alignment = "exception_approved" /\ Excused("credentials", d)
  <2>1. PICK c \in run.steady[<<"application", t.application>>] :
            /\ d = <<t.application, c.kind, c.key>>
            /\ \/ c.end = None
               \/ c.end <= now
               \/ c.end <= now + t.warning /\ (c.start = None \/ c.start <= now)
               \/ c.kind = "password" /\ ~t.passwords
    BY DEF CredentialDeviations
  <2>2. c \in got[<<"application", t.application>>]
    BY <1>10
  <2>3. c.end # None => c.end \in Nat
    BY <1>10, <1>11, <2>2, DocumentsAssumption DEF Sources
  <2>4. now \in Nat
    BY DEF EvidenceInv, TypesInv
  <2>5. CASE c.end = None
    <3>1. Breaches("no_expiry", t, c, now)
      BY <2>5 DEF Breaches
    <3>2. QED
      BY <1>12, <2>1, <2>2, <3>1 DEF KeyControls
  <2>6. CASE c.end # None /\ c.end <= now
    <3>1. Breaches("expired", t, c, now)
      BY <2>6 DEF Breaches
    <3>2. QED
      BY <1>12, <2>1, <2>2, <3>1 DEF KeyControls
  <2>7. CASE /\ c.end # None /\ ~(c.end <= now) /\ c.end <= now + t.warning
             /\ (c.start = None \/ c.start <= now)
    <3>1. c.end > now
      BY <2>3, <2>4, <2>7
    <3>2. ActiveAt(c, now)
      BY <2>7, <3>1 DEF ActiveAt
    <3>3. Breaches("expiring", t, c, now)
      BY <2>7, <3>2 DEF Breaches
    <3>4. QED
      BY <1>12, <2>1, <2>2, <3>3 DEF KeyControls
  <2>8. CASE c.kind = "password" /\ ~t.passwords
    <3>1. Breaches("password_prohibited", t, c, now)
      BY <2>8 DEF Breaches
    <3>2. QED
      BY <1>12, <2>1, <2>2, <3>1 DEF KeyControls
  <2>9. QED
    BY <2>1, <2>5, <2>6, <2>7, <2>8
<1>14. ASSUME r.alignment = "aligned"
       PROVE  Cardinality(got[<<"owners", t.application>>]) >= t.owners
  <2> DEFINE owners == got[<<"owners", t.application>>]
             f == Finding("owner_count", <<t.application>>,
                          Verdict(CredentialExcused(t, "owner_count", None, X)))
  <2>1. f.alignment \in {"exception_approved", "not_aligned"}
    BY VerdictIsOneOfTwo DEF Finding
  <2>2. f \notin Findings(t)
    BY <1>8, <1>14, <2>1
  <2>3. "owner_count" \notin BrokenControls(t, got, now)
    BY <2>2 DEF CredentialFindings
  <2>4. ~(Cardinality(owners) < t.owners)
    BY <2>3 DEF BrokenControls, ApplicationControls
  <2>5. owners \subseteq Records[<<"owners", t.application>>]
    BY <1>10, <1>11
  <2>6. IsFiniteSet(Records[<<"owners", t.application>>])
    BY <1>10, EvidenceAssumption DEF Sources
  <2>7. Cardinality(owners) \in Nat
    BY <2>5, <2>6, FS_Subset, FS_CardinalityType
  <2>8. t.owners \in Nat
    BY <1>2, DocumentsAssumption
  <2>9. QED
    BY <2>4, <2>7, <2>8
<1>15. QED
  BY <1>13, <1>14

\* "aligned" can be relied on: a target reported so had no deviation that was there all along,
\* and one reported as excepted none without an exception in force; it has the scopes its
\* contracts need and the owners it must have.
THEOREM AlignedTenantsAreClean == Spec => AlignedTenantIsClean
<1>1. EvidenceInv /\ [Next]_vars =>
          [("drift" \in New => CleanGrants) /\ ("credentials" \in New => CleanCredentials)]_vars
  BY GrantsAreClean, CredentialsAreClean
<1>2. QED
  BY <1>1, EvidenceIsInvariant, PTL DEF Spec, AlignedTenantIsClean

-----------------------------------------------------------------------------
(***************************************************************************)
(* What the reports of the nodes are still worth when the playbook and the *)
(* debt evaluation conclude: their sources are not read again, so that     *)
(* what was there all along is what they were concluded from.              *)
(***************************************************************************)

\* Every step after a y in q is one of Z.
OnlyAfter(q, y, Z) == \A i, j \in 1..Len(q) : i < j /\ q[i] = y => q[j] \in Z

\* After a step that does not occur comes anything.
LEMMA AbsentOnlyAfter ==
    ASSUME NEW q, NEW y, ~Occurs(q, y), NEW Z
    PROVE  OnlyAfter(q, y, Z)
BY DEF Occurs, OnlyAfter

\* In two sequences in a row the second comes after what occurs in the first.
LEMMA OnlyAfterInBoth ==
    ASSUME NEW S, NEW a \in Seq(S), NEW b \in Seq(S), NEW y, NEW Z,
           OnlyAfter(a, y, Z), OnlyAfter(b, y, Z),
           ~Occurs(a, y) \/ \A x : Occurs(b, x) => x \in Z
    PROVE  OnlyAfter(a \o b, y, Z)
<1> DEFINE q == a \o b
<1>1. /\ q \in Seq(S) /\ Len(q) = Len(a) + Len(b) /\ Len(a) \in Nat /\ Len(b) \in Nat
      /\ \A k \in 1..Len(q) : q[k] = IF k <= Len(a) THEN a[k] ELSE b[k - Len(a)]
  OBVIOUS
<1> HIDE DEF q
<1>2. SUFFICES ASSUME NEW i \in 1..Len(q), NEW j \in 1..Len(q), i < j, q[i] = y
               PROVE  q[j] \in Z
  BY DEF OnlyAfter, q
<1>3. CASE j <= Len(a)
  <2>1. i \in 1..Len(a) /\ j \in 1..Len(a) /\ i <= Len(a)
    BY <1>1, <1>2, <1>3
  <2>2. a[i] = y /\ q[j] = a[j]
    BY <1>1, <1>2, <1>3, <2>1
  <2>3. QED
    BY <1>2, <2>1, <2>2 DEF OnlyAfter
<1>4. CASE ~(j <= Len(a))
  <2> DEFINE m == j - Len(a)
  <2>1. m \in 1..Len(b)
    BY <1>1, <1>4
  <2>2. q[j] = b[m]
    BY <1>1, <1>4
  <2>3. CASE i <= Len(a)
    <3>1. i \in 1..Len(a) /\ a[i] = y
      BY <1>1, <1>2, <2>3
    <3>2. Occurs(a, y) /\ Occurs(b, b[m])
      BY <2>1, <3>1 DEF Occurs
    <3>3. QED
      BY <2>2, <3>2
  <2>4. CASE ~(i <= Len(a))
    <3> DEFINE n == i - Len(a)
    <3>1. n \in 1..Len(b) /\ n < m
      BY <1>1, <1>2, <2>4
    <3>2. b[n] = y
      BY <1>1, <1>2, <2>4
    <3> HIDE DEF n, m
    <3>3. QED
      BY <2>1, <2>2, <3>1, <3>2 DEF OnlyAfter
  <2>5. QED
    BY <2>3, <2>4
<1>5. QED
  BY <1>3, <1>4

\* An evaluation adds its conclusion to what comes after a step.
LEMMA OnlyAfterInEvaluation ==
    ASSUME NEW S, NEW c, <<"authorize", c>> \in S, <<"conclude", c>> \in S, NEW steps \in Seq(S),
           NEW q, q = Evaluation(c, steps), NEW y, NEW Z, OnlyAfter(steps, y, Z),
           y # <<"authorize", c>>, ~Occurs(steps, y) \/ <<"conclude", c>> \in Z
    PROVE  OnlyAfter(q, y, Z)
<1> DEFINE first == <<<<"authorize", c>>>>
           last == <<<<"conclude", c>>>>
           some == first \o steps
<1>1. /\ first \in Seq(S) /\ last \in Seq(S) /\ Len(first) = 1 /\ Len(last) = 1
      /\ \A x : Occurs(first, x) <=> x = <<"authorize", c>>
      /\ \A x : Occurs(last, x) <=> x = <<"conclude", c>>
  BY DEF Occurs
<1>2. q = some \o last
  BY DEF Evaluation
<1> HIDE DEF first, last
<1>3. OnlyAfter(first, y, Z) /\ OnlyAfter(last, y, Z)
  BY <1>1 DEF OnlyAfter
<1>4. OnlyAfter(some, y, Z)
  BY <1>1, <1>3, OnlyAfterInBoth
<1>5. /\ some \in Seq(S)
      /\ \A x : Occurs(some, x) <=> x = <<"authorize", c>> \/ Occurs(steps, x)
  BY <1>1, OccursInEither
<1> HIDE DEF some
<1>6. QED
  BY <1>1, <1>2, <1>3, <1>4, <1>5, OnlyAfterInBoth

\* Nothing comes after the conclusion of an evaluation that concludes nothing else.
LEMMA OneCloses ==
    ASSUME NEW p, NEW c \in Evaluations, NEW steps \in Seq(StepSet(p)),
           ~Occurs(steps, <<"conclude", c>>), NEW q, q = Evaluation(c, steps), NEW Z
    PROVE  OnlyAfter(q, <<"conclude", c>>, Z)
<1>1. <<"authorize", c>> \in StepSet(p) /\ <<"conclude", c>> \in StepSet(p)
  BY DEF StepSet
<1>2. OnlyAfter(steps, <<"conclude", c>>, Z)
  BY AbsentOnlyAfter
<1>3. <<"conclude", c>> # <<"authorize", c>>
  OBVIOUS
<1>4. QED
  BY <1>1, <1>2, <1>3, OnlyAfterInEvaluation

\* What is done first is no longer after anything; what is left is after it.
LEMMA TailOnlyAfter ==
    ASSUME NEW S, NEW q \in Seq(S), q # <<>>, NEW y, NEW Z, OnlyAfter(q, y, Z)
    PROVE  /\ OnlyAfter(Tail(q), y, Z)
           /\ \A x : Occurs(Tail(q), x) => Occurs(q, x)
           /\ Head(q) = y => \A x : Occurs(Tail(q), x) => x \in Z
<1>1. /\ Len(q) \in Nat \ {0} /\ Head(q) = q[1] /\ Len(Tail(q)) = Len(q) - 1
      /\ \A k \in 1..Len(Tail(q)) : Tail(q)[k] = q[k + 1]
  OBVIOUS
<1>2. \A k \in 1..Len(Tail(q)) : k + 1 \in 1..Len(q) /\ 1 < k + 1 /\ 1 \in 1..Len(q)
  BY <1>1
<1>3. \A i, j \in 1..Len(Tail(q)) : i < j => i + 1 < j + 1
  BY <1>1
<1>4. OnlyAfter(Tail(q), y, Z)
  BY <1>1, <1>2, <1>3 DEF OnlyAfter
<1>5. ASSUME NEW x, Occurs(Tail(q), x)
      PROVE  Occurs(q, x) /\ (Head(q) = y => x \in Z)
  <2>1. PICK k \in 1..Len(Tail(q)) : Tail(q)[k] = x
    BY <1>5 DEF Occurs
  <2>2. k + 1 \in 1..Len(q) /\ q[k + 1] = x /\ 1 < k + 1 /\ 1 \in 1..Len(q)
    BY <1>1, <1>2, <2>1
  <2>3. Occurs(q, x)
    BY <2>2 DEF Occurs
  <2>4. Head(q) = y => x \in Z
    BY <1>1, <2>2 DEF OnlyAfter
  <2>5. QED
    BY <2>3, <2>4
<1>6. QED
  BY <1>4, <1>5

\* What a call c may still have to do once it has concluded node k.
Afterwards(p, c, k) ==
    IF k = "drift" THEN {<<"conclude", c>>}
    ELSE {x \in StepSet(p) : /\ x # <<"conclude", "credentials">>
                             /\ \A s \in Rests(p, "credentials") : x # Read(s)}

\* The playbook reads the sources of a node before it and only there.
LEMMA PlaybookReadsOnce ==
    ASSUME NEW p \in Documents, NEW k \in {"drift", "credentials"}
    PROVE  OnlyAfter(Steps(p, "readiness"), <<"conclude", k>>, Afterwards(p, "readiness", k))
<1> DEFINE S == StepSet(p)
           a == Evaluation("credentials", CredentialSteps(p))
           b == Evaluation("drift", DriftSteps(p))
           both == a \o b
           q == Evaluation("readiness", both)
           y == <<"conclude", k>>
           end == <<"conclude", "readiness">>
           Z == Afterwards(p, "readiness", k)
<1>1. /\ a \in Seq(S) /\ b \in Seq(S)
      /\ \A x : Occurs(a, <<"conclude", x>>) <=> x = "credentials"
      /\ \A x : Occurs(b, <<"conclude", x>>) <=> x = "drift"
  BY DriftIsOrdered, CredentialsAreOrdered DEF Ordered
<1>2. /\ CredentialSteps(p) \in Seq(S) /\ DriftSteps(p) \in Seq(S)
      /\ ~Occurs(CredentialSteps(p), <<"conclude", "credentials">>)
      /\ ~Occurs(DriftSteps(p), <<"conclude", "drift">>)
  BY CredentialStepsAre, DriftStepsAre DEF Read
<1>3. end \in Z
  <2>1. end \in StepSet(p) /\ \A s : end # Read(s)
    BY DEF StepSet, Evaluations, Read
  <2>2. end # <<"conclude", "credentials">>
    OBVIOUS
  <2>3. QED
    BY <2>1, <2>2 DEF Afterwards
<1>4. <<"authorize", "readiness">> \in S /\ end \in S /\ y # <<"authorize", "readiness">>
  BY DEF StepSet, Evaluations
<1>5. OnlyAfter(a, y, Z) /\ OnlyAfter(b, y, Z)
  <2>1. CASE k = "drift"
    BY <1>1, <1>2, <2>1, AbsentOnlyAfter, OneCloses DEF Evaluations
  <2>2. CASE k = "credentials"
    BY <1>1, <1>2, <2>2, AbsentOnlyAfter, OneCloses DEF Evaluations
  <2>3. QED
    BY <2>1, <2>2
<1>6. ~Occurs(a, y) \/ \A x : Occurs(b, x) => x \in Z
  <2>1. CASE k = "drift"
    BY <1>1, <2>1
  <2>2. CASE k = "credentials"
    <3>1. ASSUME NEW x, Occurs(b, x)
          PROVE  x \in Z
      <4>1. x \in S
        BY <1>1, <3>1 DEF Occurs
      <4>2. /\ <<"authorize", "drift">> \in S /\ <<"conclude", "drift">> \in S
        BY DEF StepSet, Evaluations
      <4>3. \/ x \in {<<"authorize", "drift">>, <<"conclude", "drift">>}
            \/ Occurs(DriftSteps(p), x)
        BY <1>2, <3>1, <4>2, EvaluationSteps
      <4>4. \/ x \in {<<"authorize", "drift">>, <<"conclude", "drift">>}
            \/ \E w : x \in {Read(<<"delegated", w>>), Read(<<"roles", w>>), <<"catalogs", w>>}
        BY <4>3, DriftStepsAre
      <4>5. \A s \in Rests(p, "credentials") : s[1] \in {"application", "owners"}
        BY DEF Rests, EvidenceOfReport
      <4>6. x # <<"conclude", "credentials">> /\ \A s \in Rests(p, "credentials") : x # Read(s)
        BY <4>4, <4>5 DEF Read
      <4>7. QED
        BY <2>2, <4>1, <4>6 DEF Afterwards
    <3>2. QED
      BY <3>1
  <2>3. QED
    BY <2>1, <2>2
<1> HIDE DEF a, b, y, Z
<1>7. both \in Seq(S) /\ OnlyAfter(both, y, Z)
  BY <1>1, <1>5, <1>6, OccursInEither, OnlyAfterInBoth
<1> HIDE DEF both, S
<1>8. OnlyAfter(q, y, Z)
  BY <1>3, <1>4, <1>7, OnlyAfterInEvaluation
<1>9. Steps(p, "readiness") = q
  BY DEF Steps, OrderedNodes, both, a, b
<1>10. QED
  BY <1>8, <1>9 DEF y, Z

\* So does the debt evaluation.
LEMMA DebtReadsOnce ==
    ASSUME NEW p \in Documents, NEW k \in {"drift", "credentials"}
    PROVE  OnlyAfter(Steps(p, "debt"), <<"conclude", k>>, Afterwards(p, "debt", k))
<1> DEFINE S == StepSet(p)
           first == <<Read(<<"token">>)>>
           a == Evaluation("drift", DriftSteps(p))
           both == first \o a
           q == Evaluation("debt", both)
           end == <<"conclude", "debt">>
           y == <<"conclude", "drift">>
           Z == {end}
<1>1. Steps(p, "debt") = q
  BY DEF Steps
<1>2. CASE k = "credentials"
  BY <1>1, <1>2, DebtIsOrdered, AbsentOnlyAfter
<1>3. CASE k = "drift"
  <2>1. a \in Seq(S) /\ DriftSteps(p) \in Seq(S) /\ ~Occurs(DriftSteps(p), y)
    BY DriftIsOrdered, DriftStepsAre DEF Ordered, Read
  <2>2. OnlyAfter(a, y, Z)
    BY <2>1, OneCloses DEF Evaluations
  <2>3. first \in Seq(S) /\ ~Occurs(first, y)
    <3>1. Read(<<"token">>) \in S
      BY DEF StepSet, Read
    <3>2. first \in Seq(S) /\ Len(first) = 1 /\ first[1] = Read(<<"token">>)
      BY <3>1
    <3>3. QED
      BY <3>2 DEF Occurs, Read
  <2>4. /\ <<"authorize", "debt">> \in S /\ end \in S /\ y # <<"authorize", "debt">>
        /\ end \in Z
    BY DEF StepSet, Evaluations
  <2> HIDE DEF first, a, y, Z
  <2>5. both \in Seq(S) /\ OnlyAfter(both, y, Z)
    BY <2>1, <2>2, <2>3, AbsentOnlyAfter, OccursInEither, OnlyAfterInBoth
  <2> HIDE DEF both, S
  <2>6. OnlyAfter(q, y, Z)
    BY <2>4, <2>5, OnlyAfterInEvaluation
  <2>7. QED
    BY <1>1, <1>3, <2>6 DEF Afterwards, y, Z, both, first, a
<1>4. QED
  BY <1>2, <1>3

\* A target of the report is one of the policy, and what it is called is still so.
GrantsWorth ==
    /\ held.drift # None
    /\ \A r \in nodes["drift"].targets : \E t \in held.drift.targets :
          /\ ClientId[t.principal] = r.workload
          /\ r.alignment # "not_aligned" => Allows(r.alignment, "drift", GrantDeviations(t))

CredentialsWorth ==
    /\ held.credentials # None
    /\ \A r \in nodes["credentials"].targets : \E t \in held.credentials.targets :
          /\ ClientId[t.application] = r.workload
          /\ r.alignment # "not_aligned" => Allows(r.alignment, "credentials", LastingDeviations(t))

\* The node that has been concluded is read no more and has kept its worth.
NodeWorth(k) ==
    /\ \A x : Occurs(run.todo, x) => x \in Afterwards(held, run.evaluation, k)
    /\ Rests(held, k) \subseteq Sources
    /\ k = "drift" => GrantsWorth
    /\ k = "credentials" => CredentialsWorth

StillWorth ==
    run # None /\ run.evaluation \in {"readiness", "debt"} =>
        \A k \in {"drift", "credentials"} :
            /\ OnlyAfter(run.todo, <<"conclude", k>>, Afterwards(held, run.evaluation, k))
            /\ k \in DOMAIN nodes => NodeWorth(k)

\* The worth of a node is that of what was read for it.
LEMMA WorthLasts ==
    ASSUME NEW k \in {"drift", "credentials"}, NodeWorth(k), held' = held, nodes'[k] = nodes[k],
           \A s \in Rests(held, k) : run'.steady[s] = run.steady[s]
    PROVE  /\ k = "drift" => GrantsWorth'
           /\ k = "credentials" => CredentialsWorth'
<1>1. CASE k = "drift"
  <2>1. GrantsWorth
    BY <1>1 DEF NodeWorth
  <2>2. ASSUME NEW t \in held.drift.targets
        PROVE  GrantDeviations(t)' = GrantDeviations(t)
    <3>1. /\ <<"roles", t.principal>> \in Rests(held, "drift")
          /\ <<"delegated", t.principal>> \in Rests(held, "drift")
      BY <2>1 DEF GrantsWorth, Rests, EvidenceOfReport
    <3>2. /\ run'.steady[<<"roles", t.principal>>] = run.steady[<<"roles", t.principal>>]
          /\ run'.steady[<<"delegated", t.principal>>] = run.steady[<<"delegated", t.principal>>]
      BY <1>1, <3>1
    <3>3. QED
      BY <3>2 DEF GrantDeviations
  <2>3. ASSUME NEW alignment, NEW t \in held.drift.targets,
               Allows(alignment, "drift", GrantDeviations(t))
        PROVE  Allows(alignment, "drift", GrantDeviations(t))'
    BY <2>2, <2>3 DEF Allows
  <2>4. QED
    BY <1>1, <2>1, <2>3 DEF GrantsWorth
<1>2. CASE k = "credentials"
  <2>1. CredentialsWorth
    BY <1>2 DEF NodeWorth
  <2>2. ASSUME NEW t \in held.credentials.targets
        PROVE  LastingDeviations(t)' = LastingDeviations(t)
    <3>1. <<"application", t.application>> \in Rests(held, "credentials")
      BY <2>1 DEF CredentialsWorth, Rests, EvidenceOfReport
    <3>2. run'.steady[<<"application", t.application>>] = run.steady[<<"application", t.application>>]
      BY <1>2, <3>1
    <3>3. QED
      BY <3>2 DEF LastingDeviations
  <2>3. ASSUME NEW alignment, NEW t \in held.credentials.targets,
               Allows(alignment, "credentials", LastingDeviations(t))
        PROVE  Allows(alignment, "credentials", LastingDeviations(t))'
    BY <2>2, <2>3 DEF Allows
  <2>4. QED
    BY <1>2, <2>1, <2>3 DEF CredentialsWorth
<1>3. QED
  BY <1>1, <1>2

\* A step that concludes nothing takes away nothing.
LEMMA WorthGoesOn ==
    ASSUME EvidenceInv, StillWorth, run # None, held' = held, nodes' = nodes,
           run'.evaluation = run.evaluation, run'.todo \in {run.todo, Tail(run.todo)},
           \A s \in Sources : Head(run.todo) # Read(s) /\ s[1] # "catalog" =>
               run'.steady[s] = run.steady[s]
    PROVE  StillWorth'
<1>1. SUFFICES ASSUME run.evaluation \in {"readiness", "debt"}, NEW k \in {"drift", "credentials"}
               PROVE  /\ OnlyAfter(run.todo, <<"conclude", k>>,
                                   Afterwards(held, run.evaluation, k))'
                      /\ k \in DOMAIN nodes' => NodeWorth(k)'
  BY DEF StillWorth
<1> DEFINE q == run.todo
           Z == Afterwards(held, run.evaluation, k)
<1>2. q \in Seq(StepSet(held)) /\ q # <<>>
  BY AtTheHead DEF EvidenceInv
<1>3. OnlyAfter(q, <<"conclude", k>>, Z) /\ (k \in DOMAIN nodes => NodeWorth(k))
  BY <1>1 DEF StillWorth
<1>4. Afterwards(held, run.evaluation, k)' = Z
  BY DEF Afterwards, StepSet, Rests, EvidenceOfReport
<1> HIDE DEF Z, q
<1>5. /\ OnlyAfter(run'.todo, <<"conclude", k>>, Z)
      /\ \A x : Occurs(run'.todo, x) => Occurs(q, x)
  BY <1>2, <1>3, TailOnlyAfter DEF q
<1>6. ASSUME k \in DOMAIN nodes
      PROVE  NodeWorth(k)'
  <2>1. /\ \A x : Occurs(q, x) => x \in Z
        /\ Rests(held, k) \subseteq Sources
    BY <1>3, <1>6 DEF NodeWorth, q, Z
  <2>2. Occurs(q, Head(q))
    <3>1. 1 \in 1..Len(q) /\ q[1] = Head(q)
      BY <1>2
    <3>2. QED
      BY <3>1 DEF Occurs
  <2>3. ASSUME NEW s \in Rests(held, k)
        PROVE  Head(q) # Read(s) /\ s[1] # "catalog"
    <3>1. s[1] # "catalog"
      BY DEF Rests, EvidenceOfReport
    <3>2. Head(q) \in Z
      BY <2>1, <2>2
    <3>3. CASE k = "drift"
      BY <3>1, <3>2, <3>3 DEF Z, Afterwards, Read
    <3>4. CASE k = "credentials"
      BY <3>1, <3>2, <3>4 DEF Z, Afterwards
    <3>5. QED
      BY <3>3, <3>4
  <2>4. \A s \in Rests(held, k) : run'.steady[s] = run.steady[s]
    BY <2>1, <2>3 DEF q
  <2>5. /\ k = "drift" => GrantsWorth'
        /\ k = "credentials" => CredentialsWorth'
    BY <1>3, <1>6, <2>4, WorthLasts
  <2>6. \A x : Occurs(run'.todo, x) => x \in Z
    BY <1>5, <2>1
  <2>7. Rests(held, k)' \subseteq Sources
    BY <2>1 DEF Rests, EvidenceOfReport
  <2>8. QED
    BY <1>4, <2>5, <2>6, <2>7 DEF NodeWorth, Sources
<1>7. QED
  BY <1>4, <1>5, <1>6

\* What the grant evaluation concludes is so when it concludes.
LEMMA GrantsAreWorth ==
    ASSUME EvidenceInv, [Next]_vars, "drift" \in New, held' = held, run'.steady = run.steady
    PROVE  GrantsWorth'
<1>1. /\ nodes'["drift"] = DriftReport(held, run.got, now)
      /\ file = held /\ held.drift # None
  BY NewReports, WhatIsAuthorized DEF Made
<1>2. CleanGrants
  BY GrantsAreClean
<1>3. ASSUME NEW r \in nodes'["drift"].targets
      PROVE  \E t \in held.drift.targets :
                /\ ClientId[t.principal] = r.workload
                /\ r.alignment # "not_aligned" => Allows(r.alignment, "drift", GrantDeviations(t))
  <2>1. PICK t \in held.drift.targets : r.workload = ClientId[t.principal]
    BY <1>1, <1>3 DEF DriftReport
  <2>2. ASSUME r.alignment # "not_aligned"
        PROVE  Allows(r.alignment, "drift", GrantDeviations(t))
    <3>1. \A d \in GrantDeviations(t) : r.alignment = "exception_approved" /\ Excused("drift", d)
      BY <1>2, <1>3, <2>1, <2>2 DEF CleanGrants
    <3>2. \A d \in GrantDeviations(t) :
              d \in {SubjectOf("drift", x) : x \in ExceptionsOf(held, "drift")}
      BY <1>1, <3>1 DEF Excused
    <3>3. QED
      BY <3>1, <3>2 DEF Allows
  <2>3. QED
    BY <2>1, <2>2
<1>4. \A t : GrantDeviations(t)' = GrantDeviations(t)
  BY DEF GrantDeviations
<1>5. \A alignment, t : Allows(alignment, "drift", GrantDeviations(t)) =>
                            Allows(alignment, "drift", GrantDeviations(t))'
  BY <1>4 DEF Allows
<1>6. QED
  BY <1>1, <1>3, <1>5 DEF GrantsWorth

\* And what the credential evaluation concludes, of what time does not bring about.
LEMMA CredentialsAreWorth ==
    ASSUME EvidenceInv, [Next]_vars, "credentials" \in New, held' = held,
           run'.steady = run.steady
    PROVE  CredentialsWorth'
<1>1. /\ nodes'["credentials"] = CredentialReport(held, run.got, now)
      /\ file = held /\ held.credentials # None
  BY NewReports, WhatIsAuthorized DEF Made
<1>2. CleanCredentials
  BY CredentialsAreClean
<1>3. ASSUME NEW r \in nodes'["credentials"].targets
      PROVE  \E t \in held.credentials.targets :
                /\ ClientId[t.application] = r.workload
                /\ r.alignment # "not_aligned" =>
                      Allows(r.alignment, "credentials", LastingDeviations(t))
  <2>1. PICK t \in held.credentials.targets : r.workload = ClientId[t.application]
    BY <1>1, <1>3 DEF CredentialReport
  <2>2. ASSUME r.alignment # "not_aligned"
        PROVE  Allows(r.alignment, "credentials", LastingDeviations(t))
    <3>1. \A d \in CredentialDeviations(t) :
              r.alignment = "exception_approved" /\ Excused("credentials", d)
      BY <1>2, <1>3, <2>1, <2>2 DEF CleanCredentials
    <3>2. LastingDeviations(t) \subseteq CredentialDeviations(t)
      BY DEF LastingDeviations, CredentialDeviations
    <3>3. \A d \in LastingDeviations(t) :
              d \in {SubjectOf("credentials", x) : x \in ExceptionsOf(held, "credentials")}
      BY <1>1, <3>1, <3>2 DEF Excused
    <3>4. QED
      BY <3>1, <3>2, <3>3 DEF Allows
  <2>3. QED
    BY <2>1, <2>2
<1>4. \A t : LastingDeviations(t)' = LastingDeviations(t)
  BY DEF LastingDeviations
<1>5. \A alignment, t : Allows(alignment, "credentials", LastingDeviations(t)) =>
                            Allows(alignment, "credentials", LastingDeviations(t))'
  BY <1>4 DEF Allows
<1>6. QED
  BY <1>1, <1>3, <1>5 DEF CredentialsWorth

\* The node that concludes is worth what it says; the other keeps its worth.
LEMMA NodeKeepsTheWorth ==
    ASSUME EvidenceInv, StillWorth, [Next]_vars, NEW c \in Evaluations, At(<<"conclude", c>>),
           c # run.evaluation, run' = Done(run), held' = held, NEW report,
           nodes' = Reported(c, report)
    PROVE  StillWorth'
<1> DEFINE q == run.todo
           Z(k) == Afterwards(held, run.evaluation, k)
<1>1. /\ run # None /\ run \in Runs(held) /\ q \in Seq(StepSet(held)) /\ q # <<>>
      /\ Head(q) = <<"conclude", c>>
  BY AtTheHead DEF At, EvidenceInv
<1>2. /\ c \in {"drift", "credentials"} /\ run.evaluation \in {"readiness", "debt"}
      /\ \A s \in Rests(held, c) : s \in Sources
  BY WhereItConcludes DEF EvidenceInv
<1>3. /\ run'.todo = Tail(q) /\ run'.evaluation = run.evaluation /\ run'.steady = run.steady
  BY <1>1, DoneFields
<1>4. \A k \in {"drift", "credentials"} :
          /\ OnlyAfter(q, <<"conclude", k>>, Z(k))
          /\ k \in DOMAIN nodes => NodeWorth(k)
  BY <1>1, <1>2 DEF StillWorth
<1>5. c \notin DOMAIN nodes
  <2>1. Occurs(q, <<"conclude", c>>)
    <3>1. 1 \in 1..Len(q) /\ q[1] = Head(q)
      BY <1>1
    <3>2. QED
      BY <1>1, <3>1 DEF Occurs
  <2>2. <<"conclude", c>> \notin Z(c)
    BY <1>2 DEF Afterwards
  <2>3. QED
    BY <1>2, <1>4, <2>1, <2>2 DEF NodeWorth
<1>6. /\ c \in New /\ DOMAIN nodes' = DOMAIN nodes \cup {c}
      /\ \A x \in DOMAIN nodes : x # c => nodes'[x] = nodes[x]
  BY <1>5, ReportedNodes DEF New, Reported
<1>7. \A k : Afterwards(held, run.evaluation, k)' = Z(k) /\ Rests(held, k)' = Rests(held, k)
  BY <1>3 DEF Afterwards, StepSet, Rests, EvidenceOfReport
<1> HIDE DEF q, Z
<1>8. ASSUME NEW k \in {"drift", "credentials"}
      PROVE  /\ OnlyAfter(Tail(q), <<"conclude", k>>, Z(k))
             /\ \A x : Occurs(Tail(q), x) => Occurs(q, x)
             /\ k = c => \A x : Occurs(Tail(q), x) => x \in Z(k)
  BY <1>1, <1>4, TailOnlyAfter
<1>9. ASSUME NEW k \in {"drift", "credentials"}, k \in DOMAIN nodes'
      PROVE  NodeWorth(k)'
  <2>1. CASE k = c
    <3>1. /\ k = "drift" => GrantsWorth'
          /\ k = "credentials" => CredentialsWorth'
      BY <1>3, <1>6, <2>1, GrantsAreWorth, CredentialsAreWorth
    <3>2. QED
      BY <1>2, <1>3, <1>7, <1>8, <2>1, <3>1 DEF NodeWorth, Sources
  <2>2. CASE k # c
    <3>1. k \in DOMAIN nodes /\ nodes'[k] = nodes[k] /\ NodeWorth(k)
      BY <1>4, <1>6, <1>9, <2>2
    <3>2. /\ k = "drift" => GrantsWorth'
          /\ k = "credentials" => CredentialsWorth'
      BY <1>3, <3>1, WorthLasts
    <3>3. /\ \A x : Occurs(Tail(q), x) => x \in Z(k)
          /\ Rests(held, k) \subseteq Sources
      BY <1>8, <3>1 DEF NodeWorth, q, Z
    <3>4. QED
      BY <1>3, <1>7, <3>2, <3>3 DEF NodeWorth, Sources
  <2>3. QED
    BY <2>1, <2>2
<1>10. QED
  BY <1>3, <1>7, <1>8, <1>9 DEF StillWorth

\* A conclusion keeps it, whatever it concludes.
LEMMA ConcludingKeepsTheWorth ==
    ASSUME EvidenceInv, StillWorth, [Next]_vars, NEW c \in Evaluations, NEW report, NEW outcome,
           Conclude(c, report, outcome)
    PROVE  StillWorth'
<1>1. CASE run' = None
  BY <1>1 DEF StillWorth
<1>2. CASE run' # None
  <2>1. /\ At(<<"conclude", c>>) /\ c # run.evaluation /\ run' = Done(run) /\ held' = held
        /\ nodes' = Reported(c, report)
    BY <1>2, RaiseStops DEF Conclude, Stops
  <2>2. QED
    BY <2>1, NodeKeepsTheWorth
<1>3. QED
  BY <1>1, <1>2

\* A change of the tenant takes away only what is being read.
LEMMA ChangeKeepsTheWorth ==
    ASSUME EvidenceInv, StillWorth, NEW s \in Sources, NEW x \in Records[s], Change(s, x)
    PROVE  StillWorth'
<1>1. /\ run' = IF run # None /\ Head(run.todo) = <<"read", s>>
                THEN [run EXCEPT !.steady[s] = run.steady[s] \ {x}] ELSE run
      /\ UNCHANGED <<held, nodes>>
  BY DEF Change
<1>2. CASE run = None
  BY <1>1, <1>2 DEF StillWorth
<1>3. CASE run # None
  <2>1. run \in Runs(held)
    BY <1>3, AtTheHead DEF EvidenceInv
  <2> DEFINE there == run.steady[s] \ {x}
  <2>2. \/ run' = run
        \/ Head(run.todo) = Read(s) /\ run' = [run EXCEPT !.steady[s] = there]
    BY <1>1 DEF Read
  <2> HIDE DEF there
  <2>3. /\ run'.evaluation = run.evaluation /\ run'.todo = run.todo
        /\ \A y \in Sources : Head(run.todo) # Read(y) => run'.steady[y] = run.steady[y]
    BY <2>1, <2>2 DEF Runs
  <2>4. QED
    BY <1>1, <1>3, <2>3, WorthGoesOn
<1>4. QED
  BY <1>2, <1>3

\* Every step keeps it.
LEMMA StepKeepsTheWorth ==
    ASSUME EvidenceInv, StillWorth, [Next]_vars
    PROVE  StillWorth'
<1>1. CASE run' = None
  BY <1>1 DEF StillWorth
<1>2. CASE UNCHANGED <<run, held, nodes>>
  <2>1. CASE run # None
    BY <1>2, <2>1, WorthGoesOn
  <2>2. QED
    BY <1>1, <1>2, <2>1
<1>3. CASE \E s \in Sources : \E r \in Records[s] : Change(s, r)
  BY <1>3, ChangeKeepsTheWorth
<1>4. CASE \E c \in Evaluations : Begin(c)
  <2>1. PICK c \in Evaluations : Begin(c)
    BY <1>4
  <2>2. /\ run'.evaluation = c /\ run'.todo = Steps(held, c) /\ held' = held
        /\ nodes' = NoNodes
    BY <2>1 DEF Begin
  <2>3. held \in Documents /\ DOMAIN nodes' = {}
    BY <2>2 DEF EvidenceInv, TypesInv, Usable, NoNodes
  <2>4. ASSUME c \in {"readiness", "debt"}, NEW k \in {"drift", "credentials"}
        PROVE  OnlyAfter(Steps(held, c), <<"conclude", k>>, Afterwards(held, c, k))
    BY <2>3, <2>4, PlaybookReadsOnce, DebtReadsOnce
  <2>5. \A k : Afterwards(held, run.evaluation, k)' = Afterwards(held, c, k)
    BY <2>2 DEF Afterwards, StepSet, Rests, EvidenceOfReport
  <2>6. QED
    BY <2>2, <2>3, <2>4, <2>5 DEF StillWorth
<1>5. CASE Reading
  <2>1. CASE \E r : Reads(r) /\ Advance(r)
    <3>1. PICK r : Reads(r) /\ Advance(r)
      BY <2>1
    <3>2. /\ run # None /\ run' = r /\ held' = held /\ nodes' = nodes
      BY <1>5, <3>1, ReadingStartsARun DEF Advance
    <3>3. /\ r.evaluation = run.evaluation /\ r.todo \in {run.todo, Tail(run.todo)}
          /\ \A s \in Sources : Head(run.todo) # Read(s) /\ s[1] # "catalog" =>
                 r.steady[s] = run.steady[s]
      BY <3>1 DEF Reads
    <3>4. QED
      BY <3>2, <3>3, WorthGoesOn
  <2>2. QED
    BY <1>1, <1>5, <2>1, ReadingReads DEF EvidenceInv, Stops
<1>6. CASE ConcludeDrift \/ ConcludeCredentials \/ ConcludePosture
  BY <1>6, ConcludingKeepsTheWorth
     DEF ConcludeDrift, ConcludeCredentials, ConcludePosture, Evaluations
<1>7. CASE \E available \in BOOLEAN : ConcludeDebt(available)
  BY <1>7, ConcludingKeepsTheWorth DEF ConcludeDebt, Evaluations
<1>8. CASE ConcludeReadiness
  BY <1>1, <1>8 DEF ConcludeReadiness, Refuse
<1>9. QED
  BY <1>1, <1>2, <1>3, <1>4, <1>5, <1>6, <1>7, <1>8
     DEF Next, Step, Reading, Tick, ReplacePolicy, Restart, vars

\* What concluded is worth what it says until its call ends.
LEMMA WorthIsInvariant == Spec => []StillWorth
<1>1. Init => StillWorth
  BY DEF Init, StillWorth
<1>2. EvidenceInv /\ StillWorth /\ [Next]_vars => StillWorth'
  BY StepKeepsTheWorth
<1>3. QED
  BY <1>1, <1>2, EvidenceIsInvariant, PTL DEF Spec

\* The order of the nodes is that of the run: a call that stops anywhere before the last look
\* at the policy has not concluded the grants.
LEMMA StopsShowLess ==
    ASSUME EvidenceInv, StillWorth, run # None, Head(run.todo) # <<"conclude", "readiness">>, Stops
    PROVE  \/ status' = "refused" /\ nodes' = NoNodes
           \/ status' = "halted" /\ DOMAIN nodes' \subseteq {"credentials"}
<1>1. CASE status' = "halted" /\ nodes' = nodes /\ run.evaluation = "readiness"
  <2>1. DOMAIN nodes \subseteq {"drift", "credentials"}
    BY DEF EvidenceInv, RunInv
  <2>2. Occurs(run.todo, Head(run.todo))
    <3>1. run.todo \in Seq(StepSet(held)) /\ run.todo # <<>>
      BY AtTheHead DEF EvidenceInv
    <3>2. 1 \in 1..Len(run.todo) /\ run.todo[1] = Head(run.todo)
      BY <3>1
    <3>3. QED
      BY <3>2 DEF Occurs
  <2>3. "drift" \notin DOMAIN nodes
    BY <1>1, <2>2 DEF StillWorth, NodeWorth, Afterwards
  <2>4. QED
    BY <1>1, <2>1, <2>3
<1>2. QED
  BY <1>1 DEF Stops

\* So a halted call shows no more than its first node, and a refused one nothing.
LEMMA HowItEnds ==
    ASSUME EvidenceInv, StillWorth, [Next]_vars
    PROVE  /\ Ends("refused") => nodes' = NoNodes
           /\ Ends("halted") => DOMAIN nodes' \subseteq {"credentials"}
<1>1. CASE ~(Ends("refused") \/ Ends("halted"))
  BY <1>1
<1>2. CASE status' \in {status, None}
  BY <1>2, EvidenceAssumption DEF Ends
<1>3. CASE status' \in {"complete", "partial"}
  BY <1>3 DEF Ends
<1>4. CASE run # None /\ Head(run.todo) # <<"conclude", "readiness">> /\ Stops
  BY <1>4, StopsShowLess DEF Ends
<1>5. CASE Reading
  <2>1. run # None /\ \E k \in {"authorize", "read", "catalogs"} : Head(run.todo)[1] = k
    <3>1. CASE \E c : Authorize(c)
      BY <3>1 DEF Authorize, At
    <3>2. CASE Fail
      BY <3>2 DEF Fail
    <3>3. CASE \E s, S, more : ReadOne(s) \/ ReadPage(s, S, more)
      BY <3>3 DEF ReadOne, ReadPage, At, Read
    <3>4. CASE \E w, s : ResolveRoles(w) \/ ReadCatalog(w, s)
      BY <3>4 DEF ResolveRoles, ReadCatalog, At
    <3>5. QED
      BY <1>5, <3>1, <3>2, <3>3, <3>4 DEF Reading
  <2>2. Head(run.todo) # <<"conclude", "readiness">>
    BY <2>1
  <2>3. QED
    BY <1>2, <1>4, <1>5, <2>1, <2>2, ReadingReads DEF EvidenceInv, Advance
<1>6. ASSUME NEW c \in Evaluations \ {"readiness"}, NEW report, NEW outcome,
             outcome \in {"complete", "partial"}, Conclude(c, report, outcome)
      PROVE  /\ Ends("refused") => nodes' = NoNodes
             /\ Ends("halted") => DOMAIN nodes' \subseteq {"credentials"}
  <2>1. run # None /\ Head(run.todo) = <<"conclude", c>>
    BY <1>6 DEF Conclude, At
  <2>2. Head(run.todo) # <<"conclude", "readiness">>
    BY <2>1
  <2>3. Raise \/ status' \in {outcome, status}
    BY <1>6 DEF Conclude
  <2>4. CASE Raise
    BY <1>4, <2>1, <2>2, <2>4, RaiseStops
  <2>5. CASE status' \in {outcome, status}
    BY <1>2, <1>3, <1>6, <2>5
  <2>6. QED
    BY <2>3, <2>4, <2>5
<1>7. CASE ConcludeDrift \/ ConcludeCredentials \/ ConcludePosture
  BY <1>6, <1>7 DEF ConcludeDrift, ConcludeCredentials, ConcludePosture, Evaluations
<1>8. CASE \E available \in BOOLEAN : ConcludeDebt(available)
  <2>1. PICK report : /\ \E e, available :
                             report = DebtReport(held, e, nodes["drift"], available, now)
                      /\ Conclude("debt", report, report.status)
    BY <1>8 DEF ConcludeDebt
  <2>2. report.status \in {"complete", "partial"}
    BY <2>1 DEF DebtReport
  <2>3. QED
    BY <1>6, <2>1, <2>2 DEF Evaluations
<1>9. CASE ConcludeReadiness
  <2>1. DOMAIN nodes \subseteq {"drift", "credentials"}
    BY <1>9 DEF ConcludeReadiness, At, EvidenceInv, RunInv
  <2>2. CASE status' = "complete"
    BY <1>3, <2>2
  <2>3. CASE nodes' = [x \in DOMAIN nodes \ {"drift"} |-> nodes[x]] /\ status' = "halted"
    BY <2>1, <2>3 DEF Ends
  <2>4. CASE Refuse
    BY <2>4 DEF Refuse, Ends
  <2>5. QED
    BY <1>9, <2>2, <2>3, <2>4 DEF ConcludeReadiness
<1>10. QED
  BY <1>2, <1>5, <1>7, <1>8, <1>9
     DEF Next, Step, Reading, Tick, Change, ReplacePolicy, Restart, Begin, vars

\* A debt report is complete only if it found the server's own registration, and calls the
\* scopes aligned only if its grants were.
LEMMA DebtReportStatus ==
    ASSUME NEW p, NEW e, NEW drift, NEW available, NEW t, NEW report,
           report = DebtReport(p, e, drift, available, t), report.status = "complete",
           \A x \in drift.targets : x.alignment \in Alignments
    PROVE  \E x \in drift.targets : /\ x.workload = Client
                                    /\ report.scopes = "aligned" => x.alignment = "aligned"
<1> DEFINE matches == {x \in drift.targets : x.workload = Client}
           current == IF matches = {} THEN None ELSE CHOOSE x \in matches : TRUE
<1>1. /\ report.status = IF current # None /\ available THEN "complete" ELSE "partial"
      /\ \E F : report.scopes = ScopeAlignment(p, e, current, F)
  BY DEF DebtReport
<1>2. current # None /\ current \in matches
  BY <1>1
<1> HIDE DEF current
<1>3. ASSUME report.scopes = "aligned"
      PROVE  current.alignment = "aligned"
  <2>1. PICK F : Overall(F \cup {Finding("grants", <<>>, current.alignment)}) = "aligned"
    BY <1>1, <1>2, <1>3 DEF ScopeAlignment
  <2> DEFINE f == Finding("grants", <<>>, current.alignment)
  <2>2. f.alignment \notin {"not_aligned", "exception_approved"}
    BY <2>1 DEF Overall
  <2>3. f.alignment = current.alignment
    BY DEF Finding
  <2>4. QED
    BY <1>2, <2>2, <2>3 DEF Alignments
<1>4. QED
  BY <1>2, <1>3

\* A workload called aligned, or excepted, was seen so in both reports or aligned.
LEMMA CorrelateAlignments ==
    ASSUME NEW a, NEW b, NEW t \in Correlate(a, b).targets,
           \A x \in a.targets : x.alignment \in Alignments,
           \A x \in b.targets : x.alignment \in Alignments,
           t.alignment \in {"aligned", "exception_approved"},
           NEW r \in {a, b}
    PROVE  \E x \in r.targets : x.workload = t.workload /\ x.alignment \in {t.alignment, "aligned"}
<1>1. PICK w : t = [workload |-> w, alignment |-> Combined(AlignmentIn(a, w), AlignmentIn(b, w))]
  BY DEF Correlate
<1>2. /\ t.workload = w
      /\ t.alignment = Combined(AlignmentIn(a, w), AlignmentIn(b, w))
  BY <1>1
<1>3. AlignmentIn(r, w) # "not_evaluated"
  BY <1>2 DEF Combined
<1>4. w \in Workloads(r) /\ AlignmentIn(r, w) = (CHOOSE x \in r.targets : x.workload = w).alignment
  BY <1>3 DEF AlignmentIn
<1>5. PICK x \in r.targets : x.workload = w /\ AlignmentIn(r, w) = x.alignment
  <2>1. \E x \in r.targets : x.workload = w
    BY <1>4 DEF Workloads
  <2>2. QED
    BY <1>4, <2>1
<1>6. AlignmentIn(r, w) \in Alignments
  BY <1>5
<1>7. AlignmentIn(r, w) \in {t.alignment, "aligned"}
  BY <1>2, <1>6 DEF Combined, Alignments
<1>8. QED
  BY <1>2, <1>5, <1>7

\* What is allowed to an aligned target is allowed to an excepted one.
LEMMA AlignedAllowsLess ==
    ASSUME NEW a, NEW b \in {a, "aligned"}, NEW c, NEW D, Allows(b, c, D)
    PROVE  Allows(a, c, D)
BY DEF Allows

\* Where the playbook concludes, both nodes are worth what they say.
LEMMA ReadinessIsWorth ==
    ASSUME EvidenceInv, StillWorth, [Next]_vars, NEW c \in New \cap {"readiness"},
           NEW r \in nodes'[c].targets, r.alignment \in {"aligned", "exception_approved"}
    PROVE  CleanInBoth(r)
<1> DEFINE a == nodes["drift"]
           b == nodes["credentials"]
<1>1. /\ At(<<"conclude", "readiness">>) /\ "readiness" \in Evaluations
      /\ nodes'[c] = Correlate(a, b)
  BY NewReports DEF Made
<1>2. run # None /\ run.evaluation = "readiness" /\ {"drift", "credentials"} \subseteq DOMAIN nodes
  BY <1>1, WhereItConcludes DEF EvidenceInv
<1>3. GrantsWorth /\ CredentialsWorth
  BY <1>2 DEF StillWorth, NodeWorth
<1>4. /\ \A x \in a.targets : x.alignment \in Alignments
      /\ \A x \in b.targets : x.alignment \in Alignments
  BY <1>2 DEF EvidenceInv, NodesInv
<1> HIDE DEF a, b
<1>5. \A n \in {a, b} : \E x \in n.targets :
          x.workload = r.workload /\ x.alignment \in {r.alignment, "aligned"}
  BY <1>1, <1>4, CorrelateAlignments
<1>6. \E t \in held.drift.targets :
          ClientId[t.principal] = r.workload /\ Allows(r.alignment, "drift", GrantDeviations(t))
  <2>1. PICK x \in a.targets : x.workload = r.workload /\ x.alignment \in {r.alignment, "aligned"}
    BY <1>5
  <2>2. PICK t \in held.drift.targets :
            /\ ClientId[t.principal] = x.workload
            /\ x.alignment # "not_aligned" => Allows(x.alignment, "drift", GrantDeviations(t))
    BY <1>3 DEF GrantsWorth, a
  <2>3. QED
    BY <2>1, <2>2, AlignedAllowsLess
<1>7. \E t \in held.credentials.targets :
          /\ ClientId[t.application] = r.workload
          /\ Allows(r.alignment, "credentials", LastingDeviations(t))
  <2>1. PICK x \in b.targets : x.workload = r.workload /\ x.alignment \in {r.alignment, "aligned"}
    BY <1>5
  <2>2. PICK t \in held.credentials.targets :
            /\ ClientId[t.application] = x.workload
            /\ x.alignment # "not_aligned" =>
                  Allows(x.alignment, "credentials", LastingDeviations(t))
    BY <1>3 DEF CredentialsWorth, b
  <2>3. QED
    BY <2>1, <2>2, AlignedAllowsLess
<1>8. QED
  BY <1>6, <1>7 DEF CleanInBoth

\* A workload the playbook calls ready was read as an application and as a service principal,
\* and neither showed a deviation the signed policy does not excuse: no step of the call reads
\* the sources of a node after its conclusion, and only what is read can stop being steady.
THEOREM ReadyWorkloadsAreClean == Spec => ReadyWorkloadIsClean
<1>1. EvidenceInv /\ StillWorth /\ [Next]_vars =>
          [\A c \in New \cap {"readiness"} : \A r \in nodes'[c].targets :
               r.alignment \in {"aligned", "exception_approved"} => CleanInBoth(r)]_vars
  BY ReadinessIsWorth
<1>2. QED
  BY <1>1, EvidenceIsInvariant, WorthIsInvariant, PTL DEF Spec, ReadyWorkloadIsClean

\* A complete debt report read the grants of the server's own registration in its call.
LEMMA DebtSawItself ==
    ASSUME EvidenceInv, StillWorth, [Next]_vars, "debt" \in New, status' = "complete"
    PROVE  \E t \in held.drift.targets :
              /\ ClientId[t.principal] = Client
              /\ run.pages[<<"delegated", t.principal>>] > 0
              /\ run.pages[<<"roles", t.principal>>] > 0
              /\ nodes'["debt"].scopes = "aligned" => GrantDeviations(t) = {}
<1> DEFINE report == nodes'["debt"]
           drift == nodes["drift"]
<1>1. /\ At(<<"conclude", "debt">>) /\ "debt" \in Evaluations /\ Revalidated("debt")
      /\ status' = report.status
      /\ \E e, available : report = DebtReport(held, e, drift, available, now)
  BY NewReports DEF Made
<1>2. run # None /\ run.evaluation = "debt" /\ "drift" \in DOMAIN nodes
  BY <1>1, WhereItConcludes DEF EvidenceInv
<1>3. GrantsWorth /\ \A x \in drift.targets : x.alignment \in Alignments
  BY <1>2 DEF StillWorth, NodeWorth, EvidenceInv, NodesInv
<1> HIDE DEF report, drift
<1>4. PICK x \in drift.targets : /\ x.workload = Client
                                 /\ report.scopes = "aligned" => x.alignment = "aligned"
  BY <1>1, <1>3, DebtReportStatus
<1>5. PICK t \in held.drift.targets :
          /\ ClientId[t.principal] = x.workload
          /\ x.alignment # "not_aligned" => Allows(x.alignment, "drift", GrantDeviations(t))
  BY <1>3 DEF GrantsWorth, drift
<1>6. /\ <<"delegated", t.principal>> \in EvidenceOfReport(held, "debt")
      /\ <<"roles", t.principal>> \in EvidenceOfReport(held, "debt")
  BY DEF EvidenceOfReport
<1>7. run.pages[<<"delegated", t.principal>>] > 0 /\ run.pages[<<"roles", t.principal>>] > 0
  BY <1>1, <1>6, EverythingWasRead
<1>8. x.alignment = "aligned" => GrantDeviations(t) = {}
  BY <1>5 DEF Allows
<1>9. QED
  BY <1>4, <1>5, <1>7, <1>8 DEF report

\* A run that halts or cannot see everything never claims alignment: a playbook that halts
\* reports neither a conclusion nor its last node, a complete one reports both nodes, and a
\* complete debt report read the grants of the server's own registration.
THEOREM PartialsAreNeverComplete == Spec => PartialIsNeverComplete
<1> DEFINE Fits ==
        /\ Ends("refused") => nodes' = NoNodes
        /\ Ends("halted") => DOMAIN nodes' \subseteq {"credentials"}
        /\ "readiness" \in New => /\ Ends("complete")
                                  /\ {"drift", "credentials"} \subseteq DOMAIN nodes'
        /\ "debt" \in New /\ Ends("complete") =>
              \E t \in held.drift.targets :
                  /\ ClientId[t.principal] = Client
                  /\ run.pages[<<"delegated", t.principal>>] > 0
                  /\ run.pages[<<"roles", t.principal>>] > 0
                  /\ nodes'["debt"].scopes = "aligned" => GrantDeviations(t) = {}
<1>1. ASSUME EvidenceInv, StillWorth, [Next]_vars
      PROVE  Fits
  <2>1. ASSUME "readiness" \in New
        PROVE  Ends("complete") /\ {"drift", "credentials"} \subseteq DOMAIN nodes'
    <3>1. /\ At(<<"conclude", "readiness">>) /\ "readiness" \in Evaluations
          /\ status' = "complete" /\ DOMAIN nodes \subseteq DOMAIN nodes'
      BY <1>1, <2>1, NewReports DEF Made
    <3>2. status = None /\ {"drift", "credentials"} \subseteq DOMAIN nodes
      BY <1>1, <3>1, WhereItConcludes DEF EvidenceInv
    <3>3. QED
      BY <3>1, <3>2 DEF Ends
  <2>2. ASSUME "debt" \in New, Ends("complete")
        PROVE  \E t \in held.drift.targets :
                  /\ ClientId[t.principal] = Client
                  /\ run.pages[<<"delegated", t.principal>>] > 0
                  /\ run.pages[<<"roles", t.principal>>] > 0
                  /\ nodes'["debt"].scopes = "aligned" => GrantDeviations(t) = {}
    BY <1>1, <2>2, DebtSawItself DEF Ends
  <2>3. QED
    BY <1>1, <2>1, <2>2, HowItEnds
<1>2. EvidenceInv /\ StillWorth /\ [Next]_vars => [Fits]_vars
  BY <1>1
<1>3. QED
  BY <1>2, EvidenceIsInvariant, WorthIsInvariant, PTL DEF Spec, PartialIsNeverComplete
================================================================================
