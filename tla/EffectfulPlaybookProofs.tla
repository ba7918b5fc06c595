---------------------- MODULE EffectfulPlaybookProofs ----------------------
(***************************************************************************)
(* Theorems about EffectfulPlaybook.  Order and halting hold for any set   *)
(* of runners; that a node starts once and that uncertainty halts hold for *)
(* one runner, however often it crashes and comes back.                    *)
(***************************************************************************)
EXTENDS EffectfulPlaybook, WellFoundedInduction, TLAPS

\* The least of a set of nodes is one of them: First makes a choice.
LEMMA FirstIsOneOfThem ==
    ASSUME NEW nodes, nodes \subseteq Nodes, nodes # {}
    PROVE  First(nodes) \in nodes
<1> DEFINE R == OpToRel(<, Nat)
<1>1. nodes \subseteq Nat
  BY PlaybookAssumption
<1>2. IsWellFoundedOn(R, Nat)
  BY NatLessThanWellFounded
<1>3. \E n \in nodes : \A m \in nodes : ~(<<m, n>> \in R)
  <2> HIDE DEF R
  <2>1. QED
    BY <1>1, <1>2, WFMin
<1>4. PICK n \in nodes : \A m \in nodes : ~(<<m, n>> \in R)
  BY <1>3
<1>5. \A m \in nodes : ~(m < n)
  BY <1>1, <1>4 DEF OpToRel
<1>6. \A m \in nodes : n <= m
  BY <1>1, <1>5
<1>7. QED
  BY <1>6 DEF First

-----------------------------------------------------------------------------
(***************************************************************************)
(* Type correctness.                                                       *)
(***************************************************************************)

Fetching == {"idle", "insert"}
AtNode == {"begin", "execute", "report"}

\* A call that decided holds a copy of the checkpoint, and the node it decided on.
Fit(point, c) ==
    /\ point \notin Fetching => c.seen \in Checkpoints
    /\ point \in AtNode => c.node \in Nodes

Held ==
    \A r \in Runners :
        Fit(pc[r], call[r]) /\ (pc[r] \notin Fetching => run # None)

TypesInv == TypeOK /\ Held

\* What every step does to the runner that takes it, and the least it does to the rest.
Moves(r, point, c) ==
    /\ Continue(r, point, c)
    /\ run' \in Checkpoints \cup {None}
    /\ run # None \/ point \notin Fetching => run' # None
    /\ starts' \in [Nodes -> Nat]
    /\ done' \subseteq Nodes
    /\ crashes' \in 0..MaxCrashes

LEMMA MovingKeepsTypes ==
    ASSUME TypesInv, NEW r \in Runners, NEW point \in Points, NEW c,
           point # "idle" => c \in Calls, Fit(point, c), Moves(r, point, c)
    PROVE  TypesInv'
<1>1. /\ pc' = [pc EXCEPT ![r] = point]
      /\ call' = [call EXCEPT ![r] = IF point = "idle" THEN None ELSE c]
  BY DEF Moves, Continue
<1>2. TypeOK'
  BY <1>1, PlaybookAssumption DEF TypesInv, TypeOK, Moves
<1>3. Held'
  BY <1>1 DEF TypesInv, TypeOK, Held, Moves, Fit, Fetching, AtNode
<1>4. QED
  BY <1>2, <1>3 DEF TypesInv

LEMMA NewCallIsTyped ==
    ASSUME NEW c \in Contexts, NEW row \in Checkpoints \cup {None},
           NEW n \in Nodes \cup {None}
    PROVE  NewCall(c, row, n) \in Calls
BY DEF NewCall, Calls, Outcomes

\* What step() decides is a point, and where it is to begin a node there is one.
Chosen(row) == IF Choice(row) = "begin" THEN First(Candidates(row)) ELSE None

LEMMA ChoiceIsSound ==
    ASSUME NEW row \in Checkpoints
    PROVE  /\ Choice(row) \in {"idle", "interrupt", "begin", "complete"}
           /\ Choice(row) # "idle" => row.status \notin Halted
           /\ Choice(row) = "begin" =>
                  /\ Chosen(row) \in Candidates(row)
                  /\ Chosen(row) \in Nodes
                  /\ In(row, "RUNNING") = {}
           /\ Choice(row) = "complete" => In(row, "COMPLETED") = Nodes
           /\ Chosen(row) \in Nodes \cup {None}
<1>1. Candidates(row) \subseteq Nodes
  BY DEF Candidates, In
<1>2. Candidates(row) # {} => First(Candidates(row)) \in Candidates(row)
  BY <1>1, FirstIsOneOfThem
<1>3. QED
  BY <1>1, <1>2 DEF Choice, Chosen

\* A step decides on a checkpoint that is then on record.
Deciding(r, c, row) ==
    /\ pc[r] \in Fetching
    /\ row \in Checkpoints /\ run' = row
    /\ run \in {None, row}
    /\ run = None => row = [context |-> c, status |-> "PLANNED",
                            states |-> [n \in Nodes |-> "PENDING"]]
    /\ Continue(r, Choice(row), NewCall(c, row, Chosen(row)))
    /\ UNCHANGED history

LEMMA DecidingKeepsTypes ==
    ASSUME TypesInv, NEW r \in Runners, NEW c \in Contexts, NEW row,
           Deciding(r, c, row)
    PROVE  TypesInv'
<1> DEFINE made == NewCall(c, row, Chosen(row))
<1>1. row \in Checkpoints
  BY DEF Deciding
<1>2. made \in Calls /\ Choice(row) \in Points
  BY <1>1, ChoiceIsSound, NewCallIsTyped DEF Points
<1>3. Fit(Choice(row), made)
  BY <1>1, ChoiceIsSound DEF Fit, NewCall, Fetching, AtNode
<1>4. row # None
  BY <1>1, PlaybookAssumption
<1>5. Moves(r, Choice(row), made)
  BY <1>1, <1>4 DEF Deciding, Moves, history, TypesInv, TypeOK
<1> HIDE DEF made
<1>6. QED
  BY <1>2, <1>3, <1>5, MovingKeepsTypes

\* The checkpoint replace() writes.
Written(r, status, states) ==
    [context |-> call[r].seen.context, status |-> status, states |-> states]

\* A step writes a checkpoint from the copy it holds.
Writing(r, status, states, point) ==
    /\ pc[r] \notin Fetching
    /\ status \in RunStatuses /\ states \in [Nodes -> NodeStatuses]
    /\ point \in {"idle", "execute"}
    /\ point = "execute" => pc[r] = "begin"
    /\ Current(r)
    /\ run' = Written(r, status, states)
    /\ Continue(r, point, [call[r] EXCEPT !.seen = Written(r, status, states)])
    /\ UNCHANGED history

LEMMA CallIsTyped ==
    ASSUME TypesInv, NEW r \in Runners, pc[r] \notin Fetching
    PROVE  /\ call[r] \in Calls /\ call[r].seen \in Checkpoints
           /\ call[r].seen.states \in [Nodes -> NodeStatuses]
           /\ pc[r] \in AtNode => call[r].node \in Nodes
           /\ run \in Checkpoints
BY DEF TypesInv, TypeOK, Held, Fit, Fetching, Checkpoints

LEMMA WrittenIsTyped ==
    ASSUME TypesInv, NEW r \in Runners, pc[r] \notin Fetching,
           NEW status \in RunStatuses, NEW states \in [Nodes -> NodeStatuses]
    PROVE  LET row == Written(r, status, states)
               c == [call[r] EXCEPT !.seen = row]
           IN /\ row \in Checkpoints /\ row # None
              /\ row.status = status /\ row.states = states
              /\ c \in Calls /\ c.seen = row /\ c.node = call[r].node
              /\ c.resumed = call[r].resumed
<1> DEFINE row == Written(r, status, states)
           c == [call[r] EXCEPT !.seen = row]
<1>1. call[r] \in Calls /\ call[r].seen.context \in Contexts
  BY CallIsTyped DEF Checkpoints
<1>2. row \in Checkpoints /\ row.status = status /\ row.states = states
  BY <1>1 DEF Written, Checkpoints
<1>3. row # None
  BY <1>2, PlaybookAssumption
<1> HIDE DEF row
<1>4. /\ c \in Calls /\ c.seen = row /\ c.node = call[r].node
      /\ c.resumed = call[r].resumed
  BY <1>1, <1>2 DEF Calls
<1>5. QED
  BY <1>2, <1>3, <1>4 DEF row

LEMMA WritingKeepsTypes ==
    ASSUME TypesInv, NEW r \in Runners, NEW status, NEW states, NEW point,
           Writing(r, status, states, point)
    PROVE  TypesInv'
<1> DEFINE row == Written(r, status, states)
           c == [call[r] EXCEPT !.seen = row]
<1>1. /\ row \in Checkpoints /\ row # None
      /\ c \in Calls /\ c.seen = row /\ c.node = call[r].node
  BY WrittenIsTyped DEF Writing
<1>2. point \in Points /\ (point = "execute" => call[r].node \in Nodes)
  BY CallIsTyped DEF Writing, Points, AtNode, Fetching
<1>3. run' = row /\ Continue(r, point, c) /\ UNCHANGED history
  BY DEF Writing
<1>4. Fit(point, c)
  BY <1>1, <1>2 DEF Fit, Writing, AtNode, Fetching
<1> HIDE DEF c, row
<1>5. Moves(r, point, c)
  BY <1>1, <1>3 DEF Moves, history, TypesInv, TypeOK
<1>6. QED
  BY <1>1, <1>2, <1>4, <1>5, MovingKeepsTypes

\* A call ends without a write, also by a crash.
Returning(r) ==
    /\ Return(r)
    /\ UNCHANGED <<run, starts, done>>
    /\ crashes' \in 0..MaxCrashes

LEMMA ReturningKeepsTypes ==
    ASSUME TypesInv, NEW r \in Runners, Returning(r)
    PROVE  TypesInv'
<1>1. Moves(r, "idle", None)
  BY DEF Returning, Return, Moves, TypesInv, TypeOK, Fetching
<1>2. QED
  BY <1>1, MovingKeepsTypes DEF Fit, Fetching, AtNode, Points

\* A call that found no checkpoint is about to insert one.
Preparing(r, c) ==
    /\ pc[r] = "idle"
    /\ Continue(r, "insert", NewCall(c, None, None))
    /\ UNCHANGED <<run, history>>

LEMMA PreparingKeepsTypes ==
    ASSUME TypesInv, NEW r \in Runners, NEW c \in Contexts, Preparing(r, c)
    PROVE  TypesInv'
<1>1. Moves(r, "insert", NewCall(c, None, None))
  BY DEF Preparing, Moves, history, TypesInv, TypeOK, Fetching
<1>2. QED
  BY <1>1, NewCallIsTyped, MovingKeepsTypes DEF Fit, Fetching, AtNode, Points

\* The executor answers.
Answering(r, outcome) ==
    LET n == call[r].node IN
    /\ pc[r] = "execute"
    /\ Continue(r, "report", [call[r] EXCEPT !.outcome = outcome])
    /\ starts' = [starts EXCEPT ![n] = @ + IF call[r].resumed THEN 0 ELSE 1]
    /\ done' = IF outcome = "completed" THEN done \cup {n} ELSE done
    /\ run' = run

LEMMA ExecutingAnswers ==
    ASSUME TypesInv, NEW r \in Runners, Execute(r)
    PROVE  TypesInv' /\ \E outcome \in Outcomes : Answering(r, outcome)
<1>1. pc[r] = "execute"
  BY DEF Execute
<1>2. /\ call[r] \in Calls /\ call[r].seen \in Checkpoints
      /\ call[r].node \in Nodes /\ run \in Checkpoints
  BY <1>1, CallIsTyped DEF AtNode, Fetching
<1>3. PICK outcome \in Outcomes : Answering(r, outcome)
  BY DEF Execute, Answering
<1> DEFINE c == [call[r] EXCEPT !.outcome = outcome]
<1>4. c \in Calls /\ c.seen = call[r].seen /\ c.node = call[r].node
  BY <1>2 DEF Calls
<1>5. starts' \in [Nodes -> Nat]
  BY <1>2, <1>3 DEF Answering, TypesInv, TypeOK
<1>6. Fit("report", c)
  BY <1>2, <1>4 DEF Fit
<1>7. run # None
  BY <1>2, PlaybookAssumption
<1>8. Moves(r, "report", c)
  BY <1>2, <1>3, <1>5, <1>7
  DEF Moves, Answering, Execute, TypesInv, TypeOK
<1> HIDE DEF c
<1>9. TypesInv'
  BY <1>4, <1>6, <1>8, MovingKeepsTypes DEF Points
<1>10. QED
  BY <1>3, <1>9

\* What a call is about to write is a checkpoint, and says what the code says.
LEMMA AfterIsTyped ==
    ASSUME NEW outcome \in Outcomes
    PROVE  /\ After(outcome)[1] \in NodeStatuses \ {"PENDING", "RUNNING"}
           /\ After(outcome)[2] \in RunStatuses \ {"COMPLETED_VERIFIED"}
           /\ After(outcome)[1] = "COMPLETED" => outcome = "completed"
           /\ After(outcome)[1] = "UNCERTAIN" => After(outcome)[2] \in Halted
BY DEF After, Outcomes, NodeStatuses, RunStatuses, Halted

LEMMA ReplacingWrites ==
    ASSUME TypesInv, NEW r \in Runners, pc[r] \notin Fetching,
           NEW status \in RunStatuses, NEW states \in [Nodes -> NodeStatuses],
           NEW point \in {"idle", "execute"}, point = "execute" => pc[r] = "begin",
           Replace(r, status, states, point), UNCHANGED history
    PROVE  Writing(r, status, states, point) \/ Returning(r)
BY DEF Replace, Written, Writing, Returning, history, TypesInv, TypeOK

Interrupted(states) ==
    [n \in Nodes |-> IF states[n] = "RUNNING" THEN "UNCERTAIN" ELSE states[n]]

\* Every step of a runner has one of these shapes.
Shape(r) ==
    \/ Returning(r)
    \/ \E c \in Contexts : Preparing(r, c)
    \/ \E c \in Contexts, row \in Checkpoints : Deciding(r, c, row)
    \/ /\ pc[r] = "begin"
       /\ Writing(r, "RUNNING", Marked(call[r], "RUNNING"), "execute")
    \/ \E outcome \in Outcomes : Answering(r, outcome) /\ TypesInv'
    \/ /\ pc[r] = "report"
       /\ Writing(r, After(call[r].outcome)[2],
                  Marked(call[r], After(call[r].outcome)[1]), "idle")
    \/ /\ pc[r] = "interrupt"
       /\ Writing(r, "PAUSED_UNCERTAIN", Interrupted(call[r].seen.states), "idle")
    \/ /\ pc[r] = "complete"
       /\ Writing(r, "COMPLETED_VERIFIED", call[r].seen.states, "idle")

LEMMA StepsHaveShapes ==
    ASSUME TypesInv, Next
    PROVE  \E r \in Runners : Shape(r)
<1>0. PICK r \in Runners :
          (\E c \in Contexts : StartStep(r, c)) \/ Step(r) \/ Crash(r)
  BY DEF Next
<1> SUFFICES Shape(r)
  OBVIOUS
<1> USE DEF Fetching
<1>1. ASSUME NEW c \in Contexts, StartStep(r, c)
      PROVE  Shape(r)
  <2>1. CASE run = None
    BY <1>1, <2>1 DEF StartStep, Preparing, Shape
  <2>2. CASE run # None
    <3>1. run \in Checkpoints
      BY <2>2 DEF TypesInv, TypeOK
    <3>2. Deciding(r, c, run)
      BY <1>1, <2>2, <3>1 DEF StartStep, Deciding, Decide, Chosen
    <3>3. QED
      BY <3>1, <3>2 DEF Shape
  <2>3. QED
    BY <2>1, <2>2
<1>2. ASSUME Insert(r)
      PROVE  Shape(r)
  <2> DEFINE c == call[r].context
             row == [context |-> c, status |-> "PLANNED",
                     states |-> [n \in Nodes |-> "PENDING"]]
  <2>1. pc[r] = "insert"
    BY <1>2 DEF Insert
  <2>2. c \in Contexts
    BY <2>1 DEF TypesInv, TypeOK, Calls
  <2>3. row \in Checkpoints
    BY <2>2 DEF Checkpoints, RunStatuses, NodeStatuses
  <2>4. CASE run = None
    <3>1. run' = row /\ Decide(r, c, row) /\ UNCHANGED history
      BY <1>2, <2>4 DEF Insert
    <3>2. Deciding(r, c, row)
      BY <2>1, <2>3, <2>4, <3>1 DEF Deciding, Decide, Chosen
    <3> HIDE DEF row
    <3>3. QED
      BY <2>2, <2>3, <3>2 DEF Shape
  <2>5. CASE run # None
    BY <1>2, <2>5 DEF Insert, Returning, Shape, history, TypesInv, TypeOK
  <2>6. QED
    BY <2>4, <2>5
<1>3. ASSUME Begin(r) \/ Report(r) \/ Interrupt(r) \/ Complete(r)
      PROVE  Shape(r)
  <2>1. pc[r] \in {"begin", "report", "interrupt", "complete"} /\ UNCHANGED history
    BY <1>3 DEF Begin, Report, Interrupt, Complete
  <2>2. /\ call[r] \in Calls /\ call[r].seen.states \in [Nodes -> NodeStatuses]
        /\ call[r].outcome \in Outcomes
    BY <2>1, CallIsTyped DEF Calls
  <2>3. \A status \in NodeStatuses :
            Marked(call[r], status) \in [Nodes -> NodeStatuses]
    BY <2>2 DEF Marked
  <2>4. CASE Begin(r)
    <3>1. Replace(r, "RUNNING", Marked(call[r], "RUNNING"), "execute")
      BY <2>4 DEF Begin
    <3>2. pc[r] = "begin" /\ "RUNNING" \in RunStatuses
          /\ Marked(call[r], "RUNNING") \in [Nodes -> NodeStatuses]
      BY <2>3, <2>4 DEF Begin, RunStatuses, NodeStatuses
    <3>3. QED
      BY <2>1, <3>1, <3>2, ReplacingWrites DEF Shape
  <2>5. CASE Report(r)
    <3> DEFINE after == After(call[r].outcome)
    <3>1. Replace(r, after[2], Marked(call[r], after[1]), "idle")
      BY <2>5 DEF Report
    <3>2. /\ pc[r] = "report" /\ after[2] \in RunStatuses
          /\ Marked(call[r], after[1]) \in [Nodes -> NodeStatuses]
      BY <2>2, <2>3, <2>5, AfterIsTyped DEF Report
    <3> HIDE DEF after
    <3>3. Writing(r, after[2], Marked(call[r], after[1]), "idle") \/ Returning(r)
      BY <2>1, <3>1, <3>2, ReplacingWrites
    <3>4. QED
      BY <3>2, <3>3 DEF Shape, after
  <2>6. CASE Interrupt(r)
    <3>1. Replace(r, "PAUSED_UNCERTAIN", Interrupted(call[r].seen.states), "idle")
      BY <2>6 DEF Interrupt, Interrupted
    <3>2. /\ pc[r] = "interrupt" /\ "PAUSED_UNCERTAIN" \in RunStatuses
          /\ Interrupted(call[r].seen.states) \in [Nodes -> NodeStatuses]
      BY <2>2, <2>6 DEF Interrupt, Interrupted, RunStatuses, NodeStatuses
    <3>3. QED
      BY <2>1, <3>1, <3>2, ReplacingWrites DEF Shape
  <2>7. CASE Complete(r)
    <3>1. Replace(r, "COMPLETED_VERIFIED", call[r].seen.states, "idle")
      BY <2>7 DEF Complete
    <3>2. pc[r] = "complete" /\ "COMPLETED_VERIFIED" \in RunStatuses
      BY <2>7 DEF Complete, RunStatuses
    <3>3. QED
      BY <2>1, <2>2, <3>1, <3>2, ReplacingWrites DEF Shape
  <2>8. QED
    BY <1>3, <2>4, <2>5, <2>6, <2>7
<1>4. ASSUME Execute(r)
      PROVE  Shape(r)
  BY <1>4, ExecutingAnswers DEF Shape
<1>5. ASSUME Crash(r)
      PROVE  Shape(r)
  <2>1. crashes \in Nat /\ MaxCrashes \in Nat
    BY PlaybookAssumption DEF TypesInv, TypeOK
  <2>2. Returning(r)
    BY <1>5, <2>1 DEF Crash, Returning
  <2>3. QED
    BY <2>2 DEF Shape
<1>6. QED
  BY <1>0, <1>1, <1>2, <1>3, <1>4, <1>5 DEF Step

LEMMA TypesInit == Init => TypesInv
BY PlaybookAssumption
DEF Init, TypesInv, TypeOK, Held, Fit, Fetching, AtNode, Points

LEMMA TypesStep == TypesInv /\ [Next]_vars => TypesInv'
<1> SUFFICES ASSUME TypesInv, [Next]_vars PROVE TypesInv'
  OBVIOUS
<1>1. CASE Next
  BY <1>1, StepsHaveShapes, ReturningKeepsTypes, PreparingKeepsTypes,
     DecidingKeepsTypes, WritingKeepsTypes DEF Shape
<1>2. CASE UNCHANGED vars
  BY <1>2 DEF TypesInv, TypeOK, Held, vars
<1>3. QED
  BY <1>1, <1>2

\* For any number of runners, the checkpoint and the calls keep their types, and a call
\* that decided holds a copy of the checkpoint and the node it decided on.
THEOREM TypesAreInvariant == Spec => []TypeOK
<1>1. TypesInv => TypeOK
  BY DEF TypesInv
<1>2. QED
  BY <1>1, TypesInit, TypesStep, PTL DEF Spec

-----------------------------------------------------------------------------
(***************************************************************************)
(* Order, and the finality of a halt, for any set of runners.              *)
(***************************************************************************)

\* What a checkpoint says of executors is true of the nodes that are done: marks are
\* made from answers, and copies of any age only say less.
Sound(row, nodes) ==
    /\ \A n \in Nodes : row.states[n] = "COMPLETED" => n \in nodes
    /\ \A n \in Nodes : row.states[n] # "PENDING" => DependsOn[n] \subseteq nodes
    /\ row.status = "COMPLETED_VERIFIED" => \A n \in Nodes : row.states[n] = "COMPLETED"

\* What a call that decided knows, of the nodes that are done.
Knows(point, c, nodes) ==
    point \notin Fetching =>
        /\ Sound(c.seen, nodes) /\ c.seen.status \notin Halted
        /\ point \in AtNode => DependsOn[c.node] \subseteq nodes
        /\ point = "report" /\ c.outcome = "completed" => c.node \in nodes
        /\ point = "complete" => \A n \in Nodes : c.seen.states[n] = "COMPLETED"

OrderInv ==
    /\ run # None => Sound(run, done)
    /\ \A r \in Runners : Knows(pc[r], call[r], done)

\* A step of r that makes nothing undone.
LEMMA MovingKeepsOrder ==
    ASSUME TypesInv, OrderInv, NEW r \in Runners, NEW point, NEW c,
           Continue(r, point, c), done \subseteq done',
           run' # None => Sound(run', done'), point # "idle" => Knows(point, c, done')
    PROVE  OrderInv'
<1>1. pc'[r] = point /\ (point # "idle" => call'[r] = c)
  BY DEF Continue, TypesInv, TypeOK
<1>2. ASSUME NEW q \in Runners
      PROVE  Knows(pc'[q], call'[q], done')
  <2>1. CASE q = r
    BY <1>1, <2>1 DEF Knows, Sound, Fetching
  <2>2. CASE q # r
    <3>1. pc'[q] = pc[q] /\ call'[q] = call[q]
      BY <2>2 DEF Continue, TypesInv, TypeOK
    <3>2. Knows(pc[q], call[q], done)
      BY DEF OrderInv
    <3>3. Sound(call[q].seen, done) => Sound(call[q].seen, done')
      BY <3>1 DEF Sound
    <3>4. QED
      BY <3>1, <3>2, <3>3 DEF Knows
  <2>3. QED
    BY <2>1, <2>2
<1>3. QED
  BY <1>2 DEF OrderInv

LEMMA RestKeepsOrder ==
    ASSUME TypesInv, OrderInv, NEW r \in Runners, UNCHANGED <<run, done>>,
           \/ Returning(r)
           \/ \E c \in Contexts : Preparing(r, c)
    PROVE  OrderInv'
<1>1. run' # None => Sound(run', done')
  BY DEF OrderInv, Sound
<1>2. CASE Returning(r)
  BY <1>1, <1>2, MovingKeepsOrder DEF Returning, Return
<1>3. ASSUME NEW c \in Contexts, Preparing(r, c)
      PROVE  OrderInv'
  BY <1>1, <1>3, MovingKeepsOrder DEF Preparing, Knows, Fetching
<1>4. QED
  BY <1>2, <1>3

LEMMA DecidingKeepsOrder ==
    ASSUME TypesInv, OrderInv, NEW r \in Runners, NEW c \in Contexts,
           NEW row \in Checkpoints, Deciding(r, c, row)
    PROVE  OrderInv'
<1> DEFINE n == Chosen(row)
           made == NewCall(c, row, n)
<1>1. done' = done /\ run' = row /\ Continue(r, Choice(row), made)
  BY DEF Deciding, history
<1>2. Sound(row, done)
  <2>1. CASE run = None
    <3>1. row = [context |-> c, status |-> "PLANNED",
                 states |-> [m \in Nodes |-> "PENDING"]]
      BY <2>1 DEF Deciding
    <3>2. row.status = "PLANNED" /\ row.states = [m \in Nodes |-> "PENDING"]
      BY <3>1
    <3>3. QED
      BY <3>2 DEF Sound
  <2>2. CASE run # None
    BY <2>2 DEF Deciding, OrderInv
  <2>3. QED
    BY <2>1, <2>2
<1>3. Sound(row, done')
  BY <1>1, <1>2 DEF Sound
<1>4. Choice(row) = "begin" => DependsOn[n] \subseteq done
  <2>1. SUFFICES ASSUME Choice(row) = "begin" PROVE DependsOn[n] \subseteq done
    OBVIOUS
  <2>2. n \in Candidates(row) /\ n \in Nodes
    BY <2>1, ChoiceIsSound
  <2>3. CASE row.states[n] = "PENDING"
    <3>1. DependsOn[n] \subseteq In(row, "COMPLETED")
      BY <2>2, <2>3 DEF Candidates, In
    <3>2. In(row, "COMPLETED") \subseteq done
      BY <1>2 DEF In, Sound
    <3>3. QED
      BY <3>1, <3>2
  <2>4. CASE row.states[n] # "PENDING"
    BY <1>2, <2>2, <2>4 DEF Sound
  <2>5. QED
    BY <2>3, <2>4
<1>5. made.seen = row /\ made.node = n
  BY DEF NewCall
<1>6. Choice(row) # "idle" => Knows(Choice(row), made, done')
  <2> HIDE DEF made, n
  <2>1. Choice(row) # "idle" => row.status \notin Halted
    BY ChoiceIsSound
  <2>2. Choice(row) \in {"idle", "interrupt", "begin", "complete"}
    BY ChoiceIsSound
  <2>3. Choice(row) = "complete" => \A m \in Nodes : row.states[m] = "COMPLETED"
    BY ChoiceIsSound DEF In
  <2>4. QED
    BY <1>1, <1>3, <1>4, <1>5, <2>1, <2>2, <2>3 DEF Knows, AtNode
<1> HIDE DEF made
<1>7. QED
  BY <1>1, <1>3, <1>6, MovingKeepsOrder

\* A checkpoint that is written from a sound copy, with true marks, is sound.
LEMMA WritingKeepsOrder ==
    ASSUME TypesInv, OrderInv, NEW r \in Runners, NEW status \in RunStatuses,
           NEW states \in [Nodes -> NodeStatuses], NEW point,
           Writing(r, status, states, point),
           \A n \in Nodes :
               /\ states[n] = "COMPLETED" => n \in done
               /\ states[n] # "PENDING" => DependsOn[n] \subseteq done,
           status = "COMPLETED_VERIFIED" => \A n \in Nodes : states[n] = "COMPLETED",
           point = "execute" => status \notin Halted
    PROVE  OrderInv'
<1> DEFINE row == Written(r, status, states)
           c == [call[r] EXCEPT !.seen = row]
<1>1. /\ row.status = status /\ row.states = states
      /\ c.seen = row /\ c.node = call[r].node
  BY WrittenIsTyped DEF Writing
<1>2. run' = row /\ Continue(r, point, c) /\ done' = done
  BY DEF Writing, history
<1>3. point \in {"idle", "execute"} /\ (point = "execute" => pc[r] = "begin")
  BY DEF Writing
<1>4. Knows(pc[r], call[r], done)
  BY DEF OrderInv
<1> HIDE DEF row, c
<1>5. Sound(row, done')
  BY <1>1, <1>2 DEF Sound
<1>6. point # "idle" => Knows(point, c, done')
  BY <1>1, <1>2, <1>3, <1>4, <1>5 DEF Knows, AtNode, Fetching
<1>7. QED
  BY <1>2, <1>5, <1>6, MovingKeepsOrder

LEMMA MarkingKeepsOrder ==
    ASSUME TypesInv, OrderInv, NEW r \in Runners, NEW status \in RunStatuses,
           pc[r] \in AtNode, NEW mark \in NodeStatuses, NEW point,
           Writing(r, status, Marked(call[r], mark), point),
           mark = "COMPLETED" => call[r].node \in done,
           status # "COMPLETED_VERIFIED",
           point = "execute" => status \notin Halted
    PROVE  OrderInv'
<1> DEFINE states == Marked(call[r], mark)
<1>1. /\ call[r].seen.states \in [Nodes -> NodeStatuses]
      /\ call[r].node \in Nodes /\ pc[r] \notin Fetching
  BY CallIsTyped DEF AtNode, Fetching
<1>2. /\ states \in [Nodes -> NodeStatuses]
      /\ \A n \in Nodes : states[n] = IF n = call[r].node THEN mark
                                      ELSE call[r].seen.states[n]
  BY <1>1 DEF Marked
<1>3. Sound(call[r].seen, done) /\ DependsOn[call[r].node] \subseteq done
  BY <1>1 DEF OrderInv, Knows
<1> HIDE DEF states
<1>4. \A n \in Nodes :
          /\ states[n] = "COMPLETED" => n \in done
          /\ states[n] # "PENDING" => DependsOn[n] \subseteq done
  BY <1>2, <1>3 DEF Sound
<1>5. Writing(r, status, states, point)
  BY DEF states
<1>6. QED
  BY <1>2, <1>4, <1>5, WritingKeepsOrder

LEMMA AnsweringKeepsOrder ==
    ASSUME TypesInv, OrderInv, NEW r \in Runners, NEW outcome \in Outcomes,
           Answering(r, outcome)
    PROVE  OrderInv'
<1> DEFINE c == [call[r] EXCEPT !.outcome = outcome]
<1>1. pc[r] = "execute" /\ Continue(r, "report", c) /\ run' = run
  BY DEF Answering
<1>2. call[r] \in Calls
  BY <1>1, CallIsTyped DEF Fetching
<1>3. c.seen = call[r].seen /\ c.node = call[r].node /\ c.outcome = outcome
  BY <1>2 DEF Calls
<1>4. done \subseteq done' /\ (outcome = "completed" => call[r].node \in done')
  BY DEF Answering
<1>5. Knows(pc[r], call[r], done) /\ (run # None => Sound(run, done))
  BY DEF OrderInv
<1> HIDE DEF c
<1>6. run' # None => Sound(run', done')
  BY <1>1, <1>4, <1>5 DEF Sound
<1>7. Sound(call[r].seen, done)
  BY <1>1, <1>5 DEF Knows, Fetching
<1>8. (\A n \in Nodes : call[r].seen.states[n] = "COMPLETED" => n \in done')
      /\ (\A n \in Nodes : call[r].seen.states[n] # "PENDING" =>
                               DependsOn[n] \subseteq done')
  BY <1>4, <1>7 DEF Sound
<1>9. Knows("report", c, done')
  BY <1>1, <1>3, <1>4, <1>5, <1>7, <1>8 DEF Knows, Sound, Fetching, AtNode
<1>10. QED
  BY <1>1, <1>4, <1>6, <1>9, MovingKeepsOrder

LEMMA OrderStep == TypesInv /\ OrderInv /\ [Next]_vars => OrderInv'
<1> SUFFICES ASSUME TypesInv, OrderInv, [Next]_vars PROVE OrderInv'
  OBVIOUS
<1>1. CASE UNCHANGED vars
  BY <1>1 DEF OrderInv, Knows, Sound, vars
<1>2. ASSUME NEW r \in Runners, Shape(r)
      PROVE  OrderInv'
  <2>1. ASSUME Returning(r) \/ \E c \in Contexts : Preparing(r, c)
        PROVE  OrderInv'
    <3>1. UNCHANGED <<run, done>>
      BY <2>1 DEF Returning, Preparing, history
    <3>2. QED
      BY <2>1, <3>1, RestKeepsOrder
  <2>2. ASSUME pc[r] = "begin",
               Writing(r, "RUNNING", Marked(call[r], "RUNNING"), "execute")
        PROVE  OrderInv'
    BY <2>2, MarkingKeepsOrder DEF AtNode, RunStatuses, NodeStatuses, Halted
  <2>3. ASSUME pc[r] = "report",
               Writing(r, After(call[r].outcome)[2],
                       Marked(call[r], After(call[r].outcome)[1]), "idle")
        PROVE  OrderInv'
    <3>1. call[r].outcome \in Outcomes
      BY <2>3, CallIsTyped DEF Fetching, Calls
    <3>2. call[r].outcome = "completed" => call[r].node \in done
      BY <2>3 DEF OrderInv, Knows, Fetching
    <3> DEFINE mark == After(call[r].outcome)[1]
               status == After(call[r].outcome)[2]
    <3>3. /\ mark \in NodeStatuses /\ (mark = "COMPLETED" => call[r].node \in done)
          /\ status \in RunStatuses /\ status # "COMPLETED_VERIFIED"
      BY <3>1, <3>2, AfterIsTyped
    <3>4. Writing(r, status, Marked(call[r], mark), "idle")
      BY <2>3
    <3> HIDE DEF mark, status
    <3>5. QED
      BY <2>3, <3>3, <3>4, MarkingKeepsOrder DEF AtNode
  <2>4. ASSUME pc[r] \in {"interrupt", "complete"}
        PROVE  /\ Sound(call[r].seen, done)
               /\ call[r].seen.states \in [Nodes -> NodeStatuses]
               /\ pc[r] = "complete" =>
                      \A n \in Nodes : call[r].seen.states[n] = "COMPLETED"
    BY <2>4, CallIsTyped DEF OrderInv, Knows, Fetching
  <2>5. ASSUME pc[r] = "interrupt",
               Writing(r, "PAUSED_UNCERTAIN", Interrupted(call[r].seen.states), "idle")
        PROVE  OrderInv'
    <3> DEFINE states == Interrupted(call[r].seen.states)
    <3>1. /\ states \in [Nodes -> NodeStatuses]
          /\ \A n \in Nodes :
                /\ states[n] = "COMPLETED" => call[r].seen.states[n] = "COMPLETED"
                /\ states[n] # "PENDING" => call[r].seen.states[n] # "PENDING"
      BY <2>4, <2>5 DEF Interrupted, NodeStatuses
    <3>2. Writing(r, "PAUSED_UNCERTAIN", states, "idle")
      BY <2>5
    <3> HIDE DEF states
    <3>3. \A n \in Nodes :
              /\ states[n] = "COMPLETED" => n \in done
              /\ states[n] # "PENDING" => DependsOn[n] \subseteq done
      BY <2>4, <2>5, <3>1 DEF Sound
    <3>4. QED
      BY <3>1, <3>2, <3>3, WritingKeepsOrder DEF RunStatuses
  <2>6. ASSUME pc[r] = "complete",
               Writing(r, "COMPLETED_VERIFIED", call[r].seen.states, "idle")
        PROVE  OrderInv'
    BY <2>4, <2>6, WritingKeepsOrder DEF RunStatuses, Sound
  <2>7. QED
    BY <1>2, <2>1, <2>2, <2>3, <2>5, <2>6, DecidingKeepsOrder,
       AnsweringKeepsOrder DEF Shape
<1>3. QED
  BY <1>1, <1>2, StepsHaveShapes

LEMMA OrderHolds == Spec => [](TypesInv /\ OrderInv)
<1>1. Init => OrderInv
  BY DEF Init, OrderInv, Knows, Fetching
<1>2. QED
  BY <1>1, TypesInit, TypesStep, OrderStep, PTL DEF Spec

\* For any number of runners that write from copies of any age: no node is executed
\* before all it depends on answered, and no run completes before all nodes did.
THEOREM NodesKeepOrder == Spec => []NodesInOrder
<1>1. TypesInv /\ OrderInv => NodesInOrder
  <2> SUFFICES ASSUME TypesInv, OrderInv PROVE NodesInOrder
    OBVIOUS
  <2>1. \A n \in Nodes : Executing(n) => DependsOn[n] \subseteq done
    BY DEF Executing, OrderInv, Knows, Fetching, AtNode
  <2>2. run # None /\ run.status = "COMPLETED_VERIFIED" => done = Nodes
    BY DEF OrderInv, Sound, TypesInv, TypeOK
  <2>3. QED
    BY <2>1, <2>2 DEF NodesInOrder
<1>2. QED
  BY <1>1, OrderHolds, PTL

\* However many runners step an instance, and however late one of them writes, a
\* checkpoint that came to a halt is never written again.
THEOREM HaltsAreFinal == Spec => HaltIsFinal
<1>1. TypesInv /\ OrderInv /\ [Next]_vars =>
          [run # None /\ run.status \in Halted => UNCHANGED run]_vars
  <2> SUFFICES ASSUME TypesInv, OrderInv, Next, run # None, run.status \in Halted
               PROVE  run' = run
    OBVIOUS
  <2>1. PICK r \in Runners : Shape(r)
    BY StepsHaveShapes
  <2>2. ASSUME NEW status, NEW states, NEW point, Writing(r, status, states, point)
        PROVE  FALSE
    <3>1. run.status = call[r].seen.status /\ pc[r] \notin Fetching
      BY <2>2 DEF Writing, Current
    <3>2. call[r].seen.status \notin Halted
      BY <3>1 DEF OrderInv, Knows
    <3>3. QED
      BY <3>1, <3>2
  <2>3. ASSUME NEW c \in Contexts, NEW row, Deciding(r, c, row)
        PROVE  run' = run
    BY <2>3 DEF Deciding
  <2>4. QED
    BY <2>1, <2>2, <2>3 DEF Shape, Returning, Preparing, Answering
<1>2. QED
  BY <1>1, OrderHolds, PTL DEF Spec, HaltIsFinal

-----------------------------------------------------------------------------
(***************************************************************************)
(* A node starts once and uncertainty halts, for one runner.               *)
(***************************************************************************)

\* The same instance is never stepped by two runners at once.
OneRunner == \A q, r \in Runners : q = r

\* A node was started at most once, and not while it is on record as pending; nothing
\* goes on from an uncertain node.
Counted(row, counts) ==
    /\ \A n \in Nodes : counts[n] \in {0, 1}
    /\ \A n \in Nodes : row = None \/ row.states[n] = "PENDING" => counts[n] = 0
    /\ row # None /\ row.status \notin Halted => In(row, "UNCERTAIN") = {}

\* The copy of the one runner is the checkpoint, and its node the only one that runs.
Alone(point, c, row, counts) ==
    point \notin Fetching =>
        /\ c.seen = row
        /\ point = "begin" =>
               /\ In(row, "RUNNING") = {}
               /\ row.states[c.node] \in {"PENDING", "PAUSED"}
               /\ c.resumed <=> row.states[c.node] = "PAUSED"
        /\ point \in {"execute", "report"} => In(row, "RUNNING") = {c.node}
        /\ point = "execute" => c.resumed \/ counts[c.node] = 0

OnceInv ==
    /\ Counted(run, starts)
    /\ \A r \in Runners : Alone(pc[r], call[r], run, starts)

LEMMA MovingKeepsOnce ==
    ASSUME TypesInv, OneRunner, NEW r \in Runners, NEW point, NEW c,
           Continue(r, point, c), Counted(run', starts'),
           point # "idle" => Alone(point, c, run', starts')
    PROVE  OnceInv'
<1>1. pc'[r] = point /\ (point # "idle" => call'[r] = c)
  BY DEF Continue, TypesInv, TypeOK
<1>2. Alone(pc'[r], call'[r], run', starts')
  BY <1>1 DEF Alone, Fetching
<1>3. QED
  BY <1>2 DEF OnceInv, OneRunner

LEMMA DecidingKeepsOnce ==
    ASSUME TypesInv, OnceInv, OneRunner, NEW r \in Runners, NEW c \in Contexts,
           NEW row \in Checkpoints, Deciding(r, c, row)
    PROVE  OnceInv'
<1> DEFINE n == Chosen(row)
           made == NewCall(c, row, n)
<1>1. starts' = starts /\ run' = row /\ Continue(r, Choice(row), made)
  BY DEF Deciding, history
<1>2. row # None
  BY PlaybookAssumption
<1>3. Counted(row, starts)
  <2>1. CASE run = None
    <3>1. row = [context |-> c, status |-> "PLANNED",
                 states |-> [m \in Nodes |-> "PENDING"]]
      BY <2>1 DEF Deciding
    <3>2. row.states = [m \in Nodes |-> "PENDING"]
      BY <3>1
    <3>3. In(row, "UNCERTAIN") = {}
      BY <3>2 DEF In
    <3>4. \A m \in Nodes : starts[m] = 0
      BY <2>1 DEF OnceInv, Counted
    <3>5. QED
      BY <3>3, <3>4 DEF Counted
  <2>2. CASE run # None
    BY <2>2 DEF Deciding, OnceInv
  <2>3. QED
    BY <2>1, <2>2
<1>4. /\ made.seen = row /\ made.node = n
      /\ made.resumed <=> n # None /\ row.states[n] = "PAUSED"
  BY DEF NewCall
<1>5. Choice(row) = "begin" =>
          /\ In(row, "RUNNING") = {} /\ n # None
          /\ row.states[n] \in {"PENDING", "PAUSED"}
  BY ChoiceIsSound, PlaybookAssumption DEF Candidates, In
<1>6. Choice(row) \in {"idle", "interrupt", "begin", "complete"}
  BY ChoiceIsSound
<1> HIDE DEF made, n
<1>7. Alone(Choice(row), made, row, starts)
  BY <1>4, <1>5, <1>6 DEF Alone
<1>8. QED
  BY <1>1, <1>3, <1>7, MovingKeepsOnce

\* The node of a call gets a mark.
LEMMA MarkingKeepsOnce ==
    ASSUME TypesInv, OrderInv, OnceInv, OneRunner, NEW r \in Runners,
           NEW status \in RunStatuses, NEW point,
           NEW mark \in NodeStatuses \ {"PENDING"},
           Writing(r, status, Marked(call[r], mark), point),
           \/ pc[r] = "begin" /\ mark = "RUNNING"
           \/ pc[r] = "report" /\ point = "idle" /\ mark # "RUNNING",
           mark = "UNCERTAIN" => status \in Halted
    PROVE  OnceInv'
<1> DEFINE states == Marked(call[r], mark)
           row == Written(r, status, states)
           c == [call[r] EXCEPT !.seen = row]
           n == call[r].node
<1>0. pc[r] \notin Fetching /\ pc[r] \in AtNode
  BY DEF Fetching, AtNode
<1>1. call[r].seen.states \in [Nodes -> NodeStatuses] /\ n \in Nodes
  BY <1>0, CallIsTyped
<1>2. /\ states \in [Nodes -> NodeStatuses]
      /\ \A m \in Nodes : states[m] = IF m = n THEN mark ELSE call[r].seen.states[m]
  BY <1>1 DEF Marked
<1>3. /\ row # None /\ row.status = status /\ row.states = states
      /\ c.seen = row /\ c.node = n /\ c.resumed = call[r].resumed
  <2>1. /\ row # None /\ row.status = status /\ row.states = states
        /\ c.seen = row /\ c.node = call[r].node /\ c.resumed = call[r].resumed
    <3>1. states \in [Nodes -> NodeStatuses] /\ call[r] \in Calls
        /\ call[r].seen \in Checkpoints
      BY <1>0, <1>2, CallIsTyped
    <3> HIDE DEF states
    <3>2. row \in Checkpoints
      BY <3>1 DEF Written, Checkpoints
    <3>3. row.status = status /\ row.states = states
      BY DEF Written
    <3> HIDE DEF row
    <3>4. c.seen = row /\ c.node = call[r].node /\ c.resumed = call[r].resumed
      BY <3>1 DEF Calls
    <3>5. QED
      BY <3>2, <3>3, <3>4, PlaybookAssumption
  <2>2. QED
    BY <2>1 DEF n
<1>4. run' = row /\ Continue(r, point, c) /\ starts' = starts
      /\ point \in {"idle", "execute"}
  BY DEF Writing, history
<1>5. call[r].seen = run /\ run # None /\ run.status \notin Halted
  BY <1>0, CallIsTyped, PlaybookAssumption DEF OnceInv, Alone, OrderInv, Knows
<1>6. In(run, "UNCERTAIN") = {}
  BY <1>5 DEF OnceInv, Counted
<1> HIDE DEF states, row, c, n
<1>7. Counted(row, starts)
  <2>1. \A m \in Nodes : row.states[m] = "PENDING" => run.states[m] = "PENDING"
    BY <1>2, <1>3, <1>5
  <2>2. row.status \notin Halted => In(row, "UNCERTAIN") = {}
    BY <1>2, <1>3, <1>5, <1>6 DEF In
  <2>3. QED
    BY <1>3, <1>5, <2>1, <2>2 DEF OnceInv, Counted
<1>8. point = "execute" => Alone(point, c, row, starts)
  <2>1. SUFFICES ASSUME point = "execute" PROVE Alone(point, c, row, starts)
    OBVIOUS
  <2>2. pc[r] = "begin" /\ mark = "RUNNING"
    BY <2>1
  <2>3. /\ In(run, "RUNNING") = {} /\ run.states[n] \in {"PENDING", "PAUSED"}
        /\ call[r].resumed <=> run.states[n] = "PAUSED"
    BY <2>2 DEF OnceInv, Alone, Fetching, n
  <2>4. In(row, "RUNNING") = {n}
    BY <1>1, <1>2, <1>3, <1>5, <2>2, <2>3 DEF In
  <2>5. call[r].resumed \/ starts[n] = 0
    BY <1>1, <2>3, <1>5 DEF OnceInv, Counted
  <2>6. QED
    BY <1>3, <2>1, <2>4, <2>5 DEF Alone
<1>9. QED
  BY <1>4, <1>7, <1>8, MovingKeepsOnce

LEMMA AnsweringKeepsOnce ==
    ASSUME TypesInv, OnceInv, OneRunner, NEW r \in Runners,
           NEW outcome \in Outcomes, Answering(r, outcome)
    PROVE  OnceInv'
<1> DEFINE c == [call[r] EXCEPT !.outcome = outcome]
           n == call[r].node
<1>1. /\ pc[r] = "execute" /\ Continue(r, "report", c) /\ run' = run
      /\ starts' = [starts EXCEPT ![n] = @ + IF call[r].resumed THEN 0 ELSE 1]
  BY DEF Answering
<1>2. call[r] \in Calls /\ n \in Nodes /\ run # None
  BY <1>1, CallIsTyped, PlaybookAssumption DEF Fetching, AtNode
<1>3. c.seen = call[r].seen /\ c.node = n
  BY <1>2 DEF Calls
<1>4. /\ call[r].seen = run /\ In(run, "RUNNING") = {n}
      /\ call[r].resumed \/ starts[n] = 0
  BY <1>1 DEF OnceInv, Alone, Fetching
<1>5. run.states[n] = "RUNNING"
  BY <1>4 DEF In
<1>6. starts \in [Nodes -> Nat] /\ starts[n] \in {0, 1}
  BY <1>2 DEF TypesInv, TypeOK, OnceInv, Counted
<1> HIDE DEF c, n
<1>7. /\ starts'[n] \in {0, 1}
      /\ \A m \in Nodes \ {n} : starts'[m] = starts[m]
  BY <1>1, <1>2, <1>4, <1>6 DEF n
<1>8. Counted(run, starts')
  BY <1>2, <1>5, <1>7 DEF OnceInv, Counted
<1>9. Alone("report", c, run, starts')
  BY <1>3, <1>4 DEF Alone
<1>10. QED
  BY <1>1, <1>8, <1>9, MovingKeepsOnce

\* A checkpoint is written that halts the run.
LEMMA HaltingKeepsOnce ==
    ASSUME TypesInv, OnceInv, OneRunner, NEW r \in Runners,
           NEW status \in RunStatuses \cap Halted,
           NEW states \in [Nodes -> NodeStatuses],
           Writing(r, status, states, "idle"),
           \A n \in Nodes : states[n] = "PENDING" => call[r].seen.states[n] = "PENDING"
    PROVE  OnceInv'
<1> DEFINE row == Written(r, status, states)
           c == [call[r] EXCEPT !.seen = row]
<1>1. pc[r] \notin Fetching /\ run' = row /\ Continue(r, "idle", c) /\ starts' = starts
  BY DEF Writing, history
<1>2. row # None /\ row.status = status /\ row.states = states
  BY <1>1, WrittenIsTyped
<1>3. call[r].seen = run
  BY <1>1 DEF OnceInv, Alone
<1> HIDE DEF row, c
<1>4. Counted(row, starts)
  BY <1>2, <1>3 DEF OnceInv, Counted
<1>5. QED
  BY <1>1, <1>4, MovingKeepsOnce

LEMMA OnceStep ==
    ASSUME OneRunner
    PROVE  TypesInv /\ OrderInv /\ OnceInv /\ [Next]_vars => OnceInv'
<1> SUFFICES ASSUME TypesInv, OrderInv, OnceInv, [Next]_vars PROVE OnceInv'
  OBVIOUS
<1>1. CASE UNCHANGED vars
  BY <1>1 DEF OnceInv, vars
<1>2. ASSUME NEW r \in Runners, Shape(r)
      PROVE  OnceInv'
  <2>1. CASE Returning(r)
    <3>1. run' = run /\ starts' = starts /\ Continue(r, "idle", None)
      BY <2>1 DEF Returning, Return
    <3>2. QED
      BY <3>1, MovingKeepsOnce DEF OnceInv
  <2>2. ASSUME NEW c \in Contexts, Preparing(r, c)
        PROVE  OnceInv'
    <3>1. /\ run' = run /\ starts' = starts
          /\ Continue(r, "insert", NewCall(c, None, None))
      BY <2>2 DEF Preparing, history
    <3>2. Alone("insert", NewCall(c, None, None), run, starts)
      BY DEF Alone, Fetching
    <3>3. QED
      BY <3>1, <3>2, MovingKeepsOnce DEF OnceInv
  <2>3. ASSUME pc[r] = "begin",
               Writing(r, "RUNNING", Marked(call[r], "RUNNING"), "execute")
        PROVE  OnceInv'
    BY <2>3, MarkingKeepsOnce DEF RunStatuses, NodeStatuses
  <2>4. ASSUME pc[r] = "report",
               Writing(r, After(call[r].outcome)[2],
                       Marked(call[r], After(call[r].outcome)[1]), "idle")
        PROVE  OnceInv'
    <3> DEFINE mark == After(call[r].outcome)[1]
               status == After(call[r].outcome)[2]
    <3>1. call[r].outcome \in Outcomes
      BY <2>4, CallIsTyped DEF Fetching, Calls
    <3>2. /\ mark \in NodeStatuses \ {"PENDING"} /\ mark # "RUNNING"
          /\ status \in RunStatuses
          /\ mark = "UNCERTAIN" => status \in Halted
      BY <3>1, AfterIsTyped
    <3>3. Writing(r, status, Marked(call[r], mark), "idle")
      BY <2>4
    <3> HIDE DEF mark, status
    <3>4. QED
      BY <2>4, <3>2, <3>3, MarkingKeepsOnce
  <2>5. ASSUME pc[r] = "interrupt",
               Writing(r, "PAUSED_UNCERTAIN", Interrupted(call[r].seen.states), "idle")
        PROVE  OnceInv'
    <3> DEFINE states == Interrupted(call[r].seen.states)
    <3>1. call[r].seen.states \in [Nodes -> NodeStatuses]
      BY <2>5, CallIsTyped DEF Fetching
    <3>2. /\ states \in [Nodes -> NodeStatuses]
          /\ \A n \in Nodes :
                states[n] = "PENDING" => call[r].seen.states[n] = "PENDING"
      BY <3>1 DEF Interrupted, NodeStatuses
    <3>3. Writing(r, "PAUSED_UNCERTAIN", states, "idle")
      BY <2>5
    <3> HIDE DEF states
    <3>4. QED
      BY <3>2, <3>3, HaltingKeepsOnce DEF RunStatuses, Halted
  <2>6. ASSUME pc[r] = "complete",
               Writing(r, "COMPLETED_VERIFIED", call[r].seen.states, "idle")
        PROVE  OnceInv'
    <3>1. call[r].seen.states \in [Nodes -> NodeStatuses]
      BY <2>6, CallIsTyped DEF Fetching
    <3>2. QED
      BY <2>6, <3>1, HaltingKeepsOnce DEF RunStatuses, Halted
  <2>7. QED
    BY <1>2, <2>1, <2>2, <2>3, <2>4, <2>5, <2>6, DecidingKeepsOnce,
       AnsweringKeepsOnce DEF Shape
<1>3. QED
  BY <1>1, <1>2, StepsHaveShapes

LEMMA OnceHolds ==
    ASSUME OneRunner
    PROVE  Spec => [](TypesInv /\ OrderInv /\ OnceInv)
<1>1. Init => OnceInv
  BY DEF Init, OnceInv, Counted, Alone, Fetching
<1>2. TypesInv /\ OrderInv /\ OnceInv /\ [Next]_vars => OnceInv'
  BY OnceStep
<1>3. QED
  BY <1>1, <1>2, OrderHolds, PTL DEF Spec

\* Where one runner steps the instance, no completed, paused or interrupted node is ever
\* started again, however often the runner crashes and with whatever context it returns.
THEOREM NodesStartOnce ==
    ASSUME OneRunner
    PROVE  Spec => []NodeStartsOnce
<1>1. TypesInv /\ OrderInv /\ OnceInv => NodeStartsOnce
  BY DEF OnceInv, Counted, NodeStartsOnce
<1>2. QED
  BY <1>1, OnceHolds, PTL

\* Where one runner steps the instance, a node is only executed while none is uncertain
\* and no other one is on record as running, so an interrupted node stops all of them.
THEOREM UncertaintyStopsAll ==
    ASSUME OneRunner
    PROVE  Spec => []UncertaintyHalts
<1>1. TypesInv /\ OrderInv /\ OnceInv => UncertaintyHalts
  <2> SUFFICES ASSUME TypesInv, OrderInv, OnceInv, NEW n \in Nodes,
                      NEW r \in Runners, pc[r] = "execute", call[r].node = n
               PROVE  In(run, "UNCERTAIN") = {} /\ In(run, "RUNNING") = {n}
    BY DEF UncertaintyHalts, Executing
  <2>1. call[r].seen = run /\ In(run, "RUNNING") = {n}
    BY DEF OnceInv, Alone, Fetching
  <2>2. run # None /\ run.status \notin Halted
    BY <2>1, CallIsTyped, PlaybookAssumption DEF OrderInv, Knows, Fetching
  <2>3. QED
    BY <2>1, <2>2 DEF OnceInv, Counted
<1>2. QED
  BY <1>1, OnceHolds, PTL

=============================================================================
