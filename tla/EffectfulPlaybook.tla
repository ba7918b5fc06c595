------------------------- MODULE EffectfulPlaybook -------------------------
(***************************************************************************)
(* One durable playbook instance: EffectfulPlaybookRunner.step over        *)
(* DurablePlaybookStore, called by processes that share the checkpoint     *)
(* file.  A step reads the checkpoint, writes the chosen node as RUNNING,  *)
(* awaits its executor and writes the outcome; runners interleave between  *)
(* those, and a runner may crash at any of them.                           *)
(***************************************************************************)
EXTENDS Naturals, FiniteSets

CONSTANTS
    Runners,
    Nodes,        \* the nodes of the playbook, numbered in the order of their ids
    DependsOn,    \* [Nodes -> SUBSET Nodes]
    Contexts,     \* trusted digests a caller may present
    MaxCrashes,   \* bound on the crashes
    None

RunStatuses ==
    {"PLANNED", "RUNNING", "AWAITING_APPROVAL", "AWAITING_OBSERVATION",
     "PAUSED_UNCERTAIN", "MANUAL_HANDOFF", "COMPENSATION_REQUIRED",
     "COMPLETED_VERIFIED"}

NodeStatuses ==
    {"PENDING", "RUNNING", "PAUSED", "COMPLETED", "UNCERTAIN",
     "MANUAL_HANDOFF", "COMPENSATION_REQUIRED"}

\* The statuses in which step() returns the checkpoint as it is.
Halted ==
    {"PAUSED_UNCERTAIN", "MANUAL_HANDOFF", "COMPENSATION_REQUIRED",
     "COMPLETED_VERIFIED"}

\* What an executor returns; an exception counts as "uncertain".
Outcomes ==
    {"completed", "pause_approval", "pause_observation", "uncertain",
     "manual_handoff", "compensation_proposal"}

Points ==
    {"idle", "insert", "interrupt", "begin", "complete", "execute", "report"}

Checkpoints ==
    [context : Contexts, status : RunStatuses, states : [Nodes -> NodeStatuses]]

Calls ==
    [context : Contexts, seen : Checkpoints \cup {None},
     node : Nodes \cup {None}, resumed : BOOLEAN, outcome : Outcomes]

ASSUME PlaybookAssumption ==
    /\ Nodes \subseteq Nat
    /\ IsFiniteSet(Nodes)
    /\ \A n \in Nodes : DependsOn[n] \subseteq Nodes
    /\ MaxCrashes \in Nat
    /\ None \notin Nodes \cup Checkpoints \cup Calls

VARIABLES
    run,       \* effectful_playbooks: the checkpoint of the instance
    pc, call,  \* where each runner is, and the call it holds in memory
    starts,    \* executions of every node that are not resumptions
    done,      \* nodes whose executor answered that they are completed
    crashes

vars == <<run, pc, call, starts, done, crashes>>

Init ==
    /\ run = None
    /\ pc = [r \in Runners |-> "idle"]
    /\ call = [r \in Runners |-> None]
    /\ starts = [n \in Nodes |-> 0]
    /\ done = {}
    /\ crashes = 0

history == <<starts, done, crashes>>

-----------------------------------------------------------------------------
(***************************************************************************)
(* Reading the checkpoint and choosing what to do.                         *)
(***************************************************************************)

\* A runner goes on with its call, or returns (or raises) and forgets it.
Continue(r, point, c) ==
    /\ pc' = [pc EXCEPT ![r] = point]
    /\ call' = [call EXCEPT ![r] = IF point = "idle" THEN None ELSE c]

Return(r) == Continue(r, "idle", None)

In(row, status) == {n \in Nodes : row.states[n] = status}

\* Paused nodes go first; then pending nodes whose dependencies are completed.
Candidates(row) ==
    IF In(row, "PAUSED") # {} THEN In(row, "PAUSED")
    ELSE {n \in In(row, "PENDING") : DependsOn[n] \subseteq In(row, "COMPLETED")}

First(nodes) == CHOOSE n \in nodes : \A m \in nodes : n <= m

\* Mutant of Choice: a node found RUNNING is left to whoever started it.
ChoicePatient(row) ==
    IF row.status \in Halted \/ In(row, "RUNNING") # {} THEN "idle"
    ELSE IF Candidates(row) # {} THEN "begin"
    ELSE "complete"

Choice(row) ==
    IF row.status \in Halted THEN "idle"
    ELSE IF In(row, "RUNNING") # {} THEN "interrupt"
    ELSE IF Candidates(row) # {} THEN "begin"
    ELSE IF In(row, "COMPLETED") = Nodes THEN "complete"
    ELSE "idle"

NewCall(c, row, n) ==
    [context |-> c, seen |-> row, node |-> n,
     resumed |-> n # None /\ row.states[n] = "PAUSED", outcome |-> "uncertain"]

\* What step() does with the checkpoint it has.
Decide(r, c, row) ==
    LET n == IF Choice(row) = "begin" THEN First(Candidates(row)) ELSE None
    IN Continue(r, Choice(row), NewCall(c, row, n))

\* ensure(), the read: a checkpoint of other trusted digests is refused.
StartStep(r, c) ==
    /\ pc[r] = "idle"
    /\ \/ /\ run = None
          /\ Continue(r, "insert", NewCall(c, None, None))
       \/ /\ run # None
          /\ run.context = c
          /\ Decide(r, c, run)
    /\ UNCHANGED <<run, history>>

\* ensure(), the INSERT: the primary key decides.
Insert(r) ==
    LET c == call[r].context
        row == [context |-> c, status |-> "PLANNED",
                states |-> [n \in Nodes |-> "PENDING"]]
    IN /\ pc[r] = "insert"
       /\ \/ run = None /\ run' = row /\ Decide(r, c, row)
          \/ run # None /\ UNCHANGED run /\ Return(r)
       /\ UNCHANGED history

-----------------------------------------------------------------------------
(***************************************************************************)
(* Writing the checkpoint, and the node between two writes.                *)
(***************************************************************************)

\* The UPDATE of replace() finds its row: status and context are still those of
\* the copy.  The node states are not compared.
Current(r) ==
    /\ run # None
    /\ run.status = call[r].seen.status
    /\ run.context = call[r].seen.context

\* replace(): the whole checkpoint is written from the copy in memory, or the call
\* raises.
Replace(r, status, states, point) ==
    LET row == [context |-> call[r].seen.context, status |-> status,
                states |-> states]
    IN \/ /\ Current(r)
          /\ run' = row
          /\ Continue(r, point, [call[r] EXCEPT !.seen = row])
       \/ /\ ~Current(r)
          /\ Return(r)
          /\ UNCHANGED run

Marked(c, status) == [c.seen.states EXCEPT ![c.node] = status]

\* A node found RUNNING was interrupted: the whole DAG pauses.
Interrupt(r) ==
    LET states == call[r].seen.states IN
    /\ pc[r] = "interrupt"
    /\ Replace(r, "PAUSED_UNCERTAIN",
               [n \in Nodes |-> IF states[n] = "RUNNING" THEN "UNCERTAIN"
                                ELSE states[n]],
               "idle")
    /\ UNCHANGED history

Complete(r) ==
    /\ pc[r] = "complete"
    /\ Replace(r, "COMPLETED_VERIFIED", call[r].seen.states, "idle")
    /\ UNCHANGED history

\* Mutant of Begin: the executor is called before anything is on record.
BeginUnrecorded(r) ==
    /\ pc[r] = "begin"
    /\ Continue(r, "execute", call[r])
    /\ UNCHANGED <<run, history>>

\* The node is RUNNING on record before its executor is called.
Begin(r) ==
    /\ pc[r] = "begin"
    /\ Replace(r, "RUNNING", Marked(call[r], "RUNNING"), "execute")
    /\ UNCHANGED history

\* await executor.execute(): nothing keeps an executor from pausing again and again.
Execute(r) ==
    LET c == call[r] IN
    /\ pc[r] = "execute"
    /\ \E outcome \in Outcomes :
          /\ Continue(r, "report", [c EXCEPT !.outcome = outcome])
          /\ done' = IF outcome = "completed" THEN done \cup {c.node} ELSE done
    /\ starts' = [starts EXCEPT ![c.node] = @ + IF c.resumed THEN 0 ELSE 1]
    /\ UNCHANGED <<run, crashes>>

\* Mutant of After: an uncertain node does not pause the run.
AfterRegardless(outcome) ==
    CASE outcome = "completed" -> <<"COMPLETED", "RUNNING">>
      [] outcome = "pause_approval" -> <<"PAUSED", "AWAITING_APPROVAL">>
      [] outcome = "pause_observation" -> <<"PAUSED", "AWAITING_OBSERVATION">>
      [] OTHER -> <<"UNCERTAIN", "RUNNING">>

\* Status of the node and of the run after an outcome.
After(outcome) ==
    CASE outcome = "completed" -> <<"COMPLETED", "RUNNING">>
      [] outcome = "pause_approval" -> <<"PAUSED", "AWAITING_APPROVAL">>
      [] outcome = "pause_observation" -> <<"PAUSED", "AWAITING_OBSERVATION">>
      [] outcome = "uncertain" -> <<"UNCERTAIN", "PAUSED_UNCERTAIN">>
      [] outcome = "manual_handoff" -> <<"MANUAL_HANDOFF", "MANUAL_HANDOFF">>
      [] outcome = "compensation_proposal" ->
           <<"COMPENSATION_REQUIRED", "COMPENSATION_REQUIRED">>

Report(r) ==
    LET after == After(call[r].outcome) IN
    /\ pc[r] = "report"
    /\ Replace(r, after[2], Marked(call[r], after[1]), "idle")
    /\ UNCHANGED history

\* The process dies, or the task is cancelled, between two steps of a call.
Crash(r) ==
    /\ pc[r] # "idle"
    /\ crashes < MaxCrashes
    /\ crashes' = crashes + 1
    /\ Return(r)
    /\ UNCHANGED <<run, starts, done>>

Step(r) ==
    \/ Insert(r) \/ Interrupt(r) \/ Complete(r) \/ Begin(r) \/ Execute(r)
    \/ Report(r)

Next ==
    \E r \in Runners :
        \/ \E c \in Contexts : StartStep(r, c)
        \/ Step(r)
        \/ Crash(r)

Spec == Init /\ [][Next]_vars

\* A call runs to its end, and the host steps an instance that is not halted
\* again and again with its own context.
Resume(r) == run # None /\ run.status \notin Halted /\ StartStep(r, run.context)

Fairness == \A r \in Runners : WF_vars(Step(r)) /\ SF_vars(Resume(r))

FairSpec == Spec /\ Fairness

-----------------------------------------------------------------------------
(***************************************************************************)
(* Properties.                                                             *)
(***************************************************************************)

\* The checkpoint and the calls in progress have their types.
TypeOK ==
    /\ run \in Checkpoints \cup {None}
    /\ pc \in [Runners -> Points]
    /\ call \in [Runners -> Calls \cup {None}]
    /\ \A r \in Runners : call[r] = None <=> pc[r] = "idle"
    /\ starts \in [Nodes -> Nat]
    /\ done \subseteq Nodes
    /\ crashes \in 0..MaxCrashes

Executing(n) == \E r \in Runners : pc[r] = "execute" /\ call[r].node = n

\* A node is started once: completed, paused or interrupted nodes are not started
\* again, whatever crashes.
NodeStartsOnce == \A n \in Nodes : starts[n] <= 1

\* An interrupted or uncertain node pauses the entire DAG: whatever is executed, no
\* node of the instance is uncertain, and nothing else runs beside it.
UncertaintyHalts ==
    \A n \in Nodes :
        Executing(n) =>
            /\ In(run, "UNCERTAIN") = {}
            /\ In(run, "RUNNING") = {n}

\* Whoever steps the instance, and however old the copy it writes from: a node is only
\* executed after the executor of everything it depends on answered "completed", and a
\* run is only reported as completed when all of them did.
NodesInOrder ==
    /\ \A n \in Nodes : Executing(n) => DependsOn[n] \subseteq done
    /\ run # None /\ run.status = "COMPLETED_VERIFIED" => done = Nodes

\* No runner, however late it writes, moves an instance that came to a halt.
HaltIsFinal == [][run # None /\ run.status \in Halted => UNCHANGED run]_vars

Pausing ==
    \E r \in Runners :
        pc[r] = "report" /\ call[r].outcome \in {"pause_approval", "pause_observation"}

\* A run that is stepped again and again comes to a halt, also when its process crashed in
\* the middle of a node: unless executors answer for ever that they wait for an approval
\* or an observation, which nothing in the runner limits.
RunHalts == <>[]~Pausing => ((run # None) ~> (run # None /\ run.status \in Halted))

=============================================================================
