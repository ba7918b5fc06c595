# Verification of m365-secure-mcp

TLA+ models, model-checking runs and machine-checked proofs for
`m365-secure-mcp`, an MCP server that lets an assistant read and, under tight
control, change one Microsoft 365 tenant. Paths below are relative to the
repository; `pkg/` stands for `src/m365_secure_mcp/`.

The program's promise is about effects on a tenant it does not control: a write
happens at most once, only when it was approved, and whatever is on record
afterwards never contradicts what Microsoft did. It keeps that promise with a
few SQLite files shared by all server processes, and no other coordination.
That is where testing is weakest and a model is strongest, so that is where
most of this project is. The rest is about what decides whether a write may
happen at all: the signed policy, the secrets the processes share, and the
read-only evaluations an administrator relies on.

## The system

| Component | State it keeps | Operations | Correct when |
|---|---|---|---|
| Durable operator lifecycle (`pkg/operator_lifecycle.py`) | one row per operation: plan digest, status, polls, deadline, reason | `ensure`, `transition`, `execute`, `observe`, `cancel`, `public` | one effect per plan; verdicts agree with the provider; sent operations conclude |
| Approval authority (`pkg/operator_authority.py`) | ledger of burned grants | `validate`, `consume`, `consumed_exact` | grants are burned together, once, for the plan they sign |
| Change-safe operator (`pkg/change_safe.py`) | T1: request and approval files, ledger of consumed grants; T2/T3: none of its own | `execute_effectful`; plans, gate and broker of T1 | no effect without approval, on any path |
| Write ledger and tool runner (`pkg/state.py`, `pkg/server.py`, `pkg/protocol.py`) | one row per (tool, idempotency key); write counters per process | `ToolRunner.call`, `IdempotencyStore.execute`, `get_receipt` | a key is written once; a free key means no effect; envelopes do not mislead |
| Graph and Power BI clients (`pkg/graph.py`, `pkg/powerbi.py`) | counters, token cache | request loop with retries, error classification | only refused requests are repeated |
| Write tools (`pkg/server.py` from line 2162) | none of their own | reads before the write, the write, verification, for each of 25 tools | no update of others is lost; success is reported only of what was true |
| Effectful playbooks (`pkg/effectful_playbook.py`) | one checkpoint per instance | `step` | nodes run once, in order; uncertainty stops the DAG |
| Governed T1 profile write (`pkg/entra_operations.py`, `pkg/recovery.py`) | recovery capsules | preflight, gate, TOCTOU check, capsule, burn, PATCH, read back | capsule and burn precede the effect |
| Identity providers (`pkg/identity_operations.py`) | none | `preflight` and `execute` of seven directory operations | answers are truthful; the effect hits what was approved |
| Governance (`pkg/governance.py`, `pkg/operator_authority.py`) and the manifests it builds on (`pkg/contract_*.py`, `pkg/control_*.py`, `pkg/playbook_manifest.py`) | signed policy, registry, plans | validation, `authorize*`, `resolve_operation_governance`, approval sets | a decision is never weaker than what was signed or compiled |
| Secrets (`pkg/auth.py`, `pkg/recovery.py`, `pkg/assurance.py`) | keychain entries: token cache, key material; token cache in memory | account selection, token validation, principal; creation of keys, encryption | one principal per process; sealed records stay readable |
| Posture, drift, credential, debt and readiness evaluations (`pkg/entra_*.py`) | signed baselines and exceptions | authorize, read page by page, revalidate, conclude | findings and verdicts can be relied on |
| Live lab, radar, discovery, diagnostics, CLIs | run records, reports | operator-invoked sequences | cleanup and isolation |

How they interact: every tool call goes through `ToolRunner.call`. A write
reserves its idempotency key in the write ledger, runs its operation, and closes
the row by what the operation raised and by whether the process's write counters
moved. Most operations are one write, over Graph, an upload or Power BI, with
reads before it and a read back after it. The T1 operation
adds plan, approval and recovery capsule inside that call. T2/T3 effects go
through `ChangeSafeOperator.execute_effectful`, which burns signed approvals and
drives the durable lifecycle over an `OperationProvider`; playbook nodes may call
it in turn.

Every request of any of them takes a token of the pinned principal first. Reads
and evaluations authorize themselves against the policy the server loaded and,
before they report, against the file once more.

What is hard: several server processes (one per MCP client) open the same files
and the same keychain; a task can be cancelled at every `await` and a process can
die between any two transactions; Microsoft's answers are lost, late or
ambiguous; records are read, an `await` follows, and the stale copy is written
back; tenant, policy and clock change while an evaluation reads.

## Modules

`OperatorLifecycle` is the T2/T3 effect path: `execute_effectful`, the approval
ledger, `DurableOperationStore` and `DurableOperatorLifecycle`. A *runner* is a
process serving one call. `store` is the table `operation_lifecycle`, `consumed`
the table `consumed_operator_approvals`; `pc` and `call` are the local variables
of the call (`seen` is the record it holds in memory, `asOf` its time argument).
`world` is what the provider really did, which the code cannot see. Each SQLite
transaction and each awaited request is one action, so runners interleave
exactly where the code lets go: `Insert`, `Submit`, `CheckBurned`, `Burn`,
`Reload`, then the branches of `execute` (`MarkInterrupted`, `Promote`,
`CloseExpired`, `Preflight`, `Dispatch`, `CallProvider`, `RecordOutcome`,
`Finish`), of `observe` (`Attach`, `TimeOut`, `Poll`, `RecordPending`,
`RecordObservation`) and of `cancel` (`CallCancel`, `RecordCancelled`). All of
them write through `Transition`, which is `transition()`: allowed move, stored
status and plan unchanged, whole record written back from the copy in memory.

`EffectPromise` is what that path promises with processes, ledgers and crashes
taken away: per plan a verdict and an effect that change together only in the
permitted ways. `OperatorLifecycle` implements it under the refinement mapping
`VerdictBar`, which reads the verdict off the plan's row (`KeepsPromise`).

`OperatorLifecycleProofs` holds the theorems about `OperatorLifecycle`, the
refinement among them.

`WriteLedger` is every write tool: `ToolRunner.call`, `IdempotencyStore`, the
write half of `GraphClient._request_json_internal` and the envelope. A *task* is
one tool call, tasks belong to processes. `rows` is the table `operations`,
`reply` the envelope last returned, `applied` counts what really happened in the
tenant. The process-wide counters are kept as the set of counters that moved
since a call began, which is all the code asks of them; `OtherRequest` moves
them on behalf of calls that are not modelled. `WriteLedgerProofs` holds the
theorems.

`ToolWrites` looks into the operation of such a call, for each of the 25 tools
that write with one request (`Tools`, under their names in the code). A tool is
described by what it sends and compares afterwards, which reads it makes first,
whether it sends `If-Match`, and where the compared values come from. One
`request` runs under one key; `object` is what the write changes, with the
revision its ETag names, and `fence` is the other thing a tool relies on: that a
group is not role-assignable, a message still a draft, a task in its plan. Each
awaited request is a step (`Look`, `Ready`, `Send`, `Again`, `Answer`, `Verify`),
and other users edit (`OthersEdit`) or move (`OthersMove`) between any two.
`seen`, `over` and `stood` in a call are no variables of the code: they note the
revision each read found, the object the write replaced, and whether what the
tool compares has stood since. Fields are sorted by what the code does with them:
`"named"` stands for those it compares after the write, `"rest"` for those it
sends and does not look at again, and checklist items are kept apart because they
are counted. Every step between reservation and outcome is a step of
`WriteLedger` under the mapping `Ledger`, so that what is shown there of retries,
counters and receipts holds of each tool. `ToolWritesProofs` holds the theorems.

`EffectfulPlaybook` is one playbook instance: `step` reads the checkpoint,
decides (`Choice`), writes the node as RUNNING (`Begin`), awaits the executor
(`Execute`) and writes the outcome (`Report`). `starts` counts executions that
are not resumptions, and `done` holds the nodes whose executor answered that they
are completed; neither is a variable of the code. Executors are external and may
return any outcome, a pause any number of times. `EffectfulPlaybookProofs` holds the theorems.

`GovernedWrite` is the T1 write of one user's profile:
`EntraOperationalProfileService.execute` with the external approval broker, the
ledger of consumed approvals and the recovery capsules. A *process* serves one
call at a time and a call stands for its idempotency key, from which the code
derives the plan id and the names of the approval files. `requests` and
`approvals` are those files, `consumed` is the table `consumed_approvals`,
`capsules` the directory of recovery capsules, `policy` the signed policy on disk
and `loaded` the one each process started with. One action per awaited request,
file or transaction, in the order of the code: `Claim`, `Authorize`, `PreRead`,
`PreRoles`, `Prepare`, `Gate`, then the second round `Refresh`, `ReRead`,
`ReRoles`, then `StoreCapsule`, `Burn`, `Patch`, `Verify`. `Fail` and `Refuse` are
the exceptions of each. Between any two steps the approver signs (`Sign`) or
removes an approval (`Discard`), the owner changes the policy (`ChangePolicy`),
another administrator or a directory synchronization changes the user
(`ChangeUser`), a PATCH that was taken becomes visible (`LateEffect`), a call is
lost (`Lose`) or a process restarts (`Restart`). The write ledger is
`WriteLedger` seen from outside: a key is free, claimed or closed, and a refusal
may free it or close it, as the counters of the process decide. `moved` in a call
is no variable of the code: it notes what others changed after the call had
checked it for the last time, which no client of Graph could prevent, so that the
properties speak of everything else.

`GovernedWriteProofs` holds the theorems about it.

`IdentityProvider` is one execution of a T2 identity operation behind
`OperatorLifecycle!CallProvider`. The provider looks at the directory three times
(`round`), each look is a list of awaited requests (`Requests`, one `Read` each),
and others change the directory in between (`ChangeDirectory`). `Conclude` is what
follows a complete look, `Write` the request with its repetitions (`Resent`), and
`Verdict` what the provider makes of the last answer. `held` and `matched` are no
variables of the code; they note what was true of the directory at some instant of
the call, which is the most a client of Graph can rely on.

`LocalSecrets` is what the processes of a deployment share through the keychain.
The first half is the creation of key material, which `recovery.py` and
`assurance.py` do alike: get, generate, set, seal. The second is the token cache
in memory (`cache`) and in the keychain (`entry`), the account a token is taken
for (`TokenSources`) and the principal a Graph client is pinned to.
`IdentityProofs` holds the theorems about it and about `IdentityProvider`: the two
share no state, and its module extends both, which is why the specification here
is called `SecretsSpec`.

`GovernanceRules` are the rules of a signed policy as operators: what is a valid
document (`Loadable`), what fits the compiled manifests (`FitsManifests`), and
what `authorize`, its variants and `resolve_operation_governance` decide.
`GovernancePolicy` puts them to use over time: an administrator replaces policy
and registry, a server starts with the one and a live lab with both (`StartServer`,
`StartLab`), the server decides (`Read`, `ReadPlaybook`, `Write`), the lab builds a
plan (`BuildPlan`) and executes it: it burns approvals (`Burn`), promotes the row
(`Promote`) and goes on to the provider (`AuthorizeEffect`), each under the policy of
the process that runs then (`Governed`), since a process may be gone after any of them.
As in the code, only `Burn` validates approvals; `Promote` takes the word of the ledger
and `AuthorizeEffect` that of the row. `plan`, `row` and `burn` are the private state
that survives a start; `burn` notes with the approvals the registry they were validated
against. `GovernancePolicyProofs` holds the theorems.

`EntraClassification` builds on the same rules: the findings of the drift,
credential, posture, debt and readiness evaluations, their verdicts and the
exceptions that excuse them. `EntraEvidence` runs them: `Begin` lays out the steps
of a call, `Authorize` and the reads follow one await at a time (`ReadOne`,
`ReadPage`, `ReadCatalog`), `Conclude...` is the stretch without an await from the
reread of the policy to the report. The readiness playbook runs its two nodes in the
order of their ids, credentials before grants (`OrderedNodes`), and reports what is
concluded of them as `nodes` even where it halts. `Change`, `ReplacePolicy`, `Tick` and
`Restart` happen at any time. `steady` in a call is no variable of the code: it
notes what was there, unchanged, while a source was read. `EntraEvidenceProofs`
holds the theorems about both.

How they fit together: `ToolWrites` implements the operation `WriteLedger`
leaves open; `OperatorLifecycle` takes the provider's answers as given,
`IdentityProvider` shows what they mean; `GovernancePolicy` decides the mode and
the approvals `OperatorLifecycle` burns, and the policy `GovernedWrite` reloads;
`EntraClassification` extends `GovernanceRules`, so evaluations are authorized by
the operators the proofs are about.

The `MC...` modules only give values to constants. An operator whose comment
calls it a mutant of another one is a plausible wrong version of it: replacing
the original by it must break the property named in `PROJECT.json`, which shows
that the property depends on that line of code.

## Runs

| Run | Question | Bounds |
|---|---|---|
| `lifecycle_two_runners` | Does the effect path keep its promises when two processes execute, resume, observe and cancel one operation and a crash hits any step? | 1 plan under dual control, 2 grants of 2 authorities, 3 instants (before, at and after the expiry of the first grant; the last is the plan's end), 2 polls, 1 crash, runners symmetric |
| `lifecycle_one_runner` | Does a sent operation conclude, are polls lost only to crashes, and do the unique plan digest and the burn hold when one plan is filed under two operation ids? | 1 process, 2 operations, 3 grants of 2 authorities, 3 instants, 2 polls, 2 crashes |
| `lifecycle_crash_stuck` | violation: a verified row is stranded by a crash | 1 process, 1 crash |
| `ledger_two_processes` | Is a key written once, does a free key mean no effect, does a reservation resolve? | 2 processes with one task each, 1 key, 2 payloads, 1 retry, 1 loss |
| `tool_writes` | Is an update of others ever lost, a checklist overfilled, a success untrue? Is every tool an operation of `WriteLedger`? | all 25 tools, every request and every object to start from over 3 items (symmetric), a cap of 2 items, 1 repetition, 2 changes by others |
| `playbook_one_runner` | Do nodes run once, does uncertainty stop the DAG, does the run halt? | a join of 3 nodes, 2 trusted contexts, any number of pauses, 2 crashes |
| `governed_write` | Is an approval spent once, does a key take effect once, does a PATCH hit what was planned and approved, can it be undone? | 2 processes (symmetric), 2 keys that undo each other, 3 profiles, all 4 policies, 3 instants, plans of 2 and approvals of 1 instant, write window of 2, 1 approval, 1 change by others, 1 loss |
| `identity_provider` | Does one execution take effect once, on what was approved, and is its answer true? | all 7 operations, every unprivileged user to start from, 1 repetition, 2 changes by others |
| `identity_removal` | violation: a removal answered with a gateway error is reported as not sent | 1 operation, 1 repetition, no change by others |
| `local_secrets` | Do sealed records stay readable, and do requests leave as the pinned principal? | 2 processes (symmetric), 3 accounts, a policy of one object id and one of a domain, 2 records, 2 ended sessions or restarts |
| `governance_policy` | Is anything ever authorized that the tenant did not sign for, whatever is replaced and restarted between plan, burn and effect? | 100-odd documents of 3 schemas, sound ones and ones changed in one or two places; 3 registries; 4 contracts of 3 tiers, 2 playbooks, 2 operations, 2 controls; 4 instants |
| `entra_evidence` | Is a report complete, made under the policy in force, and right, also where a playbook joins two nodes or halts? | 2 workloads, 2 pages and 3 records per read, 1 owner, 1 resource catalogue, 7 policies, 3 instants, 1 change to tenant or policy |

Why the bounds suffice for what they are meant to show: a conflict in
`transition`, `consume` or a reservation needs two processes and one row, and
every interleaving of two calls is covered, a restarted process included (the
same runner calls again after `Crash`). Two operations matter only
through the unique plan digest, which one process that files the plan again
exercises as well as two, since `ensure` is one transaction; three grants only
through a second signature of the same authority. Three instants put a call
before, at and after each of the two deadlines. Two polls are the least for which
a stale counter can be written back over a newer one. In `governed_write` one key applies what the other one undoes,
so each can move the user away from the other's plan; one approval suffices for
two calls of its key to race for it; one change by others can fall before,
between and after the two rounds of checks; the third profile is one a user can
be moved to that neither key asks for, so that a key gets a second plan of
another meaning while the approval of its first one is still on file. The
theorems below carry the main invariants to every size.

In `tool_writes` a cap of two with three items is the least where a request may
add one item or two, with and without room, to a checklist that others fill
meanwhile. One change by others can fall before, between and after any two
requests of a call; a second one can undo it, or make the counted checklist wrong
in the other direction. A second call under the key starts when the row is free.

In `identity_provider` two changes suffice for a state to be left and entered
again between two looks, and one repetition for a write to be sent twice. In
`local_secrets` a conflict over an entry of the keychain needs two processes, and
three accounts are one that is right, one that only the domain admits and one
that nothing admits. In `governance_policy` each rule has a document that breaks
it alone, and each pair of rules that meet in a decision (tier and mode, groups
and count, override and floor, ttl and expiry) one that differs in both. In
`entra_evidence` two pages are the least with a change between them, bounds are
met exactly and passed by one, and every kind of finding, exception and failure
has a record or a policy that causes it. Bounds of the model are `MaxTime`,
`MaxCrashes`, `MaxGrants`, `MaxChanges`, `MaxLosses`, `MaxRevocations` and the
`MaxRecords` of `LocalSecrets`; the other limits are settings of the program.

Symmetry is used for runners and processes in safety runs only; liveness runs
have none. Deadlock is checked where a finished call leaves its process free to
call again. It is not checked in six runs: in that of `GovernedWrite` a closed
or abandoned key is refused before the service is reached, so once all keys are
used up nothing is left to do; in those of `IdentityProvider` one call ends, and
in `tool_writes` a key that completed is used up; in
`local_secrets` and `governance_policy` the bounds on records and on the clock
end what there is to do.

Fairness. `OperatorLifecycle!Fairness`: a call runs to its end, since provider
requests time out and SQLite waits at most five seconds (weak fairness of
`Step`), and the host acts on the public progress record, resuming what is
EXECUTING and observing what was accepted, again and again (strong fairness,
because another call of the same runner may come in between). `WriteLedger`: a
call ends, time passes, and the caller of a reserved key retries it.
`EffectfulPlaybook`: a call ends, and an instance that is not halted is stepped
again with its own context. Nothing is assumed of answers or jobs: a
job may stay pending for ever, and the poll limit still concludes it. An executor of a
playbook may pause for ever, and nothing in `step()` limits that: `RunHalts` is
therefore stated for behaviours in which executors pause only finitely often. Every
liveness property is checked with at most `MaxCrashes` (`MaxLosses`) crashes; a system
that crashes for ever concludes nothing. With two
observers no liveness is claimed: they can undo each other's polls.

## What was found

Each of these has a run that shows it:

1. `lifecycle_crash_stuck`. Conclusions are two transactions
   (`pkg/operator_lifecycle.py:622-641`). A crash between them strands the row
   at EXECUTED_VERIFIED, EXECUTED_UNCERTAIN, TIMED_OUT or FAILED_CONFIRMED:
   no handler advances these, although `public()` announces
   `runtime.finalize_receipt`.
2. `identity_removal`. The removal of a membership marks no status but those it
   does not know as ambiguous (`pkg/graph.py:277-278`). A 502, 503 or 504 is
   reported as not sent, and the lifecycle then calls a retry safe.
   `NotSentMeansNoEffect` holds for all other answers, 500 excepted
   (`Misread`).

Other disagreements between code and documents met while modelling, without a
run of their own:

* `transition()` compares status and plan only (`pkg/operator_lifecycle.py:400`):
  a stale OBSERVING record overwrites a newer one and polls are forgotten, while
  `docs/OPERATOR_FOUNDATION.md:63` says that polling limits are part of the
  signed plan. `PollsLostOnlyToCrashes` holds for one process only.
* `replace()` of a playbook has the same weakness
  (`pkg/effectful_playbook.py:289`): RUNNING to RUNNING with another node in it
  is not noticed, so two runners may start one node, against
  `docs/OPERATOR_FOUNDATION.md:81-83`. `NodeStartsOnce` holds for one runner. What
  two runners cannot do is start a node before its dependencies, report a run as
  completed that is not, or move one that halted (`NodesKeepOrder`,
  `HaltsAreFinal`).
* The envelope relies on a receipt that is read again after the failure
  (`pkg/protocol.py:151`). When that read fails, a 500 is reported as safe to
  retry, against `README.md:434`. With the same key the ledger still refuses.
* A 500 met by the T1 write gives the record BLOCKED_PRECONDITION with the reason
  GRAPH_REJECTED_BEFORE_EFFECT (`pkg/entra_operations.py:604`), whether or not
  Graph took the PATCH (a 500 is marked by nobody, `pkg/graph.py:653`), against
  `README.md:1022-1023`. The ledger closes the key (`KeyTakesEffectOnce` holds);
  only the record is wrong.
* `README.md:289` says that "post-write reads verify the exact requested fields
  before success is reported". The fields of `"rest"` are never compared: start
  and end of an event, the due date of a To Do or Planner task, assignments and
  start date of a new task, the phones of a contact, the body of a message or
  draft. The tools that report an acceptance (`Accepting`) compare nothing.
* Approvals that were burned are not validated again: not when `consumed_exact`
  recognises them (`pkg/change_safe.py:655-658`), nor when the row is AUTHORIZED
  (`pkg/change_safe.py:650-652`). After a burn, a crash and a restart with a newer
  registry, an effect follows from the approval of an authority that is retired or
  compromised by then, or whose grant has expired, while
  `docs/OPERATOR_FOUNDATION.md:37-39` says that retired and compromised authorities and
  expiry fail closed, and its lines 49-50 that compromised keys are never trusted.
  `TwoGroupsForT3` speaks of the registry at the burn for this reason. Policy, plan and
  the window of the plan are compared again.
* The clock is read before the second round of checks of the T1 write
  (`pkg/entra_operations.py:507`) and not after it; reads, capsule and burn may
  outlast the plan, against `docs/TOOL_CATALOG.md:159-161`. The T2/T3 path
  compares the window of a plan with a time taken before preflight is awaited
  (`pkg/operator_lifecycle.py:522`).
* A key that another process replaced changes the digests of the same object,
  which `pkg/assurance.py` calls stable.
* Findings of the debt evaluation about missing evidence become
  `exception_approved` under an exception, while `README.md:814` and
  `docs/TOOL_CATALOG.md:314-316` say that missing evidence is `not_evaluated`.

Observations that contradict no document but would surprise an operator:

* What `send_mail_draft` and the update of task details check of the draft and of
  the plan is true when they look and may have changed when they write: the ETag
  of the details does not name a revision of the task.
* The "resource-specific ETag concurrency on updates" of `README.md:287` is that of
  five tools: events, To Do and Planner tasks, task details, Word and PowerPoint
  documents. Excel ranges and OneNote pages (`pkg/server.py:2660-2759`), users,
  groups, applications, service principals and conditional access are updated
  without `If-Match`. `NoLostUpdate` speaks of those that send it.
* The comparison of ETags before a document is uploaded
  (`pkg/server.py:2561-2564`) adds nothing to `If-Match` but an earlier refusal,
  since the content of another revision can no longer be sent under it.
* A deployment that admits a domain and no object id never gets a token again
  once two accounts of the domain are cached.
* A binding may ask for more signer groups than two approvals can have; such an
  operation can be enabled and never executed. A T2 operation hardened to
  `dual_control` can be resolved and never planned.
* `resolve_operation_governance` and the live lab do not look at the expiry of a
  policy. A post-dated break-glass policy is usable longer than its TTL, from
  now to its issue and then to its expiry.
* Approvals are matched against the registry that was loaded at start, not against
  the file.
* The id of a drift finding leaves out the consent type; the drift evaluation
  does not check `maximum_targets`, which the credential evaluation does; the
  readiness report may rest on exceptions that expired after its first node.

## What is proved

`OperatorLifecycleProofs`, for every number of processes, operations, plans,
grants and crashes and every value of the time bounds, from the assumptions
`ParameterAssumption` and `NoneAssumption` of `OperatorLifecycle`:

* `TypesAreInvariant`: `TypeOK`, strengthened by `Held`: a runner that is past
  the read of its row holds a record of its own operation and plan. Without it
  the record components a step touches have no type.
* `AtMostOnce`: `AtMostOneEffect` and `EffectIsOnRecord`. Neither is inductive.
  The strengthening `OnceInv` says that a plan has at most one row
  (`PlanIsFree`), that a runner about to send holds a row at EXECUTING and the
  plan was not sent before, and that no two runners are about to send one plan.
  The argument is that `Current` compares the stored status and no transition
  leads back to a status before EXECUTING (`AllowedMovesOn`), so of two runners
  that read AUTHORIZED only one passes `Dispatch`.
* `EffectsAreApproved`: `EffectWasApproved`. The strengthening `ApprovalInv`
  follows the approval from the ledger (`BurnsAreComplete`: a burned grant was
  burned together with all the plan needs) through the call that saw it
  (`CallsAreApproved`) to the row it promoted (`RowsAreApproved`). It uses
  `AtMostOnce` for the fact that a plan that was sent is on record.

* `RetriesAreSafe`: `SafeToRetryMeansNoEffect`. The strengthening `PromiseInv` adds
  to the invariants above what rows and calls know of the provider. `WorldStarted`:
  a plan is untouched as long as no request was counted for it. `RowsTrue`: a
  verified row means that the effect is there, a failed one that the plan is
  untouched or refused for good. `CallsTrue`: the answer a runner holds is still true
  when it gets to record it, since nothing moves a plan away from applied or void,
  and a runner on its way to the provider is never on a failed row, since the only
  failed verdicts written without an answer are those of AUTHORIZED rows, and its
  row is past that. That a failed row stays failed is what `Current` and the table
  of allowed transitions give.
* `LifecycleKeepsPromise`: `KeepsPromise`, the refinement of `EffectPromise`. As a
  plan has at most one row, the CHOOSE in `VerdictBar` has no choice (`Verdicts`), so
  a written row moves the verdict of its plan only (`WrittenVerdict`). Every allowed
  move of a row is then an action of the promise, enabled by what `PromiseInv` says
  of the provider, or a stutter (`ReplacementRules`, `RulesArePromised`);
  `CallProvider` is `TakeEffect`, and a job ends by itself or by `CallCancel`.
* `OnlyCrashesLosePolls`: `PollsLostOnlyToCrashes`, for any plans and any number of
  operations and crashes, but under `OneRunner`, without which it is false (see
  above). The strengthening `PollInv` says that the copy of the one observer is the
  row, that every request made is a poll on record, the one under way, or one a
  crash lost, and that a poll is only made below the limit of the plan.

Each proof has one lemma per group of actions that treat the invariant alike:
steps that only write a row (`RowStep...`), steps that only ask (`AskStep...`),
and `Insert`, `Burn` and `CallProvider` on their own.

`GovernedWriteProofs`, for every set of processes, keys
and profiles and every number of approvals, changes and losses, from
`GovernedAssumption` and `NoneAssumption` of `GovernedWrite`:

* `TypesAreInvariant`: `TypeOK`, strengthened by `Held`: a call past its reads
  has seen a profile, and one past `Prepare` has a plan.
* `ApprovalPaysForOneWrite`: `GrantSpentOnce`. The strengthening `GrantInv` says
  that a grant that was spent is consumed, and that one about to be spent is
  consumed, unspent, and in the hands of a single call. `Burn` establishes it,
  being one transaction; `Patch` uses it up.
* `OneEffectPerKey` and `RetryAfterNothing`: `KeyTakesEffectOnce` and
  `RetryableMeansNoEffect`. The strengthening `KeyInv` says that a key is served
  by one call at a time, which holds it claimed, and that it has had no effect
  while it is free or while its call has not sent its PATCH. That an answer frees
  a key only when Graph refused the PATCH (`PatchCases`) is what keeps it.

* `EffectsAreApproved`, `EffectsHitTheirTarget` and `CapsulesRestore`:
  `EffectAsApproved`, `EffectOnPlannedTarget` and `CapsuleRestores`, from one
  strengthening, `AimInv`. `Planned` follows the plan from `Prepare` to the PATCH: it
  is of the key that is called and of the policy the process started with, and past
  the gate an explicit policy has an approval of that very plan, which is consumed
  before the PATCH. `Relies` says for each point what the call has last checked and
  that it is still so unless others changed it since; the second round is what makes
  it true of the profile the plan was made from and not of a later one. `Saved` says
  that the capsule of that profile is on disk before the burn.

The proofs about grants and keys first reduce the steps to six shapes
(`StepsHaveShapes`: a call starts, continues, stops, sends, is lost, or nobody's call
moves), so that these invariants are proved over shapes and not over twenty-two
actions. `AimInv` looks at what each action does and has a lemma for each.

`GovernancePolicyProofs`, for every set of documents, registries and users, every
manifest and every clock, from `GovernanceAssumption` and `DocumentsAssumption`
of `GovernancePolicy` (bounds are numbers, enumerations have their values):

* `Invariance`: the strengthening `IInv` says that the policy in memory passed the
  checks of the process that holds it, that a plan's tier and mode belong together,
  that approvals burned for a plan satisfied the policy of the plan and the registry
  of that moment, that a row past AWAITING_APPROVAL has such a burn, and that the last
  decision meets the conditions it was taken under. It is needed
  because a decision is judged later than it is taken, because an effect may rest on a
  burn by a process that is gone, and because the checks that
  make it sound are spread over load, start, resolution, burn and use.
* `WriteProfilesTheorem`, `NoDowngradeTheorem`, `TwoGroupsTheorem`: the properties of
  the run. `PlanFollowsPolicyTheorem` and `EmergencyTheorem` (no write targets an
  emergency account or outlives the TTL of break glass) follow from `Invariance` alone;
  no run spends a property on them.
  The order of modes is transitive, and a T3 plan is `dual_control` because the
  binding may not fall below the compiled tier; two approvals of different
  identities whose groups include two required ones are then of two people of two
  groups.

`WriteLedgerProofs`, for every set of tasks, processes, keys and payloads and every
number of retries and losses, from `LedgerAssumption` of `WriteLedger`:

* `Invariance`: the strengthening `LedgerInv` follows a write from its reservation
  to its envelope. `Reserved` says that an operating task holds its row, as pending
  or declared interrupted, and that the effect of the key is that of its call;
  `CallsFit` that a write that landed and then failed is classified uncertain,
  although other calls move the same counters, because they only ever add to them;
  `FreeMeansNoEffect` that a key that may be reserved had no effect; `Explained` that
  while a call whose write landed composes its envelope, nobody else runs its key and
  the row it will read does not say rejected. None of them is inductive alone: that a
  free key had no effect needs the classification, and that needs the reservation.
* `OneTaskPerKey`, `KeyCommitsOnce`, `RejectedIsWithoutEffect`,
  `SafeReceiptsAreTrue`: the safety properties of the run, and `TypesAreInvariant`.
  A safe receipt is the one that needs `Explained`, for its envelope is composed from
  an exception and from a row that is read later.

The steps are sorted into three shapes: a task goes on with its operation
(`Continues`), no one begins to operate and rows at most age (`Quiet`), and a task
closes its row (`Closes`); `Reserve` and `Send` are proved on their own.

`ToolWritesProofs`, for every set of items, every cap, every number of repetitions
and changes, from `ToolAssumption` and `NoneAssumption` of `ToolWrites`:

* `TypesAreInvariant`: `TypeOK`, strengthened by `Typed`, which adds that a call
  exists wherever its record is read.
* `NoUpdateIsLost`: `NoLostUpdate`. The strengthening `UpdateInv` follows the
  revision: what each read found lies between the ETag of the call and the
  revision of the object (`Interval`), since revisions only grow; so when
  `If-Match` finds the object at the ETag, all of them are equal. `PlanKnown`
  says that a task still at the revision its plan was read at is still in that
  plan; `NotLanded` and `Kept` that a write lands once and its record is not
  touched again.
* `ChecklistIsBounded`: `ChecklistWithinLimit`. The strengthening `LimitInv` adds
  `Room`: while the object is at the revision the details were read at, the items
  on it and the additions in the body fit. Others' edits move the revision, and so
  take the call out of `Room`'s premise and not past the cap.
* `SuccessesAreTrue`: `SuccessWasTrue`, also from `LedgerNoneAssumption` (`None` is no
  call and no status of the ledger). The strengthening `SuccessInv` adds to
  `UpdateInv` that once the write landed, an object or an answer that shows what was
  asked for is remembered as such (`Noted`), whoever changes the object afterwards,
  and that a call gets to its end only through such a sight (`Concluded`). A tool that
  reports an acceptance compares nothing it could miss (`UnconfirmedTools`).
* `ToolsRefineTheLedger`: `OperationOfLedger`, a step simulation. Each action is
  matched with the action of `WriteLedger` it stands for (`CheckStep`, `SendStep`,
  `AgainStep`, `AnswerStep`, `VerifyStep`) or shown to be invisible to the ledger
  (reads and the changes of others). It needs `NotLanded` of `UpdateInv`, for the
  ledger counts effects and a repeated write must not have had one, and `NoError`: a
  call that has not failed has raised nothing.

`EffectfulPlaybookProofs`, for every finite set of nodes, every dependency relation
over them, any number of crashes and whatever pauses, from `PlaybookAssumption` (nodes are
numbers, as the code takes the least candidate first):

* `TypesAreInvariant`: `TypeOK`, strengthened by `Held`: a call that decided holds a
  copy of the checkpoint and the node it decided on.
* `NodesKeepOrder` and `HaltsAreFinal`: `NodesInOrder` and `HaltIsFinal`, for any number
  of runners, although each writes the whole checkpoint from a copy of any age. No run
  checks these two. The strengthening `OrderInv` says that what a checkpoint or a copy
  says of executors is true of the nodes that are done: marks are made from answers,
  and an old copy only says less.
* `NodesStartOnce` and `UncertaintyStopsAll`: `NodeStartsOnce` and `UncertaintyHalts`, under
  `OneRunner`, without which they are false (see above). The strengthening `OnceInv`
  says that the copy of the one runner is the checkpoint, that the node it executes is
  the only one on record as running, and that a node on record as pending was not
  started, whatever step a crash hit.

`IdentityProofs`, about `IdentityProvider` for any set of its operations and any number
of repetitions and changes, from `IdentityAssumption` and `NothingAssumption`:

* `TypesAreInvariant`: `TypeOK`, strengthened by the place in the list of requests:
  what was asked for is known, what comes later is not.
* `EffectsAreSingle` and `NotSentIsWithoutEffect`: `OneEffectPerExecution` and
  `NotSentMeansNoEffect`. `EffectInv` says that nothing is applied before the write,
  that a request that took effect is not repeated, and which answers NOT_SENT can
  come from.
* `VerifiedStatesWereThere`: `VerifiedWasThere`. `SeenInv` says that once the request
  that shows the desired state was answered with it, the state was in the directory at
  the instant of the answer; `KeyDecides` that no other request has a say in it.
* `EffectsFollowApproval`: `EffectOnApprovedState`. `ApprovedInv` says that every piece
  of evidence the plan is bound to was true of the directory at some instant of the
  look of preflight, and passed the check that follows it (`ChecksLookBack`: a check
  depends on no request made after it).

`IdentityProofs`, about `LocalSecrets` for any processes, accounts, policies, records
and ends of sessions, from `SecretsAssumption`:

* `SecretTypesAreInvariant`: `SecretsTypeOK`.
* `SettledRecordsStayReadable`: `SettledRecordsReadable`. `SealInv` says that once there
  is a key and nobody is about to store another one, this lasts, so that whatever is
  begun then is sealed with the key of the keychain. The race before is not excluded,
  and the code does lose records to it.
* `RequestsGoAsPrincipal`: `RequestsAsPrincipal`. `PinInv` says that a token in use passed
  its validation and that a principal was authorized when it was pinned. Where one
  object id is allowed both are that one, which is what the set of ids being of
  cardinality one gives; accounts are finite in number for that reason only.

`EntraEvidenceProofs`, for any documents, tenants, manifests, bounds and clock, from
`EvidenceAssumption` and `DocumentsAssumption` (tenants are sets of records of a finite
number, bounds and dates are numbers) and from `ClientIdAssumption`, a fact about Entra
(a client id is of one service principal and of one application):

* The first part is about the order of steps `Begin` lays out: each source a report rests
  on is read before the report is concluded, and drift and credentials are concluded
  before the debt and readiness evaluations that use them. It needs no
  induction: the n-th step of a list of targets is given by its number
  (`EachTargetSteps`), and the lists are joined from a fixed number of parts.
* The invariant is `EvidenceInv`: `RunInv` says that the steps left have that order, that
  of a source that is not being read any more everything that was there throughout has
  been seen, and that the reports of nodes at hand are those of the call;
  `NodesInv` what these reports may say. It was checked by TLC before it was proved.
* `PartialsAreNeverComplete`: `PartialIsNeverComplete`. Each way a call can end is a
  step that keeps or drops reports in its own way (`HowItEnds`). That the playbook keeps
  at most its first node when it halts rests on the order of its steps: the report of
  the second one exists only when nothing but the conclusion is left (`OnlyAfter`,
  `PlaybookReadsOnce`).
* `ReadyWorkloadsAreClean`: `ReadyWorkloadIsClean`. `StillWorth` says that what the report
  of a node allowed to conclude when it was made is still so while the steps after it are
  taken: its sources are not read again, so that what was there throughout their reading
  is settled, and a call keeps the policy it holds. The two verdicts then combine.
* `ReportsReadEverything`, `ReportsAreMadeInForce` and `ReportsExceptInForce`:
  `CompleteMeansEverythingRead`, `ReportUnderPolicyInForce` and `ExceptionsInForce`. A new
  report is concluded in the step that rereads the policy, so all of `RunInv` holds of it.
* `AlignedTenantsAreClean`: `AlignedTenantIsClean`, both halves of it. A target is aligned
  when no finding of it is left unexcused, so each deviation that was there throughout
  was read, by the above, and is a finding, or is excused by an exception in force.

Only model-checked: liveness under fairness (`SentConcludes`, `PendingResolves`,
`RunHalts`) and anything about ENABLED, which are out of the prover's reach. Every safety
property a passing run checks is a theorem. `TypeOK` of `EntraEvidence` and
`GovernancePolicy` documents their state: no run spends a property on it, and the
theorems rest on the types in `TypesInv` and `IInv` instead, which leave out the
number of pages read, since it is bounded by a fold over what is read.
What a fold computes for every input needs induction over data, which the installed
provers cannot do; the evaluations that only compare and quantify are proved about
above. Every other safety property a run checks is a theorem.

## What is not modelled, and assumptions

* The provider in `OperatorLifecycle` is truthful: FAILED_CONFIRMED, and a
  transport error with `commit_possible=False`, mean that the effect will not
  happen. `IdentityProvider` shows for which answers this holds
  (`NotSentMeansNoEffect`) and for which it does not (`identity_removal`).
* Clocks of processes agree; time passes between steps and not within one.
* A 4xx answer, a 429 included, means that Graph did not apply the request.
* The rate limiter and the audit log run before the reservation and only refuse.
* Signatures verify, digests do not collide, SQLite transactions are atomic.
* `GovernedWrite` writes one user; other users share no state with it but the
  counters of the process, whose effect `Refuse` and `RowAfter` include. The files
  of the approval broker are well-formed and replaced atomically. Manifest and
  allowlist do not change while a process runs. A PATCH that is sent again after a
  429 or 401 is one step. Preview, which neither reserves nor writes, and the
  reading of a receipt are left out.
* Microsoft 365 takes a conditional write only of the revision `If-Match` names, and
  gives every change of an object a new ETag. A change of a task is none of its
  details. That others keep within the cap of a checklist is Planner's rule.
  `ToolWrites` gives a request one object: a tool that writes to one resource and
  reads another back (a group and its member, a page and its content) is checked
  as if both were one, and a tool that creates starts from an object without what
  it asks for. Checks of allowlists, sizes and formats only refuse (`Ready`, `Look`).
* Graph lists a record that was there from the first page to the last on some
  page; what changes meanwhile may come or not. `IdentityProvider` assumes that a
  single request returns the directory of one instant.
* Documents of `GovernanceRules` have passed the syntax checks of their models;
  digests stand for what they are computed over, a signature is right or not.
* The keychain stores what it is given, one entry at a time, or refuses.
* `EntraEvidence` has one call at a time: calls share nothing but the policy and
  the tenant, which change at any time anyway.

Left out, with the reasons in `PROJECT.json`: the security policy's membership
tests, cursors and the audit log; the read tools, which keep no state; the live
lab's campaign and the radar, which an operator starts once; discovery, diagnostics, configuration, formatting and generated tables,
which keep no state; compilation and signing of manifests, which happen when the
package is built.

## Plan

Theorems to come: the bounds on pages and records in `TypeOK` of `EntraEvidence`; that an
evaluation that is complete misses no finding of a control (`EntraClassification`), as
far as no fold is involved; for two runners, how often a node of a playbook or a poll of
an operation can be repeated, in place of the properties that fail for them.

Models to come: the campaign and cleanup of the live lab; the trust life cycle of
signing keys; the evidence references of T1 records (a retried key keeps the
operation id of its first call in the ledger, while record and capsule carry that
of the call that wrote).
