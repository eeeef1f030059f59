# A formal model of dotfactory

dotfactory (`factory/src/dotfactory`) runs coding agents on work items. A
workflow graph says which state an execution is in; a state of kind *work* has
an attempt, a scheduler dispatches the attempt to a runner in a prepared
workspace, and the runner's result takes the execution along an edge of the
graph. Everything durable is in one SQLite ledger. These modules describe that
system in TLA+, TLC checks them on small instances, and TLAPS proves what
matters most for every instance.

## 1. Inventory

The source is 26 700 lines of Python in one package. One runtime process owns a
ledger at a time (`InstanceLock`); every method of the ledger is one SQLite
transaction, and all the difficulty is in what happens between two of them.

| Component | Files | State | Operations | Talks to |
|---|---|---|---|---|
| Dispatch ledger | `ledger.py` 3080-3984 | `scheduler_dispatches`, `attention_requests`, statuses of attempts, preparations, runner runs | claim, phase writes, defer, attention, resume, takeover, complete, supersede | scheduler, engine, runner, control |
| Scheduler | `scheduler.py` | one control thread | tick, reconcile, handle preparation, commit result, attention, remedy | ledger, engine, runner, kernel |
| Workflow kernel | `kernel.py`, `ledger.py` 1561-2161, 4218-4330 | executions, state runs, attempts, pending transitions, events | begin, transition, observe Linear, complete attempt, claim pending | ledger, scheduler, control, Linear |
| Preparation engine | `resources.py`, `workspace.py`, `ledger.py` 2597-3080 | preparations, allocations, mutation journal, workspaces, cleanup plans | prepare, compensate, clean up, remedy | scheduler, providers |
| Live runner | `live_runner.py`, `ledger.py` 2223-2597 | runner runs and events, the process | run, resume, ask, finish, remedy | scheduler, agent process |
| Control service | `control.py`, `http_api.py`, `control_server.py`, `ledger.py` 5738-5811 | control commands | execute (transition, cancel, approve, retry, attention) | kernel, scheduler, engine, runner |
| Runtime lifecycle | `lifecycle.py` | lock file, drain flag | step, run, pump, control service, pickups | everything |
| Linear reconciliation, outbox | `linear_reconciliation.py`, `linear_api.py`, `ledger.py` 4752-5063 | mutation rows, observations | stage, begin, confirm, fail, reconcile | Linear |
| Linear agent sessions | `linear_agent.py` | session and activity rows | stage, drain, reconcile | Linear |
| Webhook inbox | `agent_webhooks.py` | its own database | receive | Linear |
| Evidence summary | `linear_evidence.py` | comment row of the mutation outbox | stage, deliver, read back | Linear |
| Planning conversation | `linear_planning.py`, `planning.py` | replies, commands, reviews and pauses in the event log | receive, present, approve, resume | control, kernel, Linear |
| Work queue | `work_queue.py`, `budgets.py` | operating receipts | discover, admit, run | lifecycle, Linear |
| Projections, telemetry | `projections.py`, `telemetry_delivery.py`, `ledger.py` 5837-6319 | attempts, receipts, watermarks, frozen batches | stage, deliver, cover, finish, rebuild | external views |
| Remote workers | `worker.py`, `execution.py` | worker directory, manifests | prepare, execute, collect, verify | SSH hosts |
| Delivery verification | `delivery.py`, `evidence_bundle.py`, ... | receipts, export journal | verify, export, clean up | git, processes |
| Workflow definitions | `dot.py`, `workflow.py`, `selection.py`, ... | none | parse, validate, render | kernel |
| Configuration, CLI, doctor, datasets | the rest | none, or files | load, print, export | - |

What is hard in it:

* **Crashes between transactions.** Launch intent, result, cleanup, workflow
  commit and completion are separate writes. A crash at each of them must
  neither launch again nor lose the attempt.
* **The operator comes in the middle.** Control commands are served between two
  ticks *and* from the supervision loop of a running agent.
* **Leases and fences.** Claimed and prepared rows expire; other phases are kept
  by their owner. A write with an old fence has to fail and to be cleaned up.
* **Attention.** A request, the row that links it and the preparation on hold
  are written in three transactions, and resolved in one or two.
* **At-least-once delivery** to Linear and to telemetry back ends, with answers
  that get lost.

Correctness, per component: the scheduler launches an attempt's runner at most
once per permission, commits a result at most once and only when it is durable,
never lets two processes share a worktree, and gets no row stuck; the kernel
keeps one active attempt per execution and moves only along edges; the
preparation engine undoes or reports everything it did; the outboxes deliver
each intent at least once and record it as delivered only if it was;
projections never move a watermark past a gap.

## 2. Modules

| Module | Models |
|---|---|
| `FactoryLedger` | the ledger rows dispatch works on, one operator per transaction |
| `Scheduler` | the scheduler process, the engine, runner, operator and crashes around it; EXTENDS `FactoryLedger` |
| `AttemptPromise` | the abstract specification `Scheduler` implements |
| `WorkflowKernel` | how one execution moves along the edges of its workflow graph |
| `LinearConvergence` | the execution and its Linear issue kept in step; EXTENDS `WorkflowKernel` |
| `Preparation` | the preparation engine of one execution: worktree, allocations, mutation journal, compensation, cleanup, remedies |
| `TelemetryOutbox` | delivery of trace records to Logfire: frozen ranges, batches, receipts, watermark |
| `DeliveryPromise` | the abstract specification `TelemetryOutbox` implements |
| `LinearPublication` | one run shown in Linear: agent session, activities, fallback comment |
| `SessionPromise` | the abstract specification its session and activities implement |
| `PlanningConversation` | one run planned in its Linear session: prompts, reviews, approvals, pauses |
| `MCScheduler`, `MCKernel`, `MCLinear`, `MCPreparation`, `MCTelemetry`, `MCLinearPublication`, `MCPlanning` | constants for TLC |
| `Selection` | the elements of a sequence at chosen positions, in order; EXTENDed by `TelemetryOutbox`, `LinearPublication`, `PlanningConversation` |
| `Scheduler_proofs`, `WorkflowKernel_proofs`, `LinearConvergence_proofs`, `Preparation_proofs`, `LinearPublication_proofs`, `PlanningConversation_proofs`, `TelemetryOutbox_proofs` | the theorems about each module |
| `Selection_proofs` | lemmas about `Selection` and about sequences |

`Scheduler` and `WorkflowKernel` meet at the attempt. `Scheduler` sees of the
workflow only that an attempt is replaced, canceled or completed;
`WorkflowKernel` sees of the scheduler only that an attempt ends with an outcome
label. `Scheduler` sees of a preparation only its status and disposition, which
`Preparation` refines into the engine's own transactions. `PlanningConversation`
takes from `LinearPublication` that a review is displayed before it can be
approved, and from the others that attempts are queued, run and end.

### FactoryLedger and Scheduler

`attempt`, `execution`, `dispatch`, `preparation`, `attention` and `run` are the
tables; an attempt has at most one row in each, so they are functions of the
attempt. `readied` stands for one event of the event log, because its unique
idempotency key matters. A claim token is the set of pollers that know its
current value: rotating it empties the set. `dispatch[a].timer` is the lease of
a claimed or prepared row and the delay of a waiting one; it elapses at any
moment.

`worker[o].at` names the ledger write a scheduler performs next. The steps of
one tick are `claimed -> prepare -> preparing -> ready -> prepared -> launch ->
running -> record -> cleanup -> commit -> finish`; `busy`, `blocked`, `skill`,
`drop` and `noting` are the other dispositions of a preparation, `asking` and
`asked` a question of the runner, `attend` and `link` the two writes of
`Scheduler._attention`. A crash can fall between any two. `path` says whether
the step belongs to a tick, to the recovery of a preparation or to the replay of
a result, since the exception handlers differ.

An exception is an action (`Raise`) at each step in the constant `Faults`; a
fenced write (`Fenced`) leads to `Stale`, as `StaleAttempt` does in the code,
and an exception that leaves a handler ends the process (`Escape`). The operator
acts only when the runtime pumps control commands (`Pumped`): between two ticks,
while a runner runs, and when no runtime is up (`control-only` mode).

`launches`, `resumes` and `child` are history: they count what happens in the
operating system and no action of the code reads them.

Abstractions: one category `engine` and one `runner` stand for all requests of
the engine and the runner; the order among resumable or recoverable rows is
arbitrary; limits per runner are left out (they have the form of the project
limit); `planned`, `starting` and `running` are one runner status; the
allocations and mutations inside a preparation are left out; every non-work
cancel edge is `ControlCancel`; `HumanTransition` stands for pickups and
pending handoffs. A step that returns without a process (`NoLaunch`) is allowed
for every run, because verification before the launch may refuse it.

### WorkflowKernel

The graph is a set of `Edges` over `States`, both constants: an execution keeps
the workflow snapshot it began with. `MCKernel` gives it the default workflow,
`factory/workflows/default.dot`, and a retry loop written as
`docs/CUSTOMIZATION.md` describes one.

| Variable | Ledger |
|---|---|
| `execution` | `workflow_executions.status` |
| `runs` | `state_runs` in order: state, `resume_state_id`, edge taken, signal |
| `observed` | `workflow_executions.observed_linear_status` |
| `request` | the pending row of `transition_requests` |

| Action | Code |
|---|---|
| `CompleteAttempt` | `DurableKernel.complete_attempt` with a label: retry limit, unlabelled edge, condition |
| `ObserveStatus` | `observe_linear_status`: no change, rejected, deferred or accepted |
| `ClaimPendingTransition`, `ClaimPickup` | `FactoryRuntime._claim_pickups` |
| `ControlTransition` | the transition, cancel, approve and retry commands |

All of them end in `AcceptTransition`, the one transaction that closes a state
run, opens the next, settles pending requests and ends the execution at a
terminal state. A work state has an active attempt as long as the execution
runs, so the attempt is not a variable.

Abstractions: a guard that looks at evidence (a delivery receipt, the questions
of a plan) may refuse a transition in the code and never does here; edges that
require feedback are evoked by people only (`GraphAssumption`); the idempotency
keys that make a repeated command return the first decision are left out.

### LinearConvergence

| Variable | Stands for |
|---|---|
| `remote` | the issue in Linear: status, revision and who made it |
| `late` | a write whose answer was given up and that Linear has yet to apply |
| `seen` | revisions with a row in `linear_observations` |
| `mutations` | `linear_mutations` in order of creation |
| `at`, `phase`, `issue`, `sending` | where the control thread is and what it holds |
| `live` | the queue of the thread that reads the issue during a run |
| `spent` | how much of each bound is used up |
| `proposer` | history: who wrote the revision that last moved the execution |

One step of the runtime is *poll, deliver, claim, deliver, tick, deliver*.
Delivering one mutation takes four steps (`StartMutation`,
`SettleWithoutWrite` or `WriteStatus`, `ReadBack`, `ObserveIssue`) and people
may edit the issue between any two. An error of Linear leaves the step
(`at = "recover"`), and the work queue then lets the scheduler recover its
dispatches. In the mode of a single `run` the same error ends the process, which
here is that step followed by `Crash`. `_claim_pickups` may be kept from claiming
by an open attention request (`ClaimHeld`).

Abstractions: recording an observation and resolving it are one step, since the
reconciler resolves what a crash left open by the same rules when the revision
is polled again; comments, labels, bindings, scope validation and the
projection policy are left out; `observe_webhook` has no caller in the runtime;
`WriteLands` and `HumanEdits` are Linear's own steps and marked external.

### Preparation

| Variable | Ledger, or the world |
|---|---|
| `preparation`, `creates`, `rows` | `preparations`; the mutations that create the worktree; `resource_allocations`, each with its activation and its undoing in `resource_mutations` |
| `workspace`, `plan`, `requests` | `execution_workspaces`, the last `cleanup_plans` row, open `attention_requests` |
| `engine`, `known` | the step of `PreparationEngine` that comes next; the activations it has in memory |
| `live`, `tree` | which services run; the worktree on disk |

Every write of the journal and every effect it announces is a step of its own,
so the process may die between any two of them: `PlanActivation`, `Activate`
(where a provider fails before or after its effect), `FinishActivation`,
`AcquireAllocation`, and the same for the worktree, the compensation and the
cleanup. A remedy of an operator is the same engine at work on their behalf.

Abstractions: one execution and one provider of services; retries are bounded by
a deadline that passes, not by their number; the attempt's own cleanup plan,
which nothing reads, is left out; skills are in `Scheduler`. `SchedulerHolds`
stands for `Scheduler._attention`, which puts the preparation on hold.

### TelemetryOutbox

A record names the spans that own it. `Freeze` turns a range of records into
`spans`, `needed` and `batches`; the sender then validates, sends and
acknowledges one batch after the other; `Finish` advances the `watermark`.
`remote` is what Logfire has ingested, which includes the answers that were lost
(`SendUnknown`) and the part of a batch it took before it refused the rest
(`SendRefused`). `Restart` is a crash at any step, with another configuration
(`setting`) afterwards.

Abstractions: of a span the model keeps its identity, its owner, the record it
was rendered from and the policy it was rendered under. Redacting again is
`span_policy`, which leaves a span alone that is redacted already: one frozen
under metadata may go out under the admitted policy, still redacted. The
runtime's drain is
the one caller, so the lock file and the guard against another attempt are out of
reach. The generic outbox and `ProjectionWorker` (`projections.py` 420-476) have
no caller and are left out.

### LinearPublication

`session`, `activities` and `evidence` are the rows; `linear` is what Linear
holds; `late` the requests it may still apply. A request is two steps: the
transaction that marks the row *sending*, and the answer, which may be lost in
three ways (applied, never applied, applied later). A session has no identity the
caller chose, so an unknown create is resolved by a search for the run's marker
(`ReconcileSession`); activities and the comment carry chosen identifiers and are
read back. The comment is the fallback for a session that cannot be used.

Abstractions: the body of the comment is the facts it shows and whether it shows
more than metadata; incidents, worker locations and questions are activities of
the same form and left out; a session or an activity is not deleted by people.
`Progress` and `ChangePolicy` happen only where the step reads what they change:
elsewhere they commute with it.

### PlanningConversation

| Variable | Stands for |
|---|---|
| `state`, `attempt`, `context` | the run's state, its attempt and how much of the conversation that attempt was given |
| `messages`, `plans`, `reviews` | `planning_message` events, plan receipts that passed, `linear_planning_review` events with the prompt that came first after their display |
| `prompts` | the prompts in the Agent Session, in order of creation |
| `rows`, `decisions`, `pauses` | per prompt the reply event and its row in `control_commands`; prompts whose command moved the run; pause events |
| `reads`, `pc`, `inbox` | the two readers; where the owner is in `receive`, and the snapshot it handles |

A prompt is handled in up to five transactions (`Execute`, `Apply` or `Recover`,
`Finish`, `Reply`), and after a crash again from the start unless its reply was
recorded. `Execute`, `Recover`, `CommandFails`, `Apply` and `Finish` are
`ControlService.execute` with its command table. The two readers are the poll
between attempts and the live poll while a runner runs; `Consume` takes a
snapshot that may have been made at any time since the read was launched.

Abstractions: freezing, beginning and authorizing a command are one step, as are
writing a review and confirming its display, since no prompt is treated
differently in between; people write only while a read is out or a review is due,
since nobody notices when they wrote before; the quiet seconds before a revision
are a snapshot that brought no reply. Clocks of Linear and of the host are
assumed consistent. `Investigating` stands for every state a failed planning
attempt leads to; `Blocked`, verification, `Autoplanning`, replanning and the
discovery of new runs are left out, and so is what a plan says. A runner that was
alive in a crash is `lost`: what becomes of it is the subject of `Scheduler`.

## 3. Runs

| Run | Shows | Bounds |
|---|---|---|
| `OneScheduler` | `TypeOK`, `ExclusiveWorkspace`, `LaunchesAuthorized`, `CanceledIsClosed`, `AttentionIsAnswerable`, refinement of `AttemptPromise` | 1 execution, 2 attempts, 1 scheduler, every fault, 1 crash, 1 remedy (580 000 states) |
| `SchedulerRecovery` | `WorkIsAccounted`, `RetryIsTaken`, `CapacityIsFreed` | 1 attempt, 2 crashes, 2 remedies, every fault |
| `TwoSchedulers` | `OneLauncher` | 2 schedulers, 2 attempts, exceptions in preparation and commit |
| `KernelRouting` | `KernelTypeOK`, `RequestIsClaimable`, `ResumesTheFailure`, `RetriesAreBounded`, `ReviewIsDeliberate` | the whole default graph, 6 state runs (51 000 states) |
| `LinearConverges` | `Converges` | 2 human edits, 1 failure of a read, write or read-back, no live polls (900 000 states) |
| `LinearDelivers` | `TypeOK`, `AppliedOnce`, `OutboxDrains` | live polls, 1 edit, 1 command, 1 crash, 1 write refused, rejected, lost or late |
| `PreparationIsOwned` | `TypeOK`, `LiveIsAccounted`, `ReadyIsWhole`, `RemovalIsSafe`, `WorkspaceIsSettled` | 2 attempts, a service of attempt and one of execution scope, 2 calls, 1 crash, 1 remedy, every provider and git step failing at will (800 000 states) |
| `TelemetryIsDelivered` | `TypeOK`, `ReceiptsAreEvidence`, `OneOwnedBodyPerSpan`, `EgressIsAllowed`, refinement of `DeliveryPromise`, `RecordsAreDelivered` | 5 records of 2 runs, batches of 2, 2 restarts, 1 record that expires, answers lost at will (250 000 states) |
| `LinearIsPublished` | `TypeOK`, `ActivitiesInOrder`, `ConfirmedIsShown`, refinement of `SessionPromise`, `SummaryArrives` | a run of 2 states, 2 faults, 1 policy change (1 000 000 states) |
| `UnclaimedComment` (violation) | `CommentConverges` | the same without policy changes |
| `PlanningIsHeard` | `TypeOK`, `ApprovalIsInformed`, `AcceptedIsApplied`, `LastWordHolds`, `AnswersAreHeard` | 2 prompts of 9 kinds, 1 crash, lost read, failed attempt or HTTP command (2 200 000 states) |
| `DeafToResume` (violation) | `ResumeIsHeard` | a pause and a resume, nothing else goes wrong |

**Scheduler.** Two attempts are enough for what one attempt leaves to its
successor: nothing but the host's capacity and the shared worktree connects
them, and both are in play with two. Two crashes and two remedies let a recovery
be interrupted and an answer be given twice. `ExclusiveWorkspace`,
`CanceledIsClosed` and the liveness properties are claims about the deployed
configuration, where the instance lock makes one runtime the only writer; with
two schedulers a lease may expire under its owner, and `OneLauncher` is what
remains true, as long as nothing has to be recovered (section 4). Every run here uses `CHECK_DEADLOCK FALSE`: the operator may leave
every execution at a terminal state, where the system rightly stops.

**Kernel.** Six state runs reach a failure, its investigation, a block and the
resumption, or a second failure after a retry, and a retry loop with its exit.
`Room` bounds the runs that agents, claims and commands add; the execution ends
at a terminal state or at that bound, hence `CHECK_DEADLOCK FALSE`.

**Linear.** `MCLinear` keeps seven states of the default workflow and one status
that no state has. Two edits are what a person needs to overtake their own
change; one failure leaves a delivery half done while the other mutations go on.
`LinearConverges` and `LinearDelivers` share out the faults, the crash and the
command because a product of all of them is beyond a run of a few minutes.
The claims have different reach:

* `Converges` needs `LivePolls = FALSE`, no lost write and no crash. With live
  polls it is false (section 6), so no run covers an issue read in one run and
  reconciled in a later one; a write that is lost is never resolved,
  and a crash while sending is never recovered (section 6), and each leaves a
  wrong status for good.
* `OutboxDrains` therefore counts an ambiguous row and one cut off by a crash as
  settled: it says that nothing is left due for ever.
* `AppliedOnce` is checked and proved without failed read-backs: after one the
  code writes again (section 6).

**Preparation.** Two attempts let the second meet what the first left behind,
and two capabilities of different scope let a compensation stop half-way and a
cleanup tell them apart. A crash together with a remedy gives an operator the
state a crash left. `WorkspaceIsSettled` exempts one case, `Jammed` (section 6).

**Telemetry.** Of the five records the second names an owner that the first had
frozen in another place, so it freezes a span which it does not need and which
only the third sends; one is of a run that opted out and one cannot be mapped.
With batches of two a span and its owner fall into different batches; two
restarts allow a change of configuration and a change back, so that the span is
frozen under metadata and sent under the admitted policy. `EgressIsAllowed`
therefore asks that no span says more than the policy in force allows, not that
it says as much. `RecordsAreDelivered` accepts a delivery that is held back where
`projection_health` shows it, or by a policy refusal while freezing
(`FreezeRefused`), which leaves no plan and is shown as pending (section 6).

**Publication.** Two states give three to six activities, enough for a later one
to overtake an earlier one; the second fault is what turns a lost answer into a
wrong conclusion. `SummaryArrives` exempts the unclaimed comment (section 6).

**Planning.** Two prompts cross each other in every order: approval and answer,
pause and resume, two approvals; one further event is enough for a crash inside a
command, a message through HTTP or a stale read in between. A third prompt is
beyond a run of a few minutes, and a second event adds only repetitions of the
first. `LastWordHolds` exempts prompts that Linear kept in its queue, and
`AnswersAreHeard` a run that is paused, canceled or lost, or whose last message
came through HTTP (section 6). These runs use `CHECK_DEADLOCK FALSE` too: a run
that is complete and delivered, or waits for people who do not write, stops.

**Fairness.** `FairSpec` of `Scheduler`: weak fairness of a scheduler's steps
(the runtime ticks in a loop, and a runner has a wall-clock limit), of restarts
(a crashed runtime is started again), of the second write of a remedy that was
begun, and of leases and delays running out. Nothing is assumed of the operator
or of a process that outlived its supervisor, so every liveness property accepts
"an open request is visible" as an outcome. `FairSpec` of `LinearConvergence`:
weak fairness of polling, observing and delivering, of claiming, of the end of a
tick, of restarts and of retry delays, all steps of the same loop or of the
clock. It assumes nothing of agents, operators, people or late writes: a tick
may end without completing the attempt, and an unanswered write may never land.
`FairSpec` of `Preparation`: weak fairness of the engine, which finishes what it
began and is called again at a terminal execution, and strong fairness of the
removal itself, since git does not fail for ever. `FairSpec` of
`TelemetryOutbox`: the drain, weakly, and, strongly, that a batch sent again and
again is answered at last. `Spec` of `LinearPublication`: the publication step
and the passing of retry delays, weakly. `Spec` of `PlanningConversation`: the
owner and its readers, weakly, and claims, dispatches and ends of attempts,
strongly, because a step that handles a snapshot goes on to all of these. Nothing
is assumed of people, of Linear's queue, of crashes or of the policy.

## 4. Proofs

Every safety property, every action property and every refinement of the passing
runs is proved by TLAPS; `OneLauncher` in the form that holds for every bound:
until the first crash or remedy. The theorems hold for all constants that satisfy
the ASSUMEs: any number of attempts, prompts, records or faults, any graph, and
bounds of any size. Each property needs more than itself to be inductive; what
follows names the strengthening and why it is needed. The strengthenings were
checked as invariants of the runs before they were proved.

**`Scheduler_proofs`.** A lemma per ledger transaction says what rows it leaves.

* `TypeCorrect` (`TypeOK`) and `LaunchesAreAuthorized` (`LaunchesAuthorized`) need
  nothing of the deployment. Nothing in the second says that a runner row `none`
  means that nothing was launched, or that an authorization not yet used leaves
  room for one more; `LaunchInv` says both.
* `CancelCloses` (`CanceledIsClosed`), `QuestionsAreAnswerable`
  (`AttentionIsAnswerable`), `OneRunnerPerWorkspace` (`ExclusiveWorkspace`) and
  `PromiseIsKept` (the refinement of `AttemptPromise`) assume `SingleWriter`: the
  instance lock (`lifecycle.py`) leaves one runtime per ledger. They share one
  invariant, `SafetyInv`. `StepInv` says what the worker may rely on at each step
  (the attempt is active, the row has this status and this token, the request it
  is about to link is open); `RowInv` what the rows of one attempt say about each
  other; `WorkflowInv` that one attempt of an execution is the last and decides
  it; `RemedyInv` where a half done remedy may be. `AttentionIsAnswerable` for
  instance holds because the request is open before the row refers to it, across
  a crash in between. `RunsInv` is added for the refinement: what each
  status of the runner row says of launches and permits, which no code reads.
* `OneLauncherUntilRecovery` (`OneLauncher`) assumes nothing: any number of
  schedulers, leases that run out at any moment, every fault, every command of
  the operator. It says that `crashes = 0 /\ remedies = 0` implies `OneLauncher`.
  No lease and no token alone gives that, since a slow owner outlives its lease;
  what does is that a scheduler past its claim finds its row where it left it,
  under its own token, unless the row asks for attention (`OrderlyTurn`), that a
  row recovery may take belongs to a scheduler still at work on it
  (`OrderlyOwner`), and that no answered request makes a row claimable again
  (`OrderlyRow`). A crash breaks the second and a remedy the third: with
  `MaxCrashes` or `MaxRemedies` 1, TLC finds `OneLauncher` false. A recovery whose
  fence is stale supersedes the row under the new owner's token
  (`scheduler.py:595`, section 6), and the attempt is claimed once more and
  launched beside the first launch. `TwoSchedulers` therefore has neither.

**`Preparation_proofs`.** `PreparationTyped`, `NothingRunsUnaccounted`
(`LiveIsAccounted`) and the action properties `ReadyMeansWhole` (`ReadyIsWhole`)
and `RemovalWhenSafe` (`RemovalIsSafe`), from `IInv`. That a running service has
a row is false half-way through the step that starts or stops it, so the invariant
follows the engine: the rows it has taken are held and ready (`DoneInv`), the
newest is as far as its activation got (`NewInv`), the one it undoes is stopped
before the row says so (`GoneInv`), and what was checked before a clean-up still
holds when the worktree goes (`CleanInv`). `RowsInv` relates rows, processes and
the handles in memory, which a crash loses.

**`WorkflowKernel_proofs`**, about `KernelSpec`.

* `KernelTypeCorrect`: the latest failure that `RecordedResume` chooses exists in
  every finite history (`GreatestIndex`).
* `RequestsAreClaimable`: every step moves along an edge and clears the request,
  or stays and keeps it or puts a claimable one in its place (`StepMovesOrStays`).
* `ReviewsAreDeliberate`: inductive only together with `RequestIsPlain`, since a
  request made by a status is taken later by a claim that no longer asks for
  feedback.
* `AgentRetriesAreBounded`: the code compares the *visits* of a node with
  `max_retries`; each retry is mapped to the visit it leaves, an injection, so
  the bound on visits bounds retries (`RetryAddsVisit`).
* `FailuresAreResumed` (`ResumesTheFailure`), for graphs that satisfy
  `RecoveryIsShaped`: failures lead where they can be resumed, which is how
  `_resume_edges` (`workflow.py:275-325`) derives the edges back, and an
  investigation is entered from elsewhere by failures only. The graphs of both MC
  modules are checked to satisfy it. The invariant is `InvestigationKnows`: what is recorded
  is the state of the last failure, also in the states in between.

**`LinearConvergence_proofs`.** `LinearTyped`; `NoSecondWrite` (`AppliedOnce`);
`ImplementsKernel`, `Spec => KernelSpec`; and with it `KernelPromisesHold` and
`FailuresStayResumable`, which carry the theorems about the kernel over to the
composition. `AppliedOnce` needs `WritesInv`: no row that may still be sent was
applied, nor was the one whose write is about to be made or has yet to land.
`NoSecondWrite` assumes `"readback" \notin Faults`, as `LinearDelivers` does: a failed
read-back makes the code send the mutation again (`linear_api.py:862-880`), and
the property is false.

**`LinearPublication_proofs`.** `PublicationTyped`, `NeverTwoSessions`
(`OneSession`), `ActivitiesKeepOrder` (`ActivitiesInOrder`), `ShownWhenConfirmed`
(`ConfirmedIsShown`), from `PublicationInv`, and `PromiseIsKept`
(`KeepsSessionPromise`, the refinement of `SessionPromise`). `SessionOnce`: there is a session or
one create under way, and a row that may create has neither. `PostedInOrder`:
how far the posts reach, and where every late one belongs. `TerminalIsLast`: the
terminal response is staged last, of a run that is over. The refinement adds
`SessionFirst`: no key is staged twice, and every post under way is of a row there
is, to a session there is. Linear's part of a step and the ledger's are mapped
apart (`LinearKeepsPromise`, `LedgerKeepsPromise`), because an answer may come with
its effect or after it. `OneSession` follows from the promise and needs no run.

**`PlanningConversation_proofs`.** `PlanningTyped`, `RepliesAreTrue`
(`AcceptedIsApplied`), `LastWordRules` (`LastWordHolds`), `ApprovalsAreInformed`
(`ApprovalIsInformed`), from `ConversationInv`. A reply is true because the
command at hand is authorized while it is applied and completed only with its
effect (`AtHand`, `CommandsTookEffect`). The last word rules because a snapshot
skips no earlier pause (`LeftInOrder`), so that none is recorded after a later
one (`PausesInOrder`).

**`TelemetryOutbox_proofs`.** `TelemetryTyped`, `EvidenceHolds`
(`ReceiptsAreEvidence`), `BodiesHold` (`OneOwnedBodyPerSpan`), `WatermarkHolds`
(`WatermarkSkipsNothing`), `EgressHolds` (`EgressIsAllowed`), from `DeliveryInv`.
A span is frozen once and after its owner (`OwnersFirst`). Then the dependencies
of an older attempt stay complete when the table grows (`Covers`, with
`Ancestry` shown to be the same in a longer table), batches hold an owner no later
than what it owns (`Queued`), and the sender, which takes the first batch that
waits (`SenderTyped`), sends nothing before its owner (`OwnersAtHand`). What it has
validated stays allowed until it is sent (`SentIsAllowed`), because a process reads
its configuration once.
`PromiseIsKept` (`KeepsDeliveryPromise`) is the refinement of `DeliveryPromise`: a
record is decided once, delivered with its owners or left out for a reason, and
the watermark only goes on, over decided records; `WatermarkSkipsNothing` follows
from it and needs no run. That a decision is made once is not in the rows as such:
it needs that the ranges of two attempts do not overlap (`RangesApart`), that what
an attempt needs and what it skips differ and lie in its range (`NeededInRange`,
`SkipsApart`), that receipts are of what is needed (`ReceiptsNeeded`), and that
attempts end in turn (`InTurn`).

**`Selection_proofs`** says what `Select` and `Ascending` return (`SelectIs`,
`AscendingIs`: the chosen elements, all of them, in order), and holds the lemmas
about sequences that the last three modules above share.

### Assumptions

| Assumption | Justified by |
|---|---|
| `SingleWriter` (hypothesis of four theorems) | the instance lock, `lifecycle.py` |
| `FaultsAssumption` | exceptions reach the handlers of tick and reconcile only from these steps; one of a running runner becomes a failed result |
| `GraphAssumption` | what the validation of a workflow ensures, and that edges which require feedback are evoked by people |
| `RecoveryIsShaped` (hypothesis of two theorems) | `_resume_edges`, for the graphs named above; other graphs may not satisfy it |
| `"readback" \notin Faults` (hypothesis of `NoSecondWrite`) | nothing: the property is false otherwise |
| `CapabilitiesAssumption` | a request names a capability once, with one of two scopes |
| `OwnersAssumption` | `ownership`, `telemetry_mapping.py:34-59`: at most five owners under the execution, none twice |
| `LogAssumption`, `NoParentAssumption`, `ValuesDiffer`, `PromptsAreTyped`, `FaultAssumption`, bounds | the constants have their types; sentinels are not values |

### Only model-checked

* Liveness: `WorkIsAccounted`, `RetryIsTaken`, `CapacityIsFreed`, `Converges`,
  `OutboxDrains`, `WorkspaceIsSettled`, `RecordsAreDelivered`, `SummaryArrives`,
  `AnswersAreHeard`. Fairness and `ENABLED` are beyond the prover.
* The two runs that end in a violation.

### What proving changed in the models

`CASE` arms that overlapped (`Applied` of `LinearPublication`, `Health` of
`TelemetryOutbox`) are now disjoint, because TLC takes the first and the
semantics any. `TypeOK` of `TelemetryOutbox` bounds dependencies and receipts by
what is recorded. `Ancestry` is the least set closed under parents instead of a
recursive definition, and `Select` and `Ascending` replace `SelectSeq`, whose
library definition is recursive; their results are the same. `Faults` of
`Scheduler` is restricted to the steps whose exceptions the handlers see.

## 5. Plan

Theorems: that the number of dispatches in flight stays within the limits while
no lease runs out; how many launches a recovery with a stale fence can add; that a
planning conversation moves its run only along edges (a composition of
`PlanningConversation` with `WorkflowKernel`).

Modules that would come next, most important first:

| Module | Component | Question |
|---|---|---|
| `WorkQueue` | admission, uncertain-child gate, budgets | is no second child started while one may live, and does the gate open again? |
| `RemoteWorker` | prepare, execute, collect, import | is a hand-over imported once, after lost transport and repeated imports? |
| `RunnerRun` | event stream, questions, limits of a runner run | does every event sequence end in one terminal row? |
| `AgentWebhooks` | webhook inbox | is an event taken once, and a changed one refused? |
| `WorkflowDefinition` | pure algorithms: overlays, graph validation, budget evaluation | agreement with a reference definition over bounded inputs |

## 6. Disagreements between the code and its documents

The first two have a run that ends in a counterexample.

1. **`UnclaimedComment`.** `linear_evidence.py:350` says the worker converges one
   persisted comment without blind retries, and ADR 0020:17-19 that an unknown
   write is read back first. Staging a new body sets an unanswered row back to
   *pending* (`ledger.py:4358`), so the create is sent again without a read. If
   the first one had been applied, Linear refuses the identifier each time and
   the comment keeps its old body for ever.
2. **`DeafToResume`.** A paused run says "Reply resume to continue"
   (`lifecycle.py:876`). Its session is read between attempts and while a runner
   runs (`linear_planning.py:394`); a pause stops neither, so the next stage's
   attempt exists, is not dispatched, and nobody reads the resume.

Six more are stated as properties that fail; a configuration that names the
property reproduces each.

* `ReplayCanSucceed` (`Scheduler`, 1 attempt, no faults). `docs/SETUP.md:286`
  promises that a retried `result_ready` dispatch replays its result. When its
  preparation was put on hold in between, becoming ready again inserts an event
  whose key is unique (`ledger.py:2994`), and the replay fails every time.
* `QuestionStaysAnswerable` (same constants). `live_runner.py:1705` says a
  question is answered by resuming the session. A question asked while recovery
  runs the runner becomes an ambiguous dispatch (`scheduler.py:610`), and control
  then refuses everything but cancel.
* `NoInventedTransition` (`LinearConvergence`, 2 commands, 5 runs, nothing else).
  ADR 0018:37-39 says observations do not invent transitions. When two
  transitions queue two mutations, the older is written first, read back and
  observed as if a person had moved the issue back (`linear_api.py:746`).
* `InterruptedIsAmbiguous` (1 crash). ADR 0018:24-25 treats an interrupted send
  as ambiguous. `recover_linear_mutations` does that and is not called when the
  runtime starts, so the row stays `sending` and is never sent again.
* `GlobalMoveIsTaken` (1 edit). `README.md:94-95` and `factory/WORKFLOW.md:109`
  let a person cancel an issue from any state. In a work state the move is
  rejected as stale (`kernel.py:392`) and the old status is pushed back.
* `Converges` with `LivePolls = TRUE` and 2 edits. `docs/SETUP.md:68-72` calls
  polling the recovery path. An issue read during one run may be reconciled in a
  later one, after newer revisions (`lifecycle.py:440`), and no later poll
  repairs what follows.

Three of `Preparation` and `PlanningConversation` likewise:

* `QuarantineIsSurfaced`. ADR 0012:35-36 surfaces a quarantined worktree through
  an attention request. A crash between the row that says *quarantined* and the
  end of the cleanup plan leaves the plan open; the next cleanup reuses its
  identity, its event key exists already, and every later cleanup fails
  (`Jammed`).
* `RetainedIsReleasable`. `docs/SETUP.md:250` says a retained workspace exposes a
  `release` remedy. Retaining in answer to a request of one preparation opens no
  such request.
* `RejectedIsUnapplied`. The comment at `linear_planning.py:248` means to recover
  an approval committed before a crash. It looks for a *completed* command; a
  crash between the transition and that write leaves the command authorized, and
  the replay tells the author that the approval was rejected. The same happens to
  an answer when the planning attempt has failed in between.

Others were met while modelling and are described here without a property.

* ADR 0019:23 offers a scheduler retry for `prepared` and `result_ready`. The
  scheduler puts the preparation on hold when it asks for attention, and its own
  remedy then refuses the retry because the preparation is not ready
  (`scheduler.py:210`); `AttentionIsAnswerable` counts only requests that some
  remedy accepts.
* `docs/SETUP.md:284` answers an ambiguous preparation with a retry of the
  recorded phase. The retry authorizes the dispatch and leaves the preparation
  `ambiguous`, which `resume_preparation` refuses (`ledger.py:2751`).
* ADR 0013:41-42 says concurrent pollers cannot exceed the admission limits.
  Rows with an expired lease are not counted (`ledger.py:3592`), and their owner
  may still move them to a phase without a lease (`ledger.py:3817`): with two
  pollers the limit is then exceeded.
* ADR 0013:23-25 says dispatch phases cannot be stolen. A recovery that finds its
  fence stale reads the claim token again and supersedes the row under the new
  owner's token (`scheduler.py:595`).
* `docs/SETUP.md:71-73` says a lost write stays ambiguous until a read confirms
  it. No read looks for ambiguous mutations (`linear_api.py:863`); one becomes
  confirmed only if some later observation shows its status.
* ADR 0018:26 confirms only the exact desired status. Claiming a human move
  confirms its mutation with the status observed when the move was made
  (`kernel.py:489`), also when Linear has since been seen to show another one.
* A rate-limited mutation is retried after newer ones were delivered, and a
  failed read-back is retried as if the write itself had failed
  (`linear_api.py:862-880`).

* A crash between `start_mutation` and `finish_mutation` of the worktree, or a
  compensation that ended in quarantine, leaves a mutation that is never
  completed, and the preparation can then not become ready
  (`ledger.py:2966-2985`). A crash between the removal of a worktree and the row
  `cleaned` makes the next cleanup a conflict. The `release_pending` status of
  `docs/SETUP.md:282` is never written.
* A trace range whose frozen payload has expired holds its destination for good;
  a policy refusal before freezing leaves no plan, and `projection_health` shows
  only *pending*.
* A late update of the comment may land after a newer one that was confirmed, and
  a deleted comment that was confirmed is not noticed. An `invalid_response`
  makes a comment *failed* although Linear applied it; one failed read while a
  session is reconciled makes it a fallback for good.
* `docs/LINEAR-PLANNING.md:33-35` recovers messages sent during a planning
  attempt once it has finished. If it fails, the run is in an investigation and
  the message is rejected as `planning_closed`.
* ADR 0043 reads again what is older than ten seconds and has one read at a time.
  The live poll has no such limit and a thread of its own (`lifecycle.py:419`).
* A prompt that Linear keeps queued is skipped, so an older answer does not hold
  back a newer approval. A last message through HTTP stops the automatic
  revision. An answer frozen in one state before a crash is rejected as
  `stale_state` after it.

The admission limits and the stolen phases above need two pollers, which the
instance lock keeps apart in the deployed runtime.

## 7. What is not modelled

Components with status `not_modelled` or `partly` in `PROJECT.json` carry the
reason there. Parsing, rendering, HTTP, GraphQL and git are I/O or formatting and
enter the models only by their outcomes. Wall-clock time is a nondeterministic
"has elapsed". Disk failures and a corrupted SQLite file are outside: a
transaction happens or does not. Prompt contents, token counts and cost are
data no property here depends on.
