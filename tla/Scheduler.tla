------------------------------ MODULE Scheduler ------------------------------
(***************************************************************************)
(* The scheduler (factory/src/dotfactory/scheduler.py) working on the      *)
(* ledger: a tick resumes, recovers or claims one dispatch and carries it  *)
(* through preparation, launch, result, cleanup and commit.  A worker is   *)
(* one scheduler process; "at" is the ledger write it performs next, so a  *)
(* crash can fall between any two writes, as it can in the code.           *)
(*                                                                         *)
(* The preparation engine (resources.py) and the live runner               *)
(* (live_runner.py) are modelled by the ledger rows they write and the     *)
(* ways they return or raise.  The operator reaches the ledger through     *)
(* the runtime's pump (lifecycle.py), that is while a scheduler is between *)
(* two ticks or supervises a runner, or while no scheduler is up.          *)
(***************************************************************************)
EXTENDS FactoryLedger

CONSTANTS
  Faults,      \* worker steps at which the code may raise an exception
  MaxCrashes,  \* bound on crashes
  MaxRemedies  \* bound on operator remedies

ASSUME BoundsAssumption == MaxCrashes \in Nat /\ MaxRemedies \in Nat

\* The steps whose exception reaches the handlers of tick and reconcile with the
\* dispatch still unfinished.  One out of a running runner does not: LiveRunner
\* ends the runner's row and scheduler.py turns it into a failed result, which is
\* RunnerReturns.
ASSUME FaultsAssumption ==
  Faults \subseteq {"claimed", "prepare", "preparing", "launch", "record",
                    "cleanup", "commit", "skill", "finish"}

VARIABLES
  worker,    \* the control state of each scheduler process
  operator,  \* an attention remedy the operator pump is half way through
  child,     \* the attempt's runner process exists in the operating system
  launches,  \* runner processes ever started for the attempt
  resumes,   \* runner resumptions the operator authorized for the attempt
  crashes,   \* crashes so far
  remedies   \* operator remedies so far

history == <<child, launches, resumes>>
budget == <<crashes, remedies>>
vars == <<ledgerVars, worker, operator, history, budget>>

rest == <<operator, history, budget>>           \* what a scheduler step leaves
workflow == <<attempt, execution>>
prepared == <<preparation, readied>>

Steps == {"down", "idle", "claimed", "prepare", "preparing", "noting", "ready",
          "busy", "blocked", "skill", "drop", "prepared", "launch", "running",
          "asking", "asked", "record", "cleanup", "uncleaned", "unclean",
          "commit", "finish", "attend", "link"}

Idle == [at |-> "idle", a |-> 0, path |-> "tick", category |-> "none",
         phase |-> "none", handler |-> FALSE]
Down == [Idle EXCEPT !.at = "down"]
NoRemedy == [a |-> 0, remedy |-> "none"]

WorkerState ==
  [at : Steps, a : Attempts \cup {0}, path : {"tick", "recover", "replay"},
   category : Categories \cup {"none"}, phase : Phases \cup {"none"},
   handler : BOOLEAN]

TypeOK ==
  /\ LedgerTypeOK
  /\ worker \in [Pollers -> WorkerState]
  /\ operator \in [a : Attempts \cup {0}, remedy : {"none", "retry", "other"}]
  /\ child \in [Attempts -> BOOLEAN]
  /\ launches \in [Attempts -> Nat]
  /\ resumes \in [Attempts -> Nat]
  /\ crashes \in Nat
  /\ remedies \in Nat

Init ==
  /\ LedgerInit
  /\ worker = [o \in Pollers |-> Idle]
  /\ operator = NoRemedy
  /\ child = [a \in Attempts |-> FALSE]
  /\ launches = [a \in Attempts |-> 0]
  /\ resumes = [a \in Attempts |-> 0]
  /\ crashes = 0
  /\ remedies = 0

-----------------------------------------------------------------------------
(* Worker control.                                                         *)

\* The worker is about to perform this step for this attempt.  A remedy runs in
\* the worker's own thread, so no worker moves while one is half done.
At(o, a, step) ==
  worker[o].at = step /\ worker[o].a = a /\ operator = NoRemedy

Go(o, step) == worker' = [worker EXCEPT ![o] = [@ EXCEPT !.at = step]]
Rest(o) == worker' = [worker EXCEPT ![o] = Idle]
Turn(o, a, path, step) ==
  worker' = [worker EXCEPT ![o] = [Idle EXCEPT !.at = step, !.a = a,
                                               !.path = path]]

Attend(o, a, path, category, phase, inHandler) ==
  worker' = [worker EXCEPT ![o] =
    [at |-> "attend", a |-> a, path |-> path, category |-> category,
     phase |-> phase, handler |-> inHandler]]

-----------------------------------------------------------------------------
(* Scheduler._attention: fail_preparation, open_attention,                 *)
(* mark_dispatch_attention, in three transactions.                         *)

\* A preparation that is not ready is put on hold before a retry is offered.
HoldsBack(o, a) ==
  /\ worker[o].phase \in SafePhases
  /\ preparation[a] \in {"failed", "skill_failed", "busy", "preparing"}

HoldPreparation(o, a) ==
  /\ At(o, a, "attend") /\ HoldsBack(o, a) /\ Active(a)
  /\ SetPreparation(a, "needs_attention")
  /\ UNCHANGED <<workflow, dispatch, readied, attention, run, worker, rest>>

OpenRequest(o, a) ==
  /\ At(o, a, "attend") /\ ~HoldsBack(o, a)
  /\ OpenAttention(a, worker[o].category, worker[o].phase)
  /\ Go(o, "link")
  /\ UNCHANGED <<workflow, dispatch, prepared, run, rest>>

LinkRequest(o, a) ==
  /\ At(o, a, "link")
  /\ dispatch[a].status \in Unfinished \cup {"attention"}
  /\ MarkDispatchAttention(a, worker[o].category, worker[o].phase)
  /\ Rest(o)
  /\ UNCHANGED <<workflow, prepared, attention, run, rest>>

\* Asking for attention is fenced itself.
AttentionFenced(o, a) ==
  \/ At(o, a, "attend") /\ HoldsBack(o, a) /\ ~Active(a)
  \/ At(o, a, "link") /\ dispatch[a].status \notin Unfinished \cup {"attention"}

\* An exception out of an exception handler ends the process.
Escape(o, a) ==
  /\ worker[o].handler /\ AttentionFenced(o, a)
  /\ worker' = [worker EXCEPT ![o] = Down]
  /\ UNCHANGED <<ledgerVars, rest>>

-----------------------------------------------------------------------------
(* reconcile: replay a remedied attention first, then this owner's          *)
(* unfinished rows; tick: claim only when neither is left.                  *)

Resting(o) == worker[o].at = "idle" /\ operator = NoRemedy

\* Mutant: an answered request of a finished attempt is left where it is.
ResumeIfActive(o, a) ==
  /\ Resting(o) /\ Resumable(a) /\ Active(a)
  /\ ResumeAttentionDispatch(o, a)
  /\ UNCHANGED <<workflow, prepared, attention, run, worker, rest>>

Resume(o, a) ==
  /\ Resting(o) /\ Resumable(a)
  /\ IF Active(a) THEN ResumeAttentionDispatch(o, a) ELSE SupersedeDispatch(a)
  /\ UNCHANGED <<workflow, prepared, attention, run, worker, rest>>

Reconciling(o, a) ==
  /\ Resting(o)
  /\ \A b \in Attempts : ~Resumable(b)
  /\ Recoverable(o, a)

\* A launch intent without a result: only cancellation is offered.
RecoverDispatching(o, a) ==
  /\ Reconciling(o, a) /\ dispatch[a].status = "dispatching"
  /\ Attend(o, a, "recover", "ambiguous-dispatch", "dispatching", FALSE)
  /\ UNCHANGED <<ledgerVars, rest>>

Undecided(a) == preparation[a] \in {"none", "preparing"}

RecoverAmbiguousPreparation(o, a) ==
  /\ Reconciling(o, a) /\ dispatch[a].status = "preparing" /\ Undecided(a)
  /\ Attend(o, a, "recover", "ambiguous-preparation",
            IF preparation[a] = "none" THEN "claimed" ELSE "preparing", FALSE)
  /\ UNCHANGED <<ledgerVars, rest>>

\* decision_for_command: the scheduler's own commit of this dispatch is in the
\* event log.
Committed(a) == attempt[a].left \in {"result", "skill"}

RecoverCommitted(o, a) ==
  /\ Reconciling(o, a) /\ dispatch[a].status = "result_ready" /\ Committed(a)
  /\ CompleteDispatch(a)
  /\ UNCHANGED <<workflow, prepared, attention, run, worker, rest>>

\* Mutant: a row of a finished attempt is left where it is.
TakeoverIfActive(o, a) ==
  /\ Reconciling(o, a) /\ Active(a)
  /\ \/ dispatch[a].status = "preparing" /\ ~Undecided(a)
     \/ dispatch[a].status = "result_ready" /\ ~Committed(a)
  /\ TakeoverDispatch(o, a)
  /\ Turn(o, a, IF dispatch[a].status = "preparing" THEN "recover" ELSE "replay",
          "prepare")
  /\ UNCHANGED <<workflow, prepared, attention, run, rest>>

Takeover(o, a) ==
  /\ Reconciling(o, a)
  /\ \/ dispatch[a].status = "preparing" /\ ~Undecided(a)
     \/ dispatch[a].status = "result_ready" /\ ~Committed(a)
  /\ IF Active(a)
     THEN /\ TakeoverDispatch(o, a)
          /\ Turn(o, a, IF dispatch[a].status = "preparing"
                        THEN "recover" ELSE "replay", "prepare")
     ELSE SupersedeDispatch(a) /\ UNCHANGED worker
  /\ UNCHANGED <<workflow, prepared, attention, run, rest>>

Claim(o, a) ==
  /\ Resting(o)
  /\ \A b \in Attempts : ~Resumable(b) /\ ~Recoverable(o, b)
  /\ ClaimDispatch(o, a)
  /\ Turn(o, a, "tick", "claimed")
  /\ UNCHANGED <<workflow, prepared, attention, run, rest>>

-----------------------------------------------------------------------------
(* Preparation: mark_dispatch_preparing, the budget gate, then              *)
(* PreparationEngine.prepare.                                               *)

MarkPreparing(o, a) ==
  /\ At(o, a, "claimed") /\ Holds(o, a, "claimed")
  /\ MarkDispatchPreparing(a)
  /\ Go(o, "prepare")
  /\ UNCHANGED <<workflow, prepared, attention, run, rest>>

DeferForBudget(o, a) ==
  /\ At(o, a, "prepare") /\ worker[o].path # "replay"
  /\ Holds(o, a, "preparing")
  /\ DeferDispatch(a)
  /\ Rest(o)
  /\ UNCHANGED <<workflow, prepared, attention, run, rest>>

BeginPreparation(o, a) ==
  /\ At(o, a, "prepare") /\ Active(a) /\ preparation[a] = "none"
  /\ SetPreparation(a, "preparing")
  /\ UNCHANGED <<workflow, dispatch, readied, attention, run, worker, rest>>

\* What the caller of prepare does with its disposition.  A replayed result goes
\* on to cleanup when the launch could be rehydrated and asks for attention on
\* any other disposition; otherwise only "fatal" asks at once.
Disposed(o, a, disposition) ==
  LET path == worker[o].path IN
  CASE path = "replay" /\ disposition = "ready" -> Go(o, "cleanup")
    [] path = "replay" /\ disposition # "ready" ->
         Attend(o, a, path, "result-recovery", "result_ready", FALSE)
    [] path # "replay" /\ disposition = "fatal" ->
         Attend(o, a, path, "preparation-fatal", "preparing", FALSE)
    [] OTHER -> Go(o, disposition)

Preparing(o, a, step) == At(o, a, step) /\ Active(a)

\* Declared skills are resolved on every call, whatever the preparation's
\* status; a skill failure already recorded is returned as it is.
ResolveSkills(o, a) ==
  /\ Preparing(o, a, "prepare") /\ preparation[a] # "none"
  /\ SetPreparation(a, IF preparation[a] \in {"failed", "skill_failed"}
                       THEN preparation[a] ELSE "skill_failed")
  /\ Disposed(o, a, "skill")
  /\ UNCHANGED <<workflow, dispatch, readied, attention, run, rest>>

\* prepare returns without a write: the preparation is ready, still waiting out
\* its contention, or canceled.
ReturnAtOnce(o, a) ==
  /\ Preparing(o, a, "prepare")
  /\ \/ preparation[a] = "ready" /\ Disposed(o, a, "ready")
     \/ preparation[a] = "busy" /\ Disposed(o, a, "busy")
     \/ preparation[a] = "canceled" /\ Disposed(o, a, "fatal")
  /\ UNCHANGED <<ledgerVars, rest>>

ResumePreparation(o, a) ==
  /\ Preparing(o, a, "prepare")
  /\ preparation[a] \in {"busy", "failed", "preparing"}
  /\ SetPreparation(a, "preparing")
  /\ Go(o, "preparing")
  /\ UNCHANGED <<workflow, dispatch, readied, attention, run, rest>>

\* mark_preparation_ready writes the event preparation:<id>:ready, whose key is
\* unique in the event log: a preparation that was ready before cannot become
\* ready again, its transaction fails and the preparation with it.
MarkPreparationReady(o, a) ==
  /\ Preparing(o, a, "preparing") /\ ~readied[a]
  /\ SetPreparation(a, "ready")
  /\ readied' = [readied EXCEPT ![a] = TRUE]
  /\ Disposed(o, a, "ready")
  /\ UNCHANGED <<workflow, dispatch, attention, run, rest>>

FailPreparation(o, a) ==
  /\ Preparing(o, a, "preparing")
  /\ \/ SetPreparation(a, "busy") /\ Disposed(o, a, "busy")
     \/ SetPreparation(a, "failed") /\ Disposed(o, a, "fatal")
  /\ UNCHANGED <<workflow, dispatch, readied, attention, run, rest>>

\* PreparationEngine._attention: open the request, then fail the preparation.
\* Asked by prepare (workspace conflict, exhausted contention, provider) and by
\* cleanup_attempt.
EngineAsks(o, a) ==
  /\ \/ /\ Preparing(o, a, "prepare") /\ preparation[a] \in {"ready", "busy"}
        /\ Go(o, "noting")
     \/ Preparing(o, a, "preparing") /\ Go(o, "noting")
     \/ Preparing(o, a, "cleanup") /\ Go(o, "uncleaned")
  /\ OpenAttention(a, "engine", "open")
  /\ UNCHANGED <<workflow, dispatch, prepared, run, rest>>

NoteEngineRequest(o, a) ==
  /\ \/ Preparing(o, a, "noting") /\ Disposed(o, a, "blocked")
     \/ Preparing(o, a, "uncleaned") /\ Go(o, "unclean")
  /\ SetPreparation(a, "needs_attention")
  /\ UNCHANGED <<workflow, dispatch, readied, attention, run, rest>>

-----------------------------------------------------------------------------
(* The scheduler's write after prepare returned.  It reads the row's current *)
(* claim token first.                                                        *)

InPreparing(a) == Active(a) /\ dispatch[a].status = "preparing"

Defer(o, a) ==
  /\ At(o, a, "busy") /\ InPreparing(a)
  /\ DeferDispatch(a)
  /\ Rest(o)
  /\ UNCHANGED <<workflow, prepared, attention, run, rest>>

LinkEngineRequest(o, a) ==
  /\ \/ At(o, a, "blocked") /\ MarkDispatchAttention(a, "engine", "preparing")
     \/ At(o, a, "unclean") /\ MarkDispatchAttention(a, "engine", "result_ready")
  /\ dispatch[a].status \in Unfinished \cup {"attention"}
  /\ Rest(o)
  /\ UNCHANGED <<workflow, prepared, attention, run, rest>>

\* Unresolved skills fail the attempt when the node has a "failed" exit, and
\* supersede its dispatch; otherwise they ask for attention.
CommitSkillFailure(o, a) ==
  /\ At(o, a, "skill") /\ Active(a)
  /\ AcceptTransition(attempt[a].of, Ended(a, "skill"))
  /\ Go(o, "drop")
  /\ UNCHANGED <<dispatch, prepared, attention, run, rest>>

NoFailedExit(o, a) ==
  /\ At(o, a, "skill")
  /\ Attend(o, a, worker[o].path, "preparation-fatal", "preparing", FALSE)
  /\ UNCHANGED <<ledgerVars, rest>>

DropDispatch(o, a) ==
  /\ At(o, a, "drop")
  /\ dispatch[a].status \in Unfinished \cup {"attention"}
  /\ SupersedeDispatch(a)
  /\ Rest(o)
  /\ UNCHANGED <<workflow, prepared, attention, run, rest>>

MarkPrepared(o, a) ==
  /\ At(o, a, "ready") /\ InPreparing(a)
  /\ MarkDispatchPrepared(o, a)
  /\ Go(o, "prepared")
  /\ UNCHANGED <<workflow, prepared, attention, run, rest>>

\* The launch intent.  Nobody asks whether the lease ran out in between.
MarkLaunchIntent(o, a) ==
  /\ At(o, a, "prepared") /\ Holds(o, a, "prepared")
  /\ MarkDispatching(a)
  /\ Go(o, "launch")
  /\ UNCHANGED <<workflow, prepared, attention, run, rest>>

-----------------------------------------------------------------------------
(* The runner.  LiveRunner.run plans, starts and supervises one process; its *)
(* durable row decides what a later call may do.                             *)

Supervised == <<workflow, dispatch, prepared, operator, resumes, budget>>

\* A new session, or the resumption of one the operator authorized.
Launch(o, a) ==
  /\ At(o, a, "launch") /\ Active(a)
  /\ run[a] \in {"none", "resume_authorized"}
  /\ run' = [run EXCEPT ![a] = "running"]
  /\ child' = [child EXCEPT ![a] = TRUE]
  /\ launches' = [launches EXCEPT ![a] = @ + 1]
  /\ Go(o, "running")
  /\ UNCHANGED <<attention, Supervised>>

\* No process is started: verification refused the launch, or the row already
\* holds a result or a failure, or a question nobody answered.
NoLaunch(o, a) ==
  /\ At(o, a, "launch")
  /\ \/ Go(o, "record")
     \/ run[a] = "waiting_input" /\ Go(o, "asked")
  /\ UNCHANGED <<ledgerVars, rest>>

RunnerReturns(o, a) ==
  /\ At(o, a, "running")
  /\ \/ /\ run[a] = "running"
        /\ \E status \in {"result_ready", "failed", "canceled"} :
             run' = [run EXCEPT ![a] = status]
     \/ run[a] = "canceled" /\ run' = run
  /\ child' = [child EXCEPT ![a] = FALSE]
  /\ Go(o, "record")
  /\ UNCHANGED <<attention, launches, Supervised>>

RunnerAsks(o, a) ==
  /\ At(o, a, "running") /\ run[a] = "running"
  /\ OpenAttention(a, "runner", "open")
  /\ Go(o, "asking")
  /\ UNCHANGED <<run, child, launches, Supervised>>

MarkWaitingInput(o, a) ==
  /\ At(o, a, "asking") /\ Active(a)
  /\ run' = [run EXCEPT ![a] = "waiting_input"]
  /\ Go(o, "asked")
  /\ UNCHANGED <<attention, child, launches, Supervised>>

\* RunnerNeedsAttention terminates the process.  tick links the runner's request
\* to the dispatch, and dies if the row is closed by then; reconcile has no
\* handler for it and treats it as any other failure of a launched dispatch.
RaiseQuestion(o, a) ==
  /\ At(o, a, "asked")
  /\ \/ /\ worker[o].path = "tick"
        /\ dispatch[a].status \in Unfinished \cup {"attention"}
        /\ MarkDispatchAttention(a, "runner", "preparing")
        /\ Rest(o)
     \/ /\ worker[o].path = "tick"
        /\ dispatch[a].status \notin Unfinished \cup {"attention"}
        /\ worker' = [worker EXCEPT ![o] = Down]
        /\ UNCHANGED dispatch
     \/ /\ worker[o].path # "tick"
        /\ Attend(o, a, worker[o].path, "ambiguous-dispatch", "dispatching", TRUE)
        /\ UNCHANGED dispatch
  /\ child' = [child EXCEPT ![a] = FALSE]
  /\ UNCHANGED <<workflow, prepared, attention, run, operator, launches, resumes,
                 budget>>

-----------------------------------------------------------------------------
(* The result: record it, clean up, commit the workflow transition, complete *)
(* the dispatch.                                                             *)

RecordResult(o, a) ==
  /\ At(o, a, "record") /\ Holds(o, a, "dispatching")
  /\ RecordDispatchResult(a)
  /\ Go(o, "cleanup")
  /\ UNCHANGED <<workflow, prepared, attention, run, rest>>

CleanupAttempt(o, a) ==
  /\ At(o, a, "cleanup") /\ Active(a)
  /\ Go(o, "commit")
  /\ UNCHANGED <<ledgerVars, rest>>

CommitResult(o, a) ==
  /\ At(o, a, "commit") /\ Active(a)
  /\ AcceptTransition(attempt[a].of, Ended(a, "result"))
  /\ Go(o, "finish")
  /\ UNCHANGED <<dispatch, prepared, attention, run, rest>>

FinishDispatch(o, a) ==
  /\ At(o, a, "finish") /\ dispatch[a].status = "result_ready"
  /\ CompleteDispatch(a)
  /\ Rest(o)
  /\ UNCHANGED <<workflow, prepared, attention, run, rest>>

-----------------------------------------------------------------------------
(* Exceptions.                                                              *)

\* A fenced write raises StaleAttempt and the dispatch is superseded: by a tick
\* under its own claim token, by recovery under whatever token is current.
Fenced(o, a) ==
  \/ AttentionFenced(o, a) /\ ~worker[o].handler
  \/ At(o, a, "claimed") /\ ~Holds(o, a, "claimed")
  \/ At(o, a, "prepared") /\ ~Holds(o, a, "prepared")
  \/ At(o, a, "record") /\ ~Holds(o, a, "dispatching")
  \/ (At(o, a, "ready") \/ At(o, a, "busy")) /\ ~InPreparing(a)
  \/ At(o, a, "finish") /\ dispatch[a].status # "result_ready"
  \/ /\ At(o, a, "blocked") \/ At(o, a, "unclean") \/ At(o, a, "drop")
     /\ dispatch[a].status \notin Unfinished \cup {"attention"}
  \/ ~Active(a) /\ \E step \in {"prepare", "preparing", "noting", "uncleaned",
                                "skill", "launch", "asking", "cleanup",
                                "commit"} : At(o, a, step)

Stale(o, a) ==
  /\ Fenced(o, a)
  /\ dispatch' = IF /\ worker[o].path = "tick" => o \in dispatch[a].tokens
                    /\ dispatch[a].status \in Unfinished \cup {"attention"}
                 THEN [dispatch EXCEPT ![a] = Superseded(@)] ELSE dispatch
  /\ Rest(o)
  /\ UNCHANGED <<workflow, prepared, attention, run, rest>>

\* Steps at which the code raises of itself: a preparation on hold refuses to be
\* resumed, a runner row that is not resumable refuses to run.
Refused(o, a) ==
  \/ At(o, a, "prepare") /\ preparation[a] = "needs_attention"
  \/ At(o, a, "launch") /\ run[a] = "running"

\* The category the two handlers give the failure of a dispatch in this status.
HandlerCategory(o, a) ==
  LET status == dispatch[a].status IN
  CASE status = "dispatching" -> {"ambiguous-dispatch"}
    [] status = "result_ready" /\ worker[o].path = "tick" -> {"result-commit"}
    [] status = "result_ready" /\ worker[o].path = "replay" ->
         (CASE worker[o].at = "prepare" -> {"scheduler-recovery", "result-recovery"}
            [] worker[o].at = "preparing" -> {"result-recovery"}
            [] OTHER -> {"result-commit"})
    [] status \notin {"dispatching", "result_ready"} /\ worker[o].path = "tick" ->
         {"scheduler-infrastructure"}
    [] OTHER -> {"scheduler-recovery"}

HandlerPhase(a) ==
  IF dispatch[a].status \in Phases THEN dispatch[a].status ELSE "claimed"

Raise(o, a) ==
  /\ Refused(o, a) \/ \E step \in Faults : At(o, a, step)
  /\ ~Fenced(o, a)
  /\ IF worker[o].path # "tick" /\ dispatch[a].status = "result_ready" /\ Committed(a)
     THEN CompleteDispatch(a) /\ Rest(o)
     ELSE /\ \E category \in HandlerCategory(o, a) :
               Attend(o, a, worker[o].path, category, HandlerPhase(a), TRUE)
          /\ UNCHANGED dispatch
  /\ UNCHANGED <<workflow, prepared, attention, run, rest>>

-----------------------------------------------------------------------------
(* The operator: control.py commands and human workflow transitions.        *)

Pumped ==
  /\ operator = NoRemedy
  /\ \/ \E o \in Pollers : worker[o].at \in {"idle", "running"}
     \/ \A o \in Pollers : worker[o].at = "down"

Serving == <<worker, history, budget>>

\* A person moves an execution on; entering work creates an attempt.
HumanTransition(e) ==
  /\ Pumped /\ execution[e] = "human"
  /\ AcceptTransition(e, attempt)
  /\ UNCHANGED <<dispatch, prepared, attention, run, operator, Serving>>

\* A control command ends the work of the active attempt without asking the
\* scheduler.  It is refused while a launch may have happened.
ControlTransition(a) ==
  /\ Pumped /\ Active(a)
  /\ ~AmbiguousDispatch(attempt[a].of)
  /\ AcceptTransition(attempt[a].of, Ended(a, "operator"))
  /\ UNCHANGED <<dispatch, prepared, attention, run, operator, Serving>>

\* Cancel is never refused.
ControlCancel(a) ==
  /\ Pumped /\ Active(a)
  /\ attempt' = Ended(a, "cancel")
  /\ execution' = [execution EXCEPT ![attempt[a].of] = "terminal"]
  /\ TerminalizeCanceledAttempt(a)
  /\ UNCHANGED <<prepared, operator, Serving>>

\* An attention remedy for the active attempt of an unambiguous execution.
Remedied(a, category) ==
  /\ Pumped /\ remedies < MaxRemedies
  /\ Active(a) /\ Open(a, category)
  /\ ~AmbiguousDispatch(attempt[a].of)
  /\ remedies' = remedies + 1

\* Scheduler.remedy_attention accepts a retry of a request that is linked to its
\* dispatch at the same safe step, for a result only with the preparation ready.
RetryAccepted(a, category) ==
  /\ dispatch[a].status = "attention" /\ dispatch[a].link = category
  /\ dispatch[a].phase = attention[a][category]
  /\ dispatch[a].phase \in SafePhases
  /\ dispatch[a].phase = "result_ready" =>
       dispatch[a].result /\ preparation[a] = "ready"

RemedyScheduler(a, category) ==
  /\ Remedied(a, category) /\ RetryAccepted(a, category)
  /\ ResolveAttention(a, category, "retry")
  /\ UNCHANGED <<workflow, prepared, run, worker, operator, history, crashes>>

\* PreparationEngine.remedy_attention writes twice: it authorizes the retry of
\* the preparation (or cancels it), then resolves the request.
RemedyEngine(a, remedy) ==
  /\ Remedied(a, "engine")
  /\ preparation[a] \in IF remedy = "retry" THEN {"needs_attention"}
                         ELSE {"needs_attention", "canceled"}
  /\ SetPreparation(a, IF remedy = "retry" THEN "failed" ELSE "canceled")
  /\ operator' = [a |-> a, remedy |-> remedy]
  /\ UNCHANGED <<workflow, dispatch, readied, attention, run, worker, history,
                 crashes>>

ResolveEngineRequest ==
  /\ operator # NoRemedy
  /\ ResolveAttention(operator.a, "engine", operator.remedy)
  /\ operator' = NoRemedy
  /\ UNCHANGED <<workflow, prepared, run, Serving>>

\* Mutant: every answer to the runner's question is taken for a retry.
RemedyRunnerAlways(a, remedy) ==
  /\ Remedied(a, "runner") /\ run[a] = "waiting_input"
  /\ ResolveAttention(a, "runner", "retry")
  /\ run' = [run EXCEPT ![a] = "resume_authorized"]
  /\ resumes' = [resumes EXCEPT ![a] = IF remedy = "retry" THEN @ + 1 ELSE @]
  /\ UNCHANGED <<workflow, prepared, worker, operator, child, launches, crashes>>

\* remedy_runner_attention is one transaction.
RemedyRunner(a, remedy) ==
  /\ Remedied(a, "runner") /\ run[a] = "waiting_input"
  /\ ResolveAttention(a, "runner", remedy)
  /\ run' = [run EXCEPT ![a] =
               IF remedy = "retry" THEN "resume_authorized" ELSE "canceled"]
  /\ resumes' = [resumes EXCEPT ![a] = IF remedy = "retry" THEN @ + 1 ELSE @]
  /\ UNCHANGED <<workflow, prepared, worker, operator, child, launches, crashes>>

-----------------------------------------------------------------------------
(* The environment.                                                         *)

\* A scheduler dies: its thread, the claim token it knew and a remedy it was
\* serving are gone; a runner process it started may live on.
Crash(o) ==
  /\ worker[o].at # "down" /\ crashes < MaxCrashes
  /\ worker' = [worker EXCEPT ![o] = Down]
  /\ dispatch' = [a \in Attempts |-> [dispatch[a] EXCEPT !.tokens = @ \ {o}]]
  /\ operator' = NoRemedy
  /\ crashes' = crashes + 1
  /\ UNCHANGED <<workflow, prepared, attention, run, history, remedies>>

\* A control-only runtime dies while it serves a remedy.
CrashControl ==
  /\ operator # NoRemedy /\ crashes < MaxCrashes
  /\ \A o \in Pollers : worker[o].at = "down"
  /\ operator' = NoRemedy
  /\ crashes' = crashes + 1
  /\ UNCHANGED <<ledgerVars, worker, history, remedies>>

\* The main runtime starts once no control-only runtime holds the lock.
Restart(o) ==
  /\ worker[o].at = "down" /\ operator = NoRemedy
  /\ worker' = [worker EXCEPT ![o] = Idle]
  /\ UNCHANGED <<ledgerVars, rest>>

\* A lease (claimed, prepared) or a delay (waiting) runs out.
Elapse(a) ==
  /\ dispatch[a].timer = "running"
  /\ dispatch' = [dispatch EXCEPT ![a].timer = "elapsed"]
  /\ UNCHANGED <<workflow, prepared, attention, run, worker, rest>>

\* A runner process nobody supervises any more ends.
OrphanExits(a) ==
  /\ child[a]
  /\ \A o \in Pollers :
       ~(worker[o].a = a /\ worker[o].at \in {"running", "asking", "asked"})
  /\ child' = [child EXCEPT ![a] = FALSE]
  /\ UNCHANGED <<ledgerVars, worker, operator, launches, resumes, budget>>

-----------------------------------------------------------------------------

\* The supervisor of a runner enforces a wall-clock limit, so a run ends.
RunnerStep(o, a) ==
  \/ Launch(o, a) \/ NoLaunch(o, a) \/ RunnerReturns(o, a)
  \/ RunnerAsks(o, a) \/ MarkWaitingInput(o, a) \/ RaiseQuestion(o, a)

PreparationStep(o, a) ==
  \/ MarkPreparing(o, a) \/ DeferForBudget(o, a) \/ BeginPreparation(o, a)
  \/ ResolveSkills(o, a) \/ ReturnAtOnce(o, a) \/ ResumePreparation(o, a)
  \/ MarkPreparationReady(o, a) \/ FailPreparation(o, a) \/ EngineAsks(o, a)
  \/ NoteEngineRequest(o, a) \/ Defer(o, a) \/ LinkEngineRequest(o, a)
  \/ CommitSkillFailure(o, a) \/ NoFailedExit(o, a) \/ DropDispatch(o, a)
  \/ MarkPrepared(o, a) \/ MarkLaunchIntent(o, a)

ReconcileStep(o, a) ==
  \/ Resume(o, a) \/ RecoverDispatching(o, a)
  \/ RecoverAmbiguousPreparation(o, a) \/ RecoverCommitted(o, a)
  \/ Takeover(o, a) \/ Claim(o, a)

ResultStep(o, a) ==
  \/ RecordResult(o, a) \/ CleanupAttempt(o, a) \/ CommitResult(o, a)
  \/ FinishDispatch(o, a) \/ Stale(o, a) \/ Raise(o, a)
  \/ HoldPreparation(o, a) \/ OpenRequest(o, a) \/ LinkRequest(o, a)
  \/ Escape(o, a)

SchedulerStep(o) ==
  \E a \in Attempts : \/ ReconcileStep(o, a) \/ PreparationStep(o, a)
                      \/ RunnerStep(o, a) \/ ResultStep(o, a)

OperatorStep ==
  \/ \E e \in Executions : HumanTransition(e)
  \/ \E a \in Attempts : \/ ControlTransition(a) \/ ControlCancel(a)
                         \/ \E c \in SchedulerCategories : RemedyScheduler(a, c)
                         \/ \E r \in {"retry", "other"} :
                              RemedyEngine(a, r) \/ RemedyRunner(a, r)
  \/ ResolveEngineRequest

Environment ==
  \/ \E o \in Pollers : Crash(o) \/ Restart(o)
  \/ CrashControl
  \/ \E a \in Attempts : Elapse(a) \/ OrphanExits(a)

Next == (\E o \in Pollers : SchedulerStep(o)) \/ OperatorStep \/ Environment

Spec == Init /\ [][Next]_vars

\* The runtime keeps ticking and is started again after a crash, a remedy the
\* pump began is finished or lost, and leases and delays run out.  Nothing is
\* assumed of the operator or of an orphaned runner.
Fairness ==
  /\ \A o \in Pollers : WF_vars(SchedulerStep(o)) /\ WF_vars(Restart(o))
  /\ WF_vars(ResolveEngineRequest)
  /\ \A a \in Attempts : WF_vars(Elapse(a))

FairSpec == Spec /\ Fairness

-----------------------------------------------------------------------------
(* Safety.                                                                  *)

\* An instance lock makes one runtime the only scheduler of a ledger
\* (lifecycle.py, InstanceLock).  The properties marked "single writer" need it.
SingleWriter == \A o, p \in Pollers : o = p

\* Two runner processes never work for one execution, hence in one worktree, at
\* the same time, counting those that outlive a crashed scheduler: the control
\* surface refuses to move past a dispatch that may have launched, and recovery
\* never launches again.  Single writer.
ExclusiveWorkspace ==
  \A e \in Executions :
    Cardinality({a \in Attempts : child[a] /\ attempt[a].of = e}) <= 1

\* A runner is started once, and once more for every resumption the operator
\* authorized: no crash, retry, lease expiry or replay starts it again.
LaunchesAuthorized == \A a \in Attempts : launches[a] <= 1 + resumes[a]

\* Cancel at a terminal state leaves nothing alive behind it, whatever the
\* scheduler, the engine and the runner were in the middle of: no live dispatch,
\* no open request, no runner row a later process would resume.
CanceledIsClosed ==
  \A a \in Attempts : attempt[a].left = "cancel" =>
    /\ dispatch[a].status \in {"none", "completed", "superseded"}
    /\ \A c \in Categories : ~Open(a, c)
    /\ run[a] \notin {"running", "waiting_input", "resume_authorized"}

\* A dispatch in attention is always either still asking or already answered:
\* the request it links is open, or was resolved by a remedy the row knows of,
\* across every crash between opening, linking and resolving.
AttentionIsAnswerable ==
  \A a \in Attempts :
    dispatch[a].status = "attention" /\ dispatch[a].remedy = "none" =>
      Open(a, dispatch[a].link)

\* The scheduler implements the promise of AttemptPromise, with the operator's
\* resumptions as the permits.
Promise == INSTANCE AttemptPromise WITH
  left <- [a \in Attempts |-> attempt[a].left],
  recorded <- [a \in Attempts |-> dispatch[a].result],
  permits <- resumes
KeepsPromise == Promise!Spec

\* With several schedulers on one ledger, at most one of them is between the
\* launch of an attempt's runner and the record of its result.
OneLauncher ==
  \A o, p \in Pollers :
    /\ worker[o].at \in {"launch", "running", "asking", "asked", "record"}
    /\ worker[p].at \in {"launch", "running", "asking", "asked", "record"}
    /\ worker[o].a = worker[p].a
    => o = p

-----------------------------------------------------------------------------
(* What the documentation says and the code does not do.                    *)

\* docs/SETUP.md, Recovery: an authorized retry of a stored result replays it.
\* For that its preparation has to be ready, or to become ready once more.
ReplayCanSucceed ==
  \A a \in Attempts :
    Resumable(a) /\ dispatch[a].phase = "result_ready" =>
      preparation[a] = "ready" \/ ~readied[a]

\* live_runner.py: the meaning of retry, for a runner's question, is to resume
\* the durable session.  So it must not be refused while the runner waits.
QuestionStaysAnswerable ==
  \A a \in Attempts :
    run[a] = "waiting_input" /\ dispatch[a].status = "attention" =>
      ~AmbiguousDispatch(attempt[a].of)

-----------------------------------------------------------------------------
(* Liveness.                                                                *)

\* An active attempt does not get lost: it is finished, or defers, or waits for
\* an operator who can see an open request, whatever row a crash left behind.
Accounted(a) ==
  \/ ~Active(a)
  \/ dispatch[a].status \in {"waiting", "attention"}
  \/ \E c \in Categories : Open(a, c)

WorkIsAccounted == \A a \in Attempts : Active(a) ~> Accounted(a)

\* An answered request does not block recovery forever, also when the attempt it
\* was asked for has been replaced in the meantime.
RetryIsTaken == \A a \in Attempts : Resumable(a) ~> ~Resumable(a)

\* Capacity taken by an attempt that is over is given back.
CapacityIsFreed ==
  \A a \in Attempts : Occupying(a) /\ ~Active(a) ~> ~Occupying(a)
=============================================================================
