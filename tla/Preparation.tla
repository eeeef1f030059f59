----------------------------- MODULE Preparation -----------------------------
(***************************************************************************)
(* The preparation engine (factory/src/dotfactory/resources.py) of one     *)
(* execution: prepare, cleanup_attempt, cleanup_workspace and              *)
(* remedy_attention, with the rows they write (preparations,               *)
(* resource_allocations, resource_mutations, execution_workspaces,         *)
(* cleanup_plans, attention_requests).  "at" is the next transaction or    *)
(* external effect of the one control thread; the process may die between  *)
(* any two of them.  The attempts, the worktree and the service processes  *)
(* are the engine's surroundings.                                          *)
(***************************************************************************)
EXTENDS Integers, Sequences, FiniteSets, SequencesExt

CONSTANTS
  Capabilities, \* the sequence of capabilities the work asks for, in order
  ScopeOf,      \* the scope of each: "attempt" or "execution"
  MaxAttempts,  \* bound on attempts of the execution
  MaxCalls,     \* bound on calls of prepare
  MaxCrashes,   \* bound on crashes
  MaxRemedies   \* bound on operator remedies

ASSUME BoundsAssumption ==
  MaxAttempts \in Nat /\ MaxCalls \in Nat /\ MaxCrashes \in Nat /\ MaxRemedies \in Nat
ASSUME CapabilitiesAssumption ==
  /\ Capabilities \in Seq({Capabilities[k] : k \in DOMAIN Capabilities})
  /\ IsInjective(Capabilities)
  /\ \A k \in DOMAIN Capabilities : ScopeOf[Capabilities[k]] \in {"attempt", "execution"}

Attempts == 1 .. MaxAttempts
Names == {Capabilities[k] : k \in DOMAIN Capabilities}

VARIABLES
  created,      \* attempts created so far; only the last can be active
  active,       \* the last attempt is the active one
  terminal,     \* the execution is at a terminal state
  uncertain,    \* a canceled runner may still run (ambiguous_side_effect)
  preparation,  \* preparations.status, by attempt
  readied,      \* the event preparation:<id>:ready is in the event log
  creates,      \* statuses of the mutations that create the worktree
  rows,         \* resource_allocations with the mutations that name them
  workspace,    \* the row of execution_workspaces: status and cleanup policy
  plan,         \* the last workspace cleanup plan and the events it has keyed
  requests,     \* open attention requests
  late,         \* the contention deadline of the current attempt has passed
  engine,       \* where the control thread is
  known,        \* rows whose activation is in the engine's memory
  live,         \* rows whose service process runs
  tree,         \* the worktree on disk
  budget        \* how much of each bound is used

workflow == <<created, active, terminal, uncertain>>
journal == <<readied, creates, rows>>
upkeep == <<workspace, plan>>
outside == <<live, tree>>
vars == <<workflow, preparation, journal, upkeep, requests, late, engine, known,
          outside, budget>>

Rows == DOMAIN rows

RowType ==
  [of : Attempts, capability : Names,
   status : {"active", "released", "quarantined"}, ready : BOOLEAN,
   activate : {"none", "planned", "started", "completed", "failed"},
   undo : {"none", "planned", "started", "completed", "quarantined"}]

Remedies == {"retry", "release", "retain", "quarantine", "cancel"}

\* What a request is asked for.
Categories == {"none", "exhausted", "conflict", "unhealthy", "unsafe-cleanup",
               "uncertain-runner-exit", "retained-workspace"}

\* An execution-scoped request has no attempt.
RequestType ==
  [of : Attempts \cup {0}, category : Categories,
   about : Names \cup {"workspace", "uncertain", "outstanding", "cleanup", "held"},
   allowed : SUBSET Remedies]

Request(a, category, about, allowed) ==
  [of |-> a, category |-> category, about |-> about, allowed |-> allowed]
NoRequest == Request(0, "none", "workspace", {})

Idle == [at |-> "idle", k |-> 0, done |-> <<>>, why |-> "none", ask |-> NoRequest,
         remedy |-> "none"]

Init ==
  /\ created = 0 /\ active = FALSE /\ terminal = FALSE /\ uncertain = FALSE
  /\ preparation = [a \in Attempts |-> "none"]
  /\ readied = [a \in Attempts |-> FALSE]
  /\ creates = [a \in Attempts |-> <<>>]
  /\ rows = <<>>
  /\ workspace = [status |-> "none", policy |-> "none"]
  /\ plan = [open |-> FALSE, keyed |-> {}, initial |-> FALSE]
  /\ requests = {}
  /\ late = FALSE
  /\ engine = Idle
  /\ known = {} /\ live = {} /\ tree = "absent"
  /\ budget = [calls |-> 0, crashes |-> 0, remedies |-> 0]

\* The fault points of prepare and its compensation, of cleanup_attempt and
\* cleanup_workspace, and of remedy_attention, between which a crash may fall.
PrepareAt ==
  {"workspace", "start-create", "materialize", "register", "finish-create", "fail-create",
   "capability", "plan-activation", "start-activation", "activate", "record-ready",
   "finish-activation", "fail-activation", "drop-allocation", "compensate", "start-undo",
   "undo", "finish-undo", "release-undone", "quarantine-undo", "ask", "hold"}
CleanupAt ==
  {"cleanup", "release-cleaned", "workspace-cleanup", "ask-uncertain", "ask-outstanding",
   "ask-unsafe", "pending", "remove", "removed", "refused", "finish-plan", "finish-refused"}
RemedyAt ==
  {"authorize", "cancel", "targets", "release-target", "policy", "quarantine", "hold-tree",
   "resolve", "ask-held"}

TypeOK ==
  /\ created \in 0 .. MaxAttempts
  /\ {active, terminal, uncertain, late} \subseteq BOOLEAN
  /\ preparation \in [Attempts -> {"none", "preparing", "busy", "ready", "failed",
                                   "needs_attention", "canceled"}]
  /\ readied \in [Attempts -> BOOLEAN]
  /\ \A a \in Attempts : creates[a] \in Seq({"planned", "started", "failed", "completed"})
  /\ rows \in Seq(RowType)
  /\ workspace \in [status : {"none", "active", "cleanup_pending", "cleaned", "quarantined"},
                    policy : {"none", "retain", "quarantine"}]
  /\ plan \in [open : BOOLEAN, initial : BOOLEAN,
               keyed : SUBSET {"cleanup_pending", "quarantined", "cleaned"}]
  /\ requests \subseteq RequestType
  /\ engine \in [at : {"idle"} \cup PrepareAt \cup CleanupAt \cup RemedyAt,
                 k : Nat, done : Seq(Nat), ask : RequestType,
                 why : {"none", "busy", "ask", "failed"}, remedy : Remedies \cup {"none"}]
  /\ known \subseteq Rows /\ live \subseteq Rows
  /\ tree \in {"absent", "clean", "dirty", "changed"}

-----------------------------------------------------------------------------
(* Control.                                                                *)

At(step) == engine.at = step
Go(step) == engine' = [engine EXCEPT !.at = step]
Return == engine' = Idle
\* An exception in prepare: what was activated is undone before it is reported.
Undo(why, ask) ==
  engine' = [engine EXCEPT !.at = "compensate", !.why = why, !.ask = ask]
Ask(request) == engine' = [Idle EXCEPT !.at = "ask", !.ask = request]

\* A control command finds the engine between two calls, and so does the next
\* call: all of them are made by the runtime's one control thread.
Ready(a) == At("idle") /\ active /\ a = created

Current == created
SetPreparation(status) == preparation' = [preparation EXCEPT ![created] = status]
SetRow(i, field, value) == rows' = [rows EXCEPT ![i][field] = value]

\* Allocations a preparation still holds, and the one for a capability.
Held(a) == {i \in Rows : rows[i].of = a /\ rows[i].status = "active"}
HeldFor(a, c) == {i \in Held(a) : rows[i].capability = c}

\* Another preparation holds the resource (index active_resource_allocation).
Taken(c) == \E i \in Rows : rows[i].capability = c /\ rows[i].status = "active"

Position(c) == CHOOSE k \in DOMAIN Capabilities : Capabilities[k] = c
\* preparation()["allocations"] is ordered by capability; cleanup goes backwards.
IsLastOf(i, held) ==
  /\ i \in held
  /\ \A j \in held : Position(rows[j].capability) <= Position(rows[i].capability)

\* At most one open request per key; its detail is that of the first.
OpenAttention(request) ==
  requests' = IF \E r \in requests : /\ r.of = request.of /\ r.about = request.about
                                     /\ r.category = request.category
              THEN requests ELSE requests \cup {request}

-----------------------------------------------------------------------------
(* Resource providers (portless.py), by what they do to a service process. *)

\* _activation_from_allocation returns what the engine remembers; otherwise the
\* provider needs the recorded identity of a process that still runs.
Reconciles(i) == i \in known \/ (rows[i].ready /\ i \in live)

Unreconciled(i) ==
  LET c == rows[i].capability IN
  IF ~rows[i].ready
  THEN {Request(created, "unsafe-cleanup", c, {"retry", "retain", "quarantine", "cancel"})}
  ELSE {Request(created, "unhealthy", c, {"retry", "release", "cancel"}),
        Request(created, "unsafe-cleanup", c, {"retain", "quarantine", "release", "cancel"})}

ProviderCleans(i) == live' = live \ {i}
\* It refuses a process it does not own, or stopped it and a route remains.
ProviderRefuses(i) == live' \in {live, live \ {i}}

-----------------------------------------------------------------------------
(* prepare: up to the worktree.                                            *)

Called == budget' = [budget EXCEPT !.calls = @ + 1]
MayCall(a) == Ready(a) /\ budget.calls < MaxCalls

BeginPreparation(a) ==
  /\ MayCall(a) /\ preparation[a] = "none"
  /\ SetPreparation("preparing") /\ Called /\ Go("workspace")
  /\ UNCHANGED <<workflow, journal, upkeep, requests, late, known, outside>>

\* A busy preparation waits out its delay; after the deadline it asks.
ResumePreparation(a) ==
  /\ MayCall(a)
  /\ preparation[a] \in {"failed", "preparing"} \/ (preparation[a] = "busy" /\ ~late)
  /\ SetPreparation("preparing") /\ Called /\ Go("workspace")
  /\ UNCHANGED <<workflow, journal, upkeep, requests, late, known, outside>>

Exhausted == Request(created, "exhausted", "workspace", {"retry", "cancel"})

AskExhausted(a) ==
  /\ Ready(a) /\ preparation[a] = "busy" /\ late
  /\ Ask(Exhausted)
  /\ UNCHANGED <<workflow, preparation, journal, upkeep, requests, late, known, outside,
                 budget>>

WorkspaceLost == Request(created, "unsafe-cleanup", "workspace",
                         {"retain", "quarantine", "cancel"})

\* A ready preparation is turned into a launch again: its worktree and all its
\* activations have to be found.
Rehydrate(a) ==
  /\ MayCall(a) /\ preparation[a] = "ready" /\ Called
  /\ \/ /\ tree \in {"clean", "dirty"} /\ \A i \in Held(a) : Reconciles(i)
        /\ known' = known \cup Held(a) /\ UNCHANGED engine
     \/ tree \notin {"clean", "dirty"} /\ Ask(WorkspaceLost) /\ UNCHANGED known
     \/ /\ tree \in {"clean", "dirty"}
        /\ \E i \in Held(a) : /\ ~Reconciles(i)
                              /\ \E r \in Unreconciled(i) : Ask(r)
        /\ UNCHANGED known
  /\ UNCHANGED <<workflow, preparation, journal, upkeep, requests, late, outside>>

SetCreate(status) ==
  creates' = [creates EXCEPT ![created] =
                [@ EXCEPT ![Len(creates[created])] = status]]

PlanCreate ==
  /\ At("workspace") /\ workspace.status = "none"
  /\ creates' = [creates EXCEPT ![created] = Append(@, "planned")]
  /\ Go("start-create")
  /\ UNCHANGED <<workflow, preparation, readied, rows, upkeep, requests, late, known,
                 outside, budget>>

StartCreate ==
  /\ At("start-create") /\ SetCreate("started") /\ Go("materialize")
  /\ UNCHANGED <<workflow, preparation, readied, rows, upkeep, requests, late, known,
                 outside, budget>>

\* git worktree add; a path that exists is a conflict, and git may fail before
\* or after it made the worktree.
Materialize ==
  /\ At("materialize")
  /\ \/ tree = "absent" /\ tree' = "clean" /\ Go("register")
     \/ /\ tree # "absent" /\ UNCHANGED tree
        /\ engine' = [engine EXCEPT !.at = "fail-create", !.why = "ask",
                        !.ask = Request(created, "conflict", "workspace", Remedies \ {"release"})]
     \/ /\ tree = "absent" /\ tree' \in {"absent", "clean"}
        /\ engine' = [engine EXCEPT !.at = "fail-create", !.why = "failed"]
  /\ UNCHANGED <<workflow, preparation, journal, upkeep, requests, late, known, live, budget>>

RegisterWorkspace ==
  /\ At("register")
  /\ workspace' = [workspace EXCEPT !.status = "active"] /\ Go("finish-create")
  /\ UNCHANGED <<workflow, preparation, journal, plan, requests, late, known, outside, budget>>

FinishCreate ==
  /\ \/ /\ At("finish-create") /\ SetCreate("completed")
        /\ engine' = [engine EXCEPT !.at = "capability", !.k = 1]
     \/ At("fail-create") /\ SetCreate("failed") /\ Go("compensate")
  /\ UNCHANGED <<workflow, preparation, readied, rows, upkeep, requests, late, known,
                 outside, budget>>

\* The recorded worktree must be where it was.  A status other than "active"
\* does not keep it from being used.
ReconcileWorkspace ==
  /\ At("workspace") /\ workspace.status # "none"
  /\ IF tree \in {"clean", "dirty"}
     THEN engine' = [engine EXCEPT !.at = "capability", !.k = 1]
     ELSE Undo("ask", WorkspaceLost)
  /\ UNCHANGED <<workflow, preparation, journal, upkeep, requests, late, known, outside,
                 budget>>

-----------------------------------------------------------------------------
(* prepare: one capability after the other.                                *)

Wanted == Capabilities[engine.k]
AtCapability == At("capability") /\ engine.k <= Len(Capabilities)
NextCapability(done) ==
  engine' = [engine EXCEPT !.at = "capability", !.k = @ + 1, !.done = done]

\* Mutant: an activation that was started counts as unused.
ReleaseUnstarted(i) ==
  /\ AtCapability /\ i \in HeldFor(created, Wanted)
  /\ rows[i].activate \in {"none", "planned", "failed", "started"}
  /\ SetRow(i, "status", "released")
  /\ UNCHANGED <<workflow, preparation, readied, creates, upkeep, requests, late, engine,
                 known, outside, budget>>

\* An allocation this preparation already holds was not activated, or was.
ReleaseUnused(i) ==
  /\ AtCapability /\ i \in HeldFor(created, Wanted)
  /\ rows[i].activate \in {"none", "planned", "failed"}
  /\ SetRow(i, "status", "released")
  /\ UNCHANGED <<workflow, preparation, readied, creates, upkeep, requests, late, engine,
                 known, outside, budget>>

Reattach(i) ==
  /\ AtCapability /\ i \in HeldFor(created, Wanted)
  /\ rows[i].activate \in {"started", "completed"}
  /\ \/ /\ Reconciles(i)
        /\ known' = known \cup {i}
        /\ SetRow(i, "activate", "completed")
        /\ NextCapability(Append(engine.done, i))
     \/ /\ ~Reconciles(i) /\ \E r \in Unreconciled(i) : Undo("ask", r)
        /\ UNCHANGED <<known, rows>>
  /\ UNCHANGED <<workflow, preparation, readied, creates, upkeep, requests, late, outside,
                 budget>>

AcquireAllocation ==
  /\ AtCapability /\ HeldFor(created, Wanted) = {}
  /\ IF Taken(Wanted)
     THEN Undo("busy", NoRequest) /\ UNCHANGED rows
     ELSE /\ rows' = Append(rows,
                [of |-> created, capability |-> Wanted, status |-> "active",
                 ready |-> FALSE, activate |-> "none", undo |-> "none"])
          /\ Go("plan-activation")
  /\ UNCHANGED <<workflow, preparation, readied, creates, upkeep, requests, late, known,
                 outside, budget>>

\* Mutant: the number of the row to come.
NextRow == Len(rows) + 1
Newest == Len(rows)

\* The intent is recorded before the external effect.
PlanActivation ==
  /\ \/ At("plan-activation") /\ SetRow(Newest, "activate", "planned") /\ Go("start-activation")
     \/ At("start-activation") /\ SetRow(Newest, "activate", "started") /\ Go("activate")
  /\ UNCHANGED <<workflow, preparation, readied, creates, upkeep, requests, late, known,
                 outside, budget>>

\* A provider that fails has stopped the process it started.
Activate ==
  /\ At("activate")
  /\ \/ /\ live' = live \cup {Newest} /\ known' = known \cup {Newest}
        /\ engine' = [engine EXCEPT !.at = "record-ready", !.done = Append(@, Newest)]
     \/ /\ UNCHANGED <<live, known>>
        /\ engine' \in
             {[engine EXCEPT !.at = "fail-activation", !.why = "failed"],
              [engine EXCEPT !.at = "fail-activation", !.why = "ask",
                 !.ask = Request(created, "unhealthy", Wanted, {"retry", "cancel"})]}
  /\ UNCHANGED <<workflow, preparation, journal, upkeep, requests, late, tree, budget>>

FinishActivation ==
  /\ \/ At("record-ready") /\ SetRow(Newest, "ready", TRUE) /\ Go("finish-activation")
     \/ /\ At("finish-activation") /\ SetRow(Newest, "activate", "completed")
        /\ NextCapability(engine.done)
     \/ At("fail-activation") /\ SetRow(Newest, "activate", "failed") /\ Go("drop-allocation")
     \/ At("drop-allocation") /\ SetRow(Newest, "status", "released") /\ Go("compensate")
  /\ UNCHANGED <<workflow, preparation, readied, creates, upkeep, requests, late, known,
                 outside, budget>>

\* Mutant: compensations are not looked at.
IncompleteForward(a) ==
  \/ \E n \in DOMAIN creates[a] : creates[a][n] \in {"planned", "started"}
  \/ \E i \in Rows : rows[i].of = a /\ rows[i].activate \in {"planned", "started"}

\* A mutation that is neither done nor given up.
Incomplete(a) ==
  \/ \E n \in DOMAIN creates[a] : creates[a][n] \in {"planned", "started"}
  \/ \E i \in Rows : /\ rows[i].of = a
                     /\ \/ rows[i].activate \in {"planned", "started"}
                        \/ rows[i].undo \in {"planned", "started", "quarantined"}

\* The second ready event of a preparation would violate its unique key.
MarkPreparationReady ==
  /\ At("capability") /\ engine.k > Len(Capabilities)
  /\ IF Incomplete(created) \/ readied[created]
     THEN Undo("failed", NoRequest) /\ UNCHANGED <<preparation, readied>>
     ELSE /\ SetPreparation("ready")
          /\ readied' = [readied EXCEPT ![created] = TRUE]
          /\ Return
  /\ UNCHANGED <<workflow, creates, rows, upkeep, requests, late, known, outside, budget>>

-----------------------------------------------------------------------------
(* _compensate, and what follows it.                                       *)

Undoing == Last(engine.done)

\* A compensation planned before is found under its step key and kept.
PlanUndo ==
  /\ \/ /\ At("compensate") /\ engine.done # <<>>
        /\ SetRow(Undoing, "undo", IF rows[Undoing].undo = "none" THEN "planned"
                                   ELSE rows[Undoing].undo)
        /\ Go("start-undo")
     \/ /\ At("start-undo")
        /\ SetRow(Undoing, "undo", IF rows[Undoing].undo = "planned" THEN "started"
                                   ELSE rows[Undoing].undo)
        /\ Go("undo")
  /\ UNCHANGED <<workflow, preparation, readied, creates, upkeep, requests, late, known,
                 outside, budget>>

UndoActivation ==
  /\ At("undo")
  /\ \/ ProviderCleans(Undoing) /\ Go("finish-undo")
     \/ ProviderRefuses(Undoing) /\ Go("quarantine-undo")
  /\ UNCHANGED <<workflow, preparation, journal, upkeep, requests, late, known, tree, budget>>

Finished(undo, status) == IF undo \in {"completed", "quarantined"} THEN undo ELSE status

\* A refused cleanup leaves prepare with an exception of its own: what is left
\* to undo stays, and the preparation keeps its status.
FinishUndo ==
  /\ \/ /\ At("finish-undo")
        /\ SetRow(Undoing, "undo", Finished(rows[Undoing].undo, "completed"))
        /\ Go("release-undone")
     \/ /\ At("release-undone") /\ SetRow(Undoing, "status", "released")
        /\ engine' = [engine EXCEPT !.at = "compensate", !.done = Front(@)]
     \/ /\ At("quarantine-undo")
        /\ SetRow(Undoing, "undo", Finished(rows[Undoing].undo, "quarantined"))
        /\ Return
  /\ UNCHANGED <<workflow, preparation, readied, creates, upkeep, requests, late, known,
                 outside, budget>>

Compensated == At("compensate") /\ engine.done = <<>>

RecordBusy ==
  /\ Compensated /\ engine.why = "busy"
  /\ \/ ~late /\ SetPreparation("busy") /\ Return
     \/ Ask(Exhausted) /\ UNCHANGED preparation
  /\ UNCHANGED <<workflow, journal, upkeep, requests, late, known, outside, budget>>

FailPreparation ==
  /\ Compensated /\ engine.why = "failed"
  /\ SetPreparation("failed") /\ Return
  /\ UNCHANGED <<workflow, journal, upkeep, requests, late, known, outside, budget>>

\* PreparationEngine._attention: open the request, then hold the preparation.
OpenRequest ==
  /\ (Compensated /\ engine.why = "ask") \/ At("ask")
  /\ OpenAttention(engine.ask) /\ Go("hold")
  /\ UNCHANGED <<workflow, preparation, journal, upkeep, late, known, outside, budget>>

HoldPreparation ==
  /\ At("hold") /\ SetPreparation("needs_attention") /\ Return
  /\ UNCHANGED <<workflow, journal, upkeep, requests, late, known, outside, budget>>

\* Scheduler._attention holds back a preparation it gives up on.
SchedulerHolds(a) ==
  /\ Ready(a) /\ preparation[a] \in {"failed", "busy", "preparing"}
  /\ SetPreparation("needs_attention")
  /\ UNCHANGED <<workflow, journal, upkeep, requests, late, engine, known, outside, budget>>

-----------------------------------------------------------------------------
(* cleanup_attempt.                                                        *)

Disposable(a) == {i \in Held(a) : ScopeOf[rows[i].capability] = "attempt"}

CleanupAttempt(a) ==
  /\ Ready(a) /\ preparation[a] = "ready" /\ Disposable(a) # {}
  /\ Go("cleanup")
  /\ UNCHANGED <<workflow, preparation, journal, upkeep, requests, late, known, outside,
                 budget>>

\* Reconciling happens outside the handler, so its failure leaves the call.
CleanAllocation(i) ==
  /\ At("cleanup") /\ IsLastOf(i, Disposable(created))
  /\ \/ ~Reconciles(i) /\ Return /\ UNCHANGED <<known, live>>
     \/ /\ Reconciles(i) /\ known' = known \cup {i}
        /\ \/ ProviderCleans(i) /\ Go("release-cleaned")
           \/ /\ ProviderRefuses(i)
              /\ Ask(Request(created, "unsafe-cleanup", rows[i].capability,
                             {"retry", "retain", "quarantine"}))
  /\ UNCHANGED <<workflow, preparation, journal, upkeep, requests, late, tree, budget>>

ReleaseCleaned(i) ==
  /\ At("release-cleaned") /\ IsLastOf(i, Disposable(created))
  /\ SetRow(i, "status", "released")
  /\ IF Disposable(created) = {i} THEN Return ELSE Go("cleanup")
  /\ UNCHANGED <<workflow, preparation, readied, creates, upkeep, requests, late, known,
                 outside, budget>>

-----------------------------------------------------------------------------
(* cleanup_workspace, by the runtime's loop or by the remedy "release".    *)

Explicit == engine.remedy = "release"
Outstanding == {i \in Rows : rows[i].status = "active"}
ExecutionRequest(category, about, allowed) == Request(0, category, about, allowed)

\* What set_workspace_status writes: an event keyed by the cleanup plan, or by
\* "initial".  A key used before makes the transaction, and the call, fail.
QuarantineInitial(next) ==
  IF workspace.status = "quarantined" THEN Go(next) /\ UNCHANGED upkeep
  ELSE IF plan.initial THEN Return /\ UNCHANGED upkeep
  ELSE /\ workspace' = [workspace EXCEPT !.status = "quarantined"]
       /\ plan' = [plan EXCEPT !.initial = TRUE]
       /\ Go(next)

SetWorkspace(status, next) ==
  IF workspace.status = status THEN Go(next) /\ UNCHANGED upkeep
  ELSE IF status \in plan.keyed THEN Return /\ UNCHANGED upkeep
  ELSE /\ workspace' = [workspace EXCEPT !.status = status]
       /\ plan' = [plan EXCEPT !.keyed = @ \cup {status}]
       /\ Go(next)

\* Mutant: what the operator retained is cleaned all the same.
CleanupDueAnyPolicy == terminal /\ workspace.status \notin {"none", "cleaned"}

\* Mutant: a cleanup that did not finish is not taken up again.
CleanupDueOnce == terminal /\ workspace.status = "active" /\ workspace.policy = "none"

CleanupDue ==
  terminal /\ workspace.status \notin {"none", "cleaned"} /\ workspace.policy = "none"

CleanTerminalWorkspace ==
  /\ At("idle") /\ CleanupDue /\ Go("workspace-cleanup")
  /\ UNCHANGED <<workflow, preparation, journal, upkeep, requests, late, known, outside,
                 budget>>

\* A process that may have survived, or a resource that was not given back,
\* keeps the worktree.
KeepWorkspace ==
  /\ At("workspace-cleanup")
  /\ \/ uncertain /\ ~Explicit /\ QuarantineInitial("ask-uncertain")
     \/ (uncertain => Explicit) /\ Outstanding # {} /\ QuarantineInitial("ask-outstanding")
  /\ UNCHANGED <<workflow, preparation, journal, requests, late, known, outside, budget>>

AskToRelease ==
  /\ \/ At("ask-uncertain") /\ OpenAttention(ExecutionRequest("uncertain-runner-exit",
          "uncertain", {"retain", "quarantine", "release"}))
     \/ At("ask-outstanding") /\ OpenAttention(ExecutionRequest("unsafe-cleanup",
          "outstanding", {"retain", "quarantine"}))
     \/ At("ask-unsafe") /\ OpenAttention(ExecutionRequest("unsafe-cleanup",
          "cleanup", {"retry", "retain", "quarantine"}))
  /\ Return
  /\ UNCHANGED <<workflow, preparation, journal, upkeep, late, known, outside, budget>>

\* An unfinished plan is taken up again under its own identity.
PlanCleanup ==
  /\ At("workspace-cleanup") /\ Outstanding = {} /\ (uncertain => Explicit)
  /\ plan' = IF plan.open THEN plan ELSE [plan EXCEPT !.open = TRUE, !.keyed = {}]
  /\ Go("pending")
  /\ UNCHANGED <<workflow, preparation, journal, workspace, requests, late, known, outside,
                 budget>>

StepCleanup ==
  /\ \/ At("pending") /\ SetWorkspace("cleanup_pending", "remove")
     \/ At("removed") /\ SetWorkspace("cleaned", "finish-plan")
     \/ At("refused") /\ SetWorkspace("quarantined", "finish-refused")
  /\ UNCHANGED <<workflow, preparation, journal, requests, late, known, outside, budget>>

\* git worktree remove: never of a dirty tree, and not of one that is not where
\* the ledger says.
RemoveWorktree ==
  /\ At("remove")
  /\ \/ tree = "clean" /\ tree' = "absent" /\ Go("removed")
     \/ tree # "clean" /\ UNCHANGED tree /\ Go("refused")
  /\ UNCHANGED <<workflow, preparation, journal, upkeep, requests, late, known, live, budget>>

\* Any other failure of git leaves the call.
RemovalFails ==
  /\ At("remove") /\ tree = "clean" /\ Return
  /\ UNCHANGED <<workflow, preparation, journal, upkeep, requests, late, known, outside,
                 budget>>

FinishPlan ==
  /\ \/ At("finish-plan") /\ IF Explicit THEN Go("resolve") ELSE Return
     \/ At("finish-refused") /\ Go("ask-unsafe")
  /\ plan' = [plan EXCEPT !.open = FALSE]
  /\ UNCHANGED <<workflow, preparation, journal, workspace, requests, late, known, outside,
                 budget>>

-----------------------------------------------------------------------------
(* remedy_attention.                                                       *)

FirstStep(r, remedy) ==
  CASE remedy = "retry" -> IF r.of = 0 THEN "resolve" ELSE "authorize"
    [] remedy \in {"retain", "quarantine"} -> "policy"
    [] remedy = "release" /\ r.of = 0 ->
         IF workspace.status = "cleaned" THEN "resolve" ELSE "workspace-cleanup"
    [] OTHER -> "targets"

\* Without a workspace there is nothing to release resources of: refused at once.
Remedy(r, remedy) ==
  /\ At("idle") /\ budget.remedies < MaxRemedies
  /\ r \in requests /\ remedy \in r.allowed
  /\ r.of = 0 \/ (active /\ r.of = created)
  /\ FirstStep(r, remedy) = "targets" => workspace.status # "none"
  /\ engine' = [Idle EXCEPT !.at = FirstStep(r, remedy), !.ask = r, !.remedy = remedy]
  /\ budget' = [budget EXCEPT !.remedies = @ + 1]
  /\ UNCHANGED <<workflow, preparation, journal, upkeep, requests, late, known, outside>>

\* authorize_preparation_retry and cancel_preparation need a held preparation.
AnswerPreparation ==
  /\ \/ /\ At("authorize")
        /\ IF preparation[Current] = "needs_attention"
           THEN SetPreparation("failed") /\ Go("resolve")
           ELSE Return /\ UNCHANGED preparation
     \/ /\ At("cancel")
        /\ IF preparation[Current] \in {"needs_attention", "canceled"}
           THEN SetPreparation("canceled") /\ Go("resolve")
           ELSE Return /\ UNCHANGED preparation
  /\ UNCHANGED <<workflow, journal, upkeep, requests, late, known, outside, budget>>

\* What a remedy is about: everything the preparation holds, or one capability.
Targets ==
  {i \in Held(Current) : \/ engine.remedy = "cancel"
                         \/ engine.ask.about \in {"workspace", rows[i].capability}}

CleanTarget ==
  /\ At("targets")
  /\ IF Targets = {} THEN Go("cancel") /\ UNCHANGED <<known, live>>
     ELSE \E i \in Targets :
       /\ IsLastOf(i, Targets)
       /\ \/ ~Reconciles(i) /\ Return /\ UNCHANGED <<known, live>>
          \/ /\ Reconciles(i) /\ known' = known \cup {i}
             /\ \/ ProviderCleans(i) /\ Go("release-target")
                \/ ProviderRefuses(i) /\ Return
  /\ UNCHANGED <<workflow, preparation, journal, upkeep, requests, late, tree, budget>>

ReleaseTarget ==
  /\ At("release-target")
  /\ \E i \in Targets : IsLastOf(i, Targets) /\ SetRow(i, "status", "released")
  /\ Go("targets")
  /\ UNCHANGED <<workflow, preparation, readied, creates, upkeep, requests, late, known,
                 outside, budget>>

SetCleanupPolicy ==
  /\ At("policy")
  /\ workspace' = IF workspace.status = "none" THEN workspace
                  ELSE [workspace EXCEPT !.policy = engine.remedy]
  /\ Go(IF engine.remedy = "quarantine" /\ engine.ask.of # 0 THEN "quarantine" ELSE "hold-tree")
  /\ UNCHANGED <<workflow, preparation, journal, plan, requests, late, known, outside, budget>>

QuarantineTarget ==
  /\ At("quarantine")
  /\ IF Targets = {} THEN Go("hold-tree") /\ UNCHANGED rows
     ELSE \E i \in Targets : SetRow(i, "status", "quarantined") /\ UNCHANGED engine
  /\ UNCHANGED <<workflow, preparation, readied, creates, upkeep, requests, late, known,
                 outside, budget>>

AfterHold == IF engine.ask.of = 0 THEN "resolve" ELSE "cancel"

HoldTree ==
  /\ At("hold-tree")
  /\ IF workspace.status = "none" \/ (engine.ask.of # 0 /\ engine.ask.about # "workspace")
     THEN Go(AfterHold) /\ UNCHANGED upkeep
     ELSE QuarantineInitial(AfterHold)
  /\ UNCHANGED <<workflow, preparation, journal, requests, late, known, outside, budget>>

ResolveRequest ==
  /\ At("resolve")
  /\ requests' = requests \ {engine.ask}
  /\ IF engine.remedy \in {"retain", "quarantine"} /\ engine.ask.of = 0
     THEN Go("ask-held") ELSE Return
  /\ UNCHANGED <<workflow, preparation, journal, upkeep, late, known, outside, budget>>

OfferRelease ==
  /\ At("ask-held")
  /\ requests' = requests \cup {ExecutionRequest("retained-workspace", "held", {"release"})}
  /\ Return
  /\ UNCHANGED <<workflow, preparation, journal, upkeep, late, known, outside, budget>>

-----------------------------------------------------------------------------
(* The surroundings.                                                       *)

\* The kernel opens the next work attempt.
StartAttempt ==
  /\ At("idle") /\ ~active /\ ~terminal /\ created < MaxAttempts
  /\ created' = created + 1 /\ active' = TRUE /\ late' = FALSE
  /\ UNCHANGED <<terminal, uncertain, preparation, journal, upkeep, requests, engine, known,
                 outside, budget>>

\* It ends with its result, by the operator's transition or by cancel at a
\* terminal state, which closes the attempt's own requests.
EndAttempt ==
  /\ At("idle") /\ active /\ active' = FALSE
  /\ \/ terminal' \in BOOLEAN /\ UNCHANGED <<uncertain, requests>>
     \/ /\ terminal' = TRUE
        /\ uncertain' \in {FALSE, preparation[created] = "ready"}
        /\ requests' = {r \in requests : r.of # created}
  /\ UNCHANGED <<created, preparation, journal, upkeep, late, engine, known, outside, budget>>

EndExecution ==
  /\ At("idle") /\ ~active /\ ~terminal /\ terminal' = TRUE
  /\ UNCHANGED <<created, active, uncertain, preparation, journal, upkeep, requests, late,
                 engine, known, outside, budget>>

Crash ==
  /\ budget.crashes < MaxCrashes
  /\ engine' = Idle /\ known' = {}
  /\ budget' = [budget EXCEPT !.crashes = @ + 1]
  /\ UNCHANGED <<workflow, preparation, journal, upkeep, requests, late, outside>>

DeadlinePasses ==
  /\ active /\ ~late /\ late' = TRUE
  /\ UNCHANGED <<workflow, preparation, journal, upkeep, requests, engine, known, outside,
                 budget>>

ServiceDies(i) ==
  /\ i \in live /\ live' = live \ {i}
  /\ UNCHANGED <<workflow, preparation, journal, upkeep, requests, late, engine, known, tree,
                 budget>>

\* An agent works in the worktree of a ready preparation.
AgentWorks ==
  /\ active /\ preparation[created] = "ready" /\ tree \in {"clean", "dirty"}
  /\ tree' \in {"clean", "dirty", "changed"}
  /\ UNCHANGED <<workflow, preparation, journal, upkeep, requests, late, engine, known, live,
                 budget>>

-----------------------------------------------------------------------------

PrepareStep ==
  \/ PlanCreate \/ StartCreate \/ Materialize \/ RegisterWorkspace \/ FinishCreate
  \/ ReconcileWorkspace \/ AcquireAllocation \/ PlanActivation \/ Activate
  \/ FinishActivation \/ MarkPreparationReady \/ PlanUndo \/ UndoActivation \/ FinishUndo
  \/ RecordBusy \/ FailPreparation \/ OpenRequest \/ HoldPreparation
  \/ \E i \in Rows : ReleaseUnused(i) \/ Reattach(i)

Call(a) ==
  \/ BeginPreparation(a) \/ ResumePreparation(a) \/ AskExhausted(a) \/ Rehydrate(a)
  \/ SchedulerHolds(a) \/ CleanupAttempt(a)

CleanupStep ==
  \/ KeepWorkspace \/ AskToRelease \/ PlanCleanup \/ StepCleanup \/ RemoveWorktree
  \/ RemovalFails \/ FinishPlan
  \/ \E i \in Rows : CleanAllocation(i) \/ ReleaseCleaned(i)

RemedyStep ==
  \/ AnswerPreparation \/ CleanTarget \/ ReleaseTarget \/ SetCleanupPolicy
  \/ QuarantineTarget \/ HoldTree \/ ResolveRequest \/ OfferRelease

EngineStep == PrepareStep \/ CleanupStep \/ RemedyStep \/ CleanTerminalWorkspace

Environment ==
  \/ StartAttempt \/ EndAttempt \/ EndExecution \/ Crash \/ DeadlinePasses \/ AgentWorks
  \/ \E i \in Rows : ServiceDies(i)
  \/ \E r \in requests, remedy \in Remedies : Remedy(r, remedy)

Next == EngineStep \/ (\E a \in Attempts : Call(a)) \/ Environment

Spec == Init /\ [][Next]_vars

\* The thread does what it began, and the runtime's loop comes back to a
\* terminal execution.  git does not fail for ever.
Fairness ==
  /\ WF_vars(EngineStep)
  /\ SF_vars(RemoveWorktree)

FairSpec == Spec /\ Fairness

-----------------------------------------------------------------------------
(* Properties.                                                             *)

\* No service runs that nobody answers for: the row of a running process is
\* active or quarantined, and its journal shows the start.  So an intent is
\* durable before its effect, and nothing is released on a guess.
LiveIsAccounted ==
  \A i \in live : /\ rows[i].status \in {"active", "quarantined"}
                  /\ rows[i].activate \notin {"none", "planned", "failed"}

\* All or nothing: when a preparation becomes ready, every capability has a row
\* of this attempt that was activated and not undone, whatever earlier calls,
\* crashes and half-done compensations left in the journal.
ReadyIsWhole ==
  [][\A a \in Attempts : preparation'[a] = "ready" /\ preparation[a] # "ready" =>
       \A k \in DOMAIN Capabilities : \E i \in HeldFor(a, Capabilities[k]) :
         /\ rows[i].ready /\ rows[i].activate = "completed" /\ rows[i].undo = "none"
         /\ i \in known]_vars

\* A worktree is only removed at a terminal state, without uncommitted work, when
\* nothing is left that was allocated to its execution, and, while a process may
\* still run in it or the operator holds it, only on their explicit release.
RemovalIsSafe ==
  [][tree' = "absent" /\ tree # "absent" =>
       /\ terminal /\ tree = "clean" /\ Outstanding = {}
       /\ (uncertain \/ workspace.policy # "none") => Explicit]_vars

\* A terminal execution's worktree is removed in the end, or held, or somebody
\* is asked about it.  A cleanup cut off between its last two writes is the
\* exception (QuarantineIsSurfaced).
Settled ==
  \/ workspace.status \in {"none", "cleaned"}
  \/ workspace.policy # "none"
  \/ \E r \in requests : r.of = 0
Jammed == plan.open /\ "quarantined" \in plan.keyed
WorkspaceIsSettled == terminal ~> (Settled \/ Jammed)

-----------------------------------------------------------------------------
(* What the documents say and the code does not do.                        *)

\* docs/SETUP.md, operator: a retained workspace exposes a release remedy.
RetainedIsReleasable ==
  terminal /\ At("idle") /\ workspace.policy = "retain" /\ workspace.status # "cleaned" =>
    \E r \in requests : "release" \in r.allowed

\* ADR 0012: dirty or unknown state is quarantined and surfaced through a
\* durable attention request.
QuarantineIsSurfaced == terminal ~> Settled
=============================================================================
