---------------------------- MODULE FactoryLedger ----------------------------
(***************************************************************************)
(* The durable half of dotfactory: the rows of the SQLite ledger that      *)
(* dispatch, resource preparation, runner and operator read and write      *)
(* (factory/src/dotfactory/ledger.py).  Every operator that primes a       *)
(* variable is one ledger transaction: it commits as a whole or not at     *)
(* all, and the process may die between any two of them.                   *)
(*                                                                         *)
(* An attempt has at most one dispatch row, one preparation row and one    *)
(* runner row, so all three are functions of the attempt.  An attempt's    *)
(* fence token is created with it and never changes, hence "the fence      *)
(* matches" is "the same attempt".  The claim token of a dispatch row is   *)
(* abstracted to the set of pollers that still know its current value.     *)
(***************************************************************************)
EXTENDS Integers, FiniteSets

CONSTANTS
  Executions,   \* workflow executions
  MaxAttempts,  \* bound on the attempts created; attempt n is the n-th one
  Pollers,      \* scheduler owners polling this ledger
  HostLimit,    \* scheduler.limits.host
  ProjectOf,    \* the project key of each execution
  ProjectLimit, \* scheduler.limits.projects, by project key
  None          \* no execution, no poller

ASSUME ExecutionsAssumption == None \notin Executions
ASSUME MaxAttemptsAssumption == MaxAttempts \in Nat
ASSUME PollersAssumption == None \notin Pollers
ASSUME LimitsAssumption ==
  /\ HostLimit \in Nat \ {0}
  /\ \A e \in Executions : ProjectLimit[ProjectOf[e]] \in Nat \ {0}

Attempts == 1 .. MaxAttempts

DispatchStatus == {"none", "claimed", "preparing", "prepared", "dispatching",
                   "result_ready", "waiting", "attention", "completed",
                   "superseded"}

\* The statuses from which a row may still be sent to attention or superseded.
Unfinished == {"claimed", "preparing", "prepared", "dispatching",
               "result_ready", "waiting"}

\* The durable safe points an operator may retry from.
SafePhases == {"claimed", "preparing", "prepared", "result_ready"}
Phases == SafePhases \cup {"dispatching"}

PreparationStatus == {"none", "preparing", "busy", "ready", "failed",
                      "skill_failed", "needs_attention", "canceled"}

RunStatus == {"none", "running", "waiting_input", "resume_authorized",
              "result_ready", "failed", "canceled"}

\* Attention requests by provider: the scheduler's own categories, one for the
\* preparation engine, one for the runner's questions.
SchedulerCategories ==
  {"scheduler-infrastructure", "scheduler-recovery", "ambiguous-dispatch",
   "ambiguous-preparation", "preparation-fatal", "result-recovery",
   "result-commit"}
Categories == SchedulerCategories \cup {"engine", "runner"}

VARIABLES
  attempt,      \* attempts: status, the execution it works for, who ended it
  execution,    \* workflow_executions: the kind of the current state
  dispatch,     \* scheduler_dispatches
  preparation,  \* preparations.status
  readied,      \* the event preparation:<id>:ready is in the event log
  attention,    \* attention_requests: an open request's last safe step
  run           \* runner_runs.status

ledgerVars ==
  <<attempt, execution, dispatch, preparation, readied, attention, run>>

NoDispatch ==
  [status |-> "none", owner |-> None, tokens |-> {}, timer |-> "none",
   link |-> "none", remedy |-> "none", phase |-> "none", result |-> FALSE]

AttemptRow ==
  [status : {"none", "active", "completed"}, of : Executions \cup {None},
   left : {"none", "result", "skill", "operator", "cancel"}]

DispatchRow ==
  [status : DispatchStatus, owner : Pollers \cup {None},
   tokens : SUBSET Pollers, timer : {"none", "running", "elapsed"},
   link : Categories \cup {"none"}, remedy : {"none", "retry", "other"},
   phase : Phases \cup {"none"}, result : BOOLEAN]

LedgerTypeOK ==
  /\ attempt \in [Attempts -> AttemptRow]
  /\ execution \in [Executions -> {"work", "human", "terminal"}]
  /\ dispatch \in [Attempts -> DispatchRow]
  /\ preparation \in [Attempts -> PreparationStatus]
  /\ readied \in [Attempts -> BOOLEAN]
  /\ attention \in [Attempts -> [Categories -> Phases \cup {"open", "closed"}]]
  /\ run \in [Attempts -> RunStatus]

LedgerInit ==
  /\ attempt = [a \in Attempts |->
                  [status |-> "none", of |-> None, left |-> "none"]]
  /\ execution = [e \in Executions |-> "human"]
  /\ dispatch = [a \in Attempts |-> NoDispatch]
  /\ preparation = [a \in Attempts |-> "none"]
  /\ readied = [a \in Attempts |-> FALSE]
  /\ attention = [a \in Attempts |-> [c \in Categories |-> "closed"]]
  /\ run = [a \in Attempts |-> "none"]

-----------------------------------------------------------------------------
(* Reads.                                                                  *)

Active(a) == attempt[a].status = "active"

Open(a, c) == attention[a][c] # "closed"

\* The next attempt to be created, if the bound leaves one.
Fresh(b) ==
  /\ attempt[b].status = "none"
  /\ \A c \in Attempts : c < b => attempt[c].status # "none"

\* Rows that count against the admission limits: a claim or a prepared row whose
\* lease ran out is skipped.
Occupying(a) ==
  \/ dispatch[a].status \in {"preparing", "dispatching", "result_ready"}
  \/ dispatch[a].status \in {"claimed", "prepared"} /\ dispatch[a].timer # "elapsed"

\* Mutant: a prepared row whose lease ran out is not taken again.
ClaimableUnlessPrepared(a) ==
  \/ dispatch[a].status \in {"none", "superseded"}
  \/ dispatch[a].status \in {"waiting", "claimed"} /\ dispatch[a].timer = "elapsed"

\* A row claim_dispatch may take (again).
Claimable(a) ==
  \/ dispatch[a].status \in {"none", "superseded"}
  \/ /\ dispatch[a].status \in {"waiting", "claimed", "prepared"}
     /\ dispatch[a].timer = "elapsed"

Candidate(a) ==
  /\ Active(a)
  /\ Claimable(a)
  /\ \A c \in Categories : ~Open(a, c)

\* The host limit and the limit of the candidate's project leave room for it.
\* (Runner limits have the same form and are left out.)
Admitted(a) ==
  LET project == ProjectOf[attempt[a].of]
      occupied == {b \in Attempts : Occupying(b)}
  IN  /\ Cardinality(occupied) < HostLimit
      /\ Cardinality({b \in occupied : ProjectOf[attempt[b].of] = project})
           < ProjectLimit[project]

Resumable(a) ==
  /\ dispatch[a].status = "attention"
  /\ dispatch[a].remedy = "retry"
  /\ dispatch[a].phase # "none"

Recoverable(o, a) ==
  /\ dispatch[a].status \in {"preparing", "dispatching", "result_ready"}
  /\ dispatch[a].owner = o

\* Mutant: only the attention recovery opens is looked for, not the row.
AmbiguousOnlyOnceAsked(e) ==
  \E a \in Attempts : attempt[a].of = e /\ Open(a, "ambiguous-dispatch")

\* Control commands other than cancel are refused while a launch may have
\* happened without a durable result.
AmbiguousDispatch(e) ==
  \E a \in Attempts : /\ attempt[a].of = e
                      /\ \/ dispatch[a].status = "dispatching"
                         \/ Open(a, "ambiguous-dispatch")

-----------------------------------------------------------------------------
(* Workflow transitions.                                                   *)

\* accept_transition: attempt rows become ended, the execution moves on, to a
\* new attempt when the target is a work state.
AcceptTransition(e, ended) ==
  \/ /\ \E kind \in {"human", "terminal"} :
          execution' = [execution EXCEPT ![e] = kind]
     /\ attempt' = ended
  \/ \E b \in Attempts :
       /\ Fresh(b)
       /\ execution' = [execution EXCEPT ![e] = "work"]
       /\ attempt' = [ended EXCEPT ![b] =
                        [status |-> "active", of |-> e, left |-> "none"]]

Ended(a, why) ==
  [attempt EXCEPT ![a] = [@ EXCEPT !.status = "completed", !.left = why]]

\* "link", "remedy" and "phase" mean something in attention only and are
\* forgotten when a row leaves it.
Superseded(row) ==
  [row EXCEPT !.status = "superseded", !.tokens = {}, !.timer = "none",
              !.link = "none", !.remedy = "none", !.phase = "none"]

\* Mutant: a dispatch that waits for an operator is overlooked.
TerminalizeUnlessAsked(a) ==
  /\ dispatch' = [dispatch EXCEPT ![a] =
                    IF @.status \in Unfinished THEN Superseded(@) ELSE @]
  /\ attention' = [attention EXCEPT ![a] = [c \in Categories |-> "closed"]]
  /\ run' = [run EXCEPT ![a] =
               IF @ \in {"running", "waiting_input", "resume_authorized"}
               THEN "canceled" ELSE @]

\* The extra work accept_transition does when an attempt is canceled at a
\* terminal state: every live record it owns is closed with it.
TerminalizeCanceledAttempt(a) ==
  /\ dispatch' = [dispatch EXCEPT ![a] =
                    IF @.status \in Unfinished \cup {"attention"}
                    THEN Superseded(@) ELSE @]
  /\ attention' = [attention EXCEPT ![a] = [c \in Categories |-> "closed"]]
  /\ run' = [run EXCEPT ![a] =
               IF @ \in {"running", "waiting_input", "resume_authorized"}
               THEN "canceled" ELSE @]

-----------------------------------------------------------------------------
(* Dispatch rows.                                                          *)

\* Mutant: a claim leaves the claim tokens given out before valid.
ClaimWithoutFencing(o, a) ==
  /\ Candidate(a) /\ Admitted(a)
  /\ \A b \in Attempts : Candidate(b) /\ Admitted(b) => a <= b
  /\ dispatch' = [dispatch EXCEPT ![a] =
       [@ EXCEPT !.status = "claimed", !.owner = o,
                 !.tokens = dispatch[a].tokens \cup {o}, !.timer = "running"]]

\* claim_dispatch takes the oldest candidate the limits admit.  It rewrites the
\* lease; a stored result stays.
ClaimDispatch(o, a) ==
  /\ Candidate(a) /\ Admitted(a)
  /\ \A b \in Attempts : Candidate(b) /\ Admitted(b) => a <= b
  /\ dispatch' = [dispatch EXCEPT ![a] =
       [@ EXCEPT !.status = "claimed", !.owner = o, !.tokens = {o},
                 !.timer = "running"]]

\* _require_dispatch: the caller's claim token is current, the row is where the
\* caller left it and the attempt is still the active one.  (A write that finds
\* the row at its target under the same token returns it unchanged; a scheduler
\* writes each phase once per token, so this does not arise.)
Holds(o, a, status) ==
  /\ o \in dispatch[a].tokens
  /\ dispatch[a].status = status
  /\ Active(a)

SetStatus(a, status, timer) ==
  dispatch' = [dispatch EXCEPT ![a] =
                 [@ EXCEPT !.status = status, !.timer = timer]]

MarkDispatchPreparing(a) == SetStatus(a, "preparing", "none")

\* The scheduler reads the row's current token first, so it now knows it.
MarkDispatchPrepared(o, a) ==
  dispatch' = [dispatch EXCEPT ![a] =
     [@ EXCEPT !.status = "prepared", !.timer = "running",
               !.tokens = dispatch[a].tokens \cup {o}]]

MarkDispatching(a) == SetStatus(a, "dispatching", "none")

\* Mutant: the status is written, the result is not.
RecordStatusOnly(a) == SetStatus(a, "result_ready", "none")

RecordDispatchResult(a) ==
  dispatch' = [dispatch EXCEPT ![a] =
     [@ EXCEPT !.status = "result_ready", !.result = TRUE]]

\* Mutant: the status of the preparation is written into the dispatch row.
DeferAsBusy(a) == SetStatus(a, "busy", "running")

DeferDispatch(a) ==
  dispatch' = [dispatch EXCEPT ![a] =
     [@ EXCEPT !.status = "waiting", !.timer = "running", !.tokens = {}]]

\* mark_dispatch_attention rotates the claim token; on a row already in
\* attention it returns without a write.
MarkDispatchAttention(a, category, phase) ==
  dispatch' = IF dispatch[a].status = "attention" THEN dispatch
              ELSE [dispatch EXCEPT ![a] =
                      [@ EXCEPT !.status = "attention", !.timer = "none",
                                !.tokens = {}, !.link = category,
                                !.remedy = "none", !.phase = phase]]

CompleteDispatch(a) ==
  dispatch' = [dispatch EXCEPT ![a] =
     [@ EXCEPT !.status = "completed", !.timer = "none", !.tokens = {}]]

SupersedeDispatch(a) == dispatch' = [dispatch EXCEPT ![a] = Superseded(@)]

\* resume_attention_dispatch gives the row a new owner and a token nobody keeps;
\* the lease of a claimed or prepared row is over at once.
ResumeAttentionDispatch(o, a) ==
  dispatch' = [dispatch EXCEPT ![a] =
     [@ EXCEPT !.status = dispatch[a].phase, !.owner = o, !.tokens = {},
               !.link = "none", !.remedy = "none", !.phase = "none",
               !.timer = IF dispatch[a].phase \in {"claimed", "prepared"}
                         THEN "elapsed" ELSE "none"]]

\* takeover_preparing_dispatch and takeover_result_dispatch.
TakeoverDispatch(o, a) ==
  dispatch' = [dispatch EXCEPT ![a] = [@ EXCEPT !.owner = o, !.tokens = {o}]]

-----------------------------------------------------------------------------
(* Preparations and attention requests.                                    *)

SetPreparation(a, status) ==
  preparation' = [preparation EXCEPT ![a] = status]

\* open_attention returns the open request with the same key unchanged, so its
\* last safe step is the one it was opened with.  It does not ask whether the
\* attempt is still active.
OpenAttention(a, category, step) ==
  attention' = [attention EXCEPT ![a] =
     [@ EXCEPT ![category] =
        IF Open(a, category) THEN attention[a][category] ELSE step]]

\* Mutant: the linked row does not learn how its request was resolved.
ResolveUnseen(a, category, remedy) ==
  /\ attention' = [attention EXCEPT ![a] = [@ EXCEPT ![category] = "closed"]]
  /\ UNCHANGED dispatch

\* resolve_attention, seen from the row that links the request.
ResolveAttention(a, category, remedy) ==
  /\ attention' = [attention EXCEPT ![a] = [@ EXCEPT ![category] = "closed"]]
  /\ dispatch' = [dispatch EXCEPT ![a] =
       IF @.status = "attention" /\ @.link = category
       THEN [@ EXCEPT !.remedy = remedy] ELSE @]
=============================================================================
