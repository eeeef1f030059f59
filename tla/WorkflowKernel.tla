---------------------------- MODULE WorkflowKernel ----------------------------
(***************************************************************************)
(* The workflow kernel (factory/src/dotfactory/kernel.py and the           *)
(* transactions of ledger.py it calls): how one execution moves along the  *)
(* edges of its workflow graph, on a result of the agent, a claim of the   *)
(* runtime, a status a human set in Linear or a command of the operator.   *)
(*                                                                         *)
(* The graph is a constant: an execution keeps the snapshot it began with. *)
(* A work state always has its active attempt, so "has an attempt" is "the *)
(* current state is work and the execution runs".  What Linear shows, and  *)
(* the mutations that make it show the right status, are in                *)
(* LinearConvergence; evidence, leases and dispatch are in FactoryLedger.  *)
(***************************************************************************)
EXTENDS Naturals, Sequences, FiniteSets

CONSTANTS
  States,         \* the nodes of the workflow graph
  Work,           \* nodes of kind work
  Pickup,         \* checkpoints of role pickup: the runtime claims them
  Terminal,       \* nodes that end the execution
  Edges,          \* records: from, to, on, cond, by, feedback
  AnyNonterminal, \* the source "@any_nonterminal" of a global edge
  NoState,        \* no resume state, no condition
  MaxRetries,     \* max_retries of the nodes that declare it
  SuccessLabels,  \* labels that may take the unlabelled edge
  Unlabelled,     \* the label of an edge without "on"
  Labels,         \* outcome labels an agent may report
  Statuses,       \* statuses a Linear issue may have
  StatusOf,       \* linear_status of every node
  NoRequest,      \* no pending human transition
  MaxRuns         \* bound on the state runs of the execution

\* What may evoke an edge: a human's status change in Linear or control command;
\* the listener's claim, an agent's hand-over or its request for recovery.
AgentSignals == {"claim", "handoff", "recovery"}
Signals == AgentSignals \cup {"status", "control"}

ASSUME GraphAssumption ==
  /\ Work \subseteq States /\ Pickup \subseteq States /\ Terminal \subseteq States
  /\ Work \cap (Pickup \cup Terminal) = {} /\ Pickup \cap Terminal = {}
  /\ AnyNonterminal \notin States /\ NoState \notin States
  /\ Unlabelled \notin Labels \cup {"retry", "exhausted"}
  /\ StatusOf \in [States -> Statuses]
  /\ DOMAIN MaxRetries \subseteq Work
  /\ \A s \in DOMAIN MaxRetries : MaxRetries[s] \in Nat
  /\ Edges \subseteq [from : States \cup {AnyNonterminal}, to : States,
                      on : Labels \cup {Unlabelled}, cond : States \cup {NoState},
                      by : SUBSET Signals, feedback : BOOLEAN]
  /\ \A e \in Edges : e.cond \in {NoState, e.to}
  /\ \A e \in Edges : e.feedback => e.by \cap AgentSignals = {}
ASSUME BoundAssumption == MaxRuns \in Nat \ {0}

VARIABLES
  execution, \* workflow_executions.status
  runs,      \* state_runs in order: state, resume_state_id and the edge taken
  observed,  \* workflow_executions.observed_linear_status
  request    \* the pending row of transition_requests, or NoRequest

kernelVars == <<execution, runs, observed, request>>

Run == [state : States, resume : States \cup {NoState},
        on : Labels \cup {Unlabelled}, signal : Signals \cup {"begin"}]

\* The request names its edge, the state it was made in and the status seen.
Requests == [edge : Edges, from : States, status : Statuses]

KernelTypeOK ==
  /\ execution \in {"running", "completed"}
  /\ runs \in Seq(Run) /\ runs # <<>>
  /\ observed \in Statuses
  /\ request \in Requests \cup {NoRequest}

-----------------------------------------------------------------------------
(* Reading the graph.                                                      *)

Running == execution = "running"
Entered == runs[Len(runs)]
current == Entered.state
Desired == StatusOf[current]
HasAttempt == Running /\ current \in Work

\* The bound on the state runs that agents, claims and commands may add.
Room == Len(runs) < MaxRuns

\* The origins of the conditional edges that leave s: where s can resume.
ResumeOrigins(s) == {e.cond : e \in {d \in Edges : d.from = s}} \ {NoState}

\* The runs that entered the current state from one of its origins.
Failures == {i \in 2 .. Len(runs) : /\ runs[i].state = current
                                    /\ runs[i - 1].state \in ResumeOrigins(current)}

\* A form that forgets what was recorded and goes by the oldest failure.
OldestResume ==
  IF Failures = {} THEN NoState
  ELSE runs[(CHOOSE i \in Failures : \A j \in Failures : i <= j) - 1].state

\* What the current run recorded; for a run without a record, the history.
RecordedResume ==
  IF Entered.resume # NoState THEN Entered.resume
  ELSE IF Failures = {} THEN NoState
  ELSE runs[(CHOOSE i \in Failures : \A j \in Failures : j <= i) - 1].state

CondHolds(e) == e.cond \in {NoState, RecordedResume}

\* The edges to a state that a signal may evoke now.
Matches(to, signal) ==
  {e \in Edges : /\ e.to = to /\ signal \in e.by /\ CondHolds(e)
                 /\ \/ e.from = current
                    \/ e.from = AnyNonterminal /\ current \notin Terminal}

NextResume(e) ==
  CASE e.to \in Terminal \/ e.cond # NoState -> NoState
    [] OTHER ->
         IF current \in ResumeOrigins(e.to) THEN current
         ELSE IF ResumeOrigins(e.to) \cup ResumeOrigins(current) = {} THEN NoState
         ELSE RecordedResume

\* complete_attempt: the edge an agent's outcome label selects.
Labelled(label) == {e \in Edges : e.from = current /\ e.on = label}

Visits == Cardinality({i \in DOMAIN runs : runs[i].state = current})

\* A form that counts the retries and not the visits.
ExhaustedOneLater ==
  current \in DOMAIN MaxRetries /\ Visits > MaxRetries[current] + 1

Exhausted == current \in DOMAIN MaxRetries /\ Visits > MaxRetries[current]

OutcomeEdges(label) ==
  LET taken == IF label = "retry" /\ Exhausted THEN "exhausted" ELSE label
      found == IF Labelled(taken) = {} /\ label \in SuccessLabels
               THEN Labelled(Unlabelled) ELSE Labelled(taken)
  IN  {e \in found : CondHolds(e) /\ e.by \cap AgentSignals # {}}

-----------------------------------------------------------------------------
(* Transactions of the ledger.                                             *)

\* A form that leaves the pending request in place.
AcceptAndKeepRequest(e, signal, status) ==
  /\ Running
  /\ runs' = Append(runs, [state |-> e.to, resume |-> NextResume(e),
                           on |-> e.on, signal |-> signal])
  /\ execution' = IF e.to \in Terminal THEN "completed" ELSE "running"
  /\ observed' = status
  /\ UNCHANGED request

\* accept_transition along e: status is what Linear was seen to show, the
\* status already observed when the transition comes from elsewhere.  Every
\* pending request is superseded or consumed.
AcceptTransition(e, signal, status) ==
  /\ Running
  /\ runs' = Append(runs, [state |-> e.to, resume |-> NextResume(e),
                           on |-> e.on, signal |-> signal])
  /\ execution' = IF e.to \in Terminal THEN "completed" ELSE "running"
  /\ observed' = status
  /\ request' = NoRequest

\* A form that does not keep the status seen.
DeferWithoutStatus(e, status) ==
  /\ request' = [edge |-> e, from |-> current]
  /\ observed' = status
  /\ UNCHANGED <<execution, runs>>

\* defer_transition: a human move into work waits for an owner.
DeferTransition(e, status) ==
  /\ request' = [edge |-> e, from |-> current, status |-> status]
  /\ observed' = status
  /\ UNCHANGED <<execution, runs>>

\* record_linear_observation: the state stays; a return to the desired status
\* cancels the pending request.
RecordObservation(status) ==
  /\ observed' = status
  /\ request' = IF status = Desired THEN NoRequest ELSE request
  /\ UNCHANGED <<execution, runs>>

-----------------------------------------------------------------------------
(* The kernel's operations.                                                *)

\* The edges by which a human who sets a status asks for a transition.
Proposed(status) ==
  UNION {Matches(s, "status") : s \in {t \in States : StatusOf[t] = status}}

TheEdge(edges) == CHOOSE e \in edges : TRUE
Unique(edges) == Cardinality(edges) = 1

\* A form that takes a status for feedback.
AcceptableWithoutFeedback(e) == Running /\ (e.to \in Work \/ current \notin Work)

\* A polled status carries no feedback, and nobody who left work.
Acceptable(e) == Running /\ ~e.feedback /\ (e.to \in Work \/ current \notin Work)

\* What observe_linear_status decides about a status.
NoChange(status) == status = Desired
Deferred(status) ==
  /\ ~NoChange(status)
  /\ Unique(Proposed(status))
  /\ LET e == TheEdge(Proposed(status))
     IN  Acceptable(e) /\ e.to \in Work /\ request = NoRequest
Accepted(status) ==
  /\ ~NoChange(status)
  /\ Unique(Proposed(status))
  /\ LET e == TheEdge(Proposed(status)) IN Acceptable(e) /\ e.to \notin Work
Rejected(status) == ~NoChange(status) /\ ~Deferred(status) /\ ~Accepted(status)

ObserveStatus(status) ==
  \/ /\ NoChange(status) \/ Rejected(status)
     /\ RecordObservation(status)
  \/ /\ Deferred(status)
     /\ DeferTransition(TheEdge(Proposed(status)), status)
  \/ /\ Accepted(status)
     /\ AcceptTransition(TheEdge(Proposed(status)), "status", status)

\* complete_attempt with the label the runner reported.
CompleteAttempt(label) ==
  /\ HasAttempt /\ Room
  /\ Unique(OutcomeEdges(label))
  /\ LET e == TheEdge(OutcomeEdges(label))
     IN  \E signal \in AgentSignals :
           /\ e.by \cap AgentSignals = {signal}
           /\ Matches(e.to, signal) = {e}
           /\ AcceptTransition(e, signal, observed)

\* _claim_pickups hands a pending human transition to its owner, or claims a
\* pickup checkpoint along its one claim edge.
ClaimPendingTransition ==
  /\ ~HasAttempt
  /\ request # NoRequest
  /\ request.from = current
  /\ CondHolds(request.edge)
  /\ AcceptTransition(request.edge, "status", request.status)

ClaimPickup ==
  /\ request = NoRequest /\ Room
  /\ current \in Pickup
  /\ LET claims == {e \in Edges : e.from = current /\ "claim" \in e.by}
     IN  /\ Unique(claims)
         /\ Matches(TheEdge(claims).to, "claim") = claims
         /\ AcceptTransition(TheEdge(claims), "claim", observed)

\* A transition, approval, retry or cancel command of the operator.
ControlTransition(e) ==
  /\ Room
  /\ Matches(e.to, "control") = {e}
  /\ AcceptTransition(e, "control", observed)

-----------------------------------------------------------------------------
KernelInit ==
  /\ execution = "running"
  /\ \E s \in Pickup :
       /\ runs = <<[state |-> s, resume |-> NoState,
                    on |-> Unlabelled, signal |-> "begin"]>>
       /\ observed = StatusOf[s]
  /\ request = NoRequest

KernelNext ==
  \/ \E label \in Labels : CompleteAttempt(label)
  \/ ClaimPendingTransition
  \/ ClaimPickup
  \/ \E status \in Statuses : ObserveStatus(status)
  \/ \E e \in Edges : ControlTransition(e)

KernelSpec == KernelInit /\ [][KernelNext]_kernelVars

-----------------------------------------------------------------------------
(* What the kernel keeps true.                                             *)

\* A pending human transition can always be claimed: it starts in the state the
\* execution is still in and its condition still holds, so that
\* claim_pending_transition, which the runtime repeats every step, never raises.
RequestIsClaimable ==
  request # NoRequest => /\ Running
                         /\ request.from = current
                         /\ CondHolds(request.edge)

\* A graph whose failures lead where they can be resumed (_resume_edges derives
\* the edges back from the failed edges), and where an investigation goes on
\* only from itself or from a state that nothing but investigations enter.
Resumable == {s \in States : ResumeOrigins(s) # {}}
Between == {s \in States \ (Pickup \cup Terminal \cup Resumable) :
              \A e \in Edges : e.to = s => e.from \in Resumable /\ e.cond = NoState}
RecoveryIsShaped ==
  /\ Resumable \cap (Pickup \cup Terminal) = {}
  /\ \A e \in Edges :
       /\ e.on = "failed" => e.from \in ResumeOrigins(e.to) /\ e.cond = NoState
       /\ e.on # "failed" /\ e.to \in Resumable =>
            e.from \in (Resumable \cup Between) \ ResumeOrigins(e.to) /\ e.cond = NoState

\* Wherever work can be resumed, it resumes the state whose failure started the
\* investigation, however many states (Blocked and back, an operator's retry)
\* lie in between: _next_resume_state and _recorded_resume_state agree with the
\* history of failed edges.
ResumesTheFailure ==
  LET failed == {i \in 2 .. Len(runs) : runs[i].on = "failed"}
  IN  ResumeOrigins(current) # {} =>
        /\ failed # {}
        /\ RecordedResume = runs[(CHOOSE i \in failed : \A j \in failed : j <= i) - 1].state

\* An agent takes a retry edge out of a node at most max_retries times, also when
\* the node is entered again by other edges in between (complete_attempt).
RetriesAreBounded ==
  \A s \in DOMAIN MaxRetries :
    Cardinality({i \in 2 .. Len(runs) : /\ runs[i].on = "retry"
                                        /\ runs[i].signal \in AgentSignals
                                        /\ runs[i - 1].state = s}) <= MaxRetries[s]

\* An edge that requires feedback is taken by a command, which carries it, and
\* never by a bare status change, however the execution came to its state.
ReviewIsDeliberate ==
  \A i \in 2 .. Len(runs) :
    (\A e \in Edges : e.to = runs[i].state /\ e.on = runs[i].on => e.feedback)
      => runs[i].signal = "control"
=============================================================================
