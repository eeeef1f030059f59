----------------------- MODULE WorkflowKernel_proofs -----------------------
(***************************************************************************)
(* Theorems about WorkflowKernel, for every workflow graph that satisfies  *)
(* GraphAssumption and every bound on the state runs.                      *)
(***************************************************************************)
EXTENDS WorkflowKernel, FiniteSetTheorems, WellFoundedInduction, TLAPS

-----------------------------------------------------------------------------
(* Lemmas about the operators.                                             *)

\* What TheEdge chooses from a set of one edge is in the set.
LEMMA TheEdgeIsOne ==
  ASSUME NEW S, Unique(S)
  PROVE  TheEdge(S) \in S
<1>1. S # {}
  BY FS_EmptySet DEF Unique
<1> QED
  BY <1>1 DEF TheEdge

\* A nonempty set of indices of a bounded sequence has a greatest element.
LEMMA GreatestIndex ==
  ASSUME NEW n \in Nat, NEW S \in SUBSET (1 .. n), S # {}
  PROVE  \E i \in S : \A j \in S : j <= i
<1> DEFINE T == {n - i : i \in S}
<1>1. \A i \in S : n - i \in Nat
  OBVIOUS
<1>2. T \subseteq Nat /\ T # {}
  BY <1>1
<1>3. PICK m \in T : \A k \in T : ~ (k < m)
  <2>1. PICK m \in T : \A k \in T : ~ (<<k, m>> \in OpToRel(<, Nat))
    BY <1>2, NatLessThanWellFounded, WFMin
  <2> QED
    BY <1>2, <2>1 DEF OpToRel
<1>4. PICK i \in S : m = n - i
  OBVIOUS
<1>5. \A j \in S : n - j \in T
  OBVIOUS
<1>6. \A j \in S : ~ (n - j < n - i)
  BY <1>3, <1>4, <1>5
<1>7. \A j \in S : j \in Nat /\ i \in Nat
  OBVIOUS
<1> HIDE DEF T
<1> QED
  BY <1>6, <1>7

-----------------------------------------------------------------------------
(* Type correctness.                                                       *)

LEMMA CurrentType ==
  ASSUME KernelTypeOK
  PROVE  Entered \in Run /\ current \in States
<1>1. Len(runs) \in Nat \ {0} /\ Len(runs) \in DOMAIN runs
  BY DEF KernelTypeOK
<1>2. Entered \in Run
  BY <1>1 DEF KernelTypeOK, Entered
<1> QED
  BY <1>2 DEF current, Run

\* What the current run or the history says about resuming is a state.
LEMMA RecordedResumeType ==
  ASSUME KernelTypeOK
  PROVE  RecordedResume \in States \cup {NoState}
<1>1. Entered \in Run /\ Len(runs) \in Nat
  BY CurrentType DEF KernelTypeOK
<1>2. CASE Entered.resume # NoState
  BY <1>1, <1>2 DEF RecordedResume, Run
<1>3. CASE Entered.resume = NoState /\ Failures = {}
  BY <1>3 DEF RecordedResume
<1>4. CASE Entered.resume = NoState /\ Failures # {}
  <2> DEFINE i == CHOOSE i \in Failures : \A j \in Failures : j <= i
  <2>1. Failures \subseteq 2 .. Len(runs)
    BY DEF Failures
  <2>2. Failures \in SUBSET (1 .. Len(runs))
    BY <1>1, <2>1
  <2>3. i \in Failures
    BY <1>1, <1>4, <2>2, GreatestIndex
  <2> HIDE DEF i
  <2>4. i \in 2 .. Len(runs)
    BY <2>1, <2>3
  <2>5. i - 1 \in 1 .. Len(runs)
    BY <1>1, <2>4
  <2>6. runs[i - 1] \in Run
    BY <2>5 DEF KernelTypeOK
  <2>7. RecordedResume = runs[i - 1].state
    BY <1>4 DEF RecordedResume, i
  <2> QED
    BY <2>6, <2>7 DEF Run
<1> QED
  BY <1>2, <1>3, <1>4

LEMMA NextResumeType ==
  ASSUME KernelTypeOK, NEW e \in Edges
  PROVE  NextResume(e) \in States \cup {NoState}
<1>1. current \in States
  BY CurrentType
<1>2. CASE e.to \in Terminal \/ e.cond # NoState
  BY <1>2 DEF NextResume
<1>3. CASE ~ (e.to \in Terminal \/ e.cond # NoState)
  BY <1>1, <1>3, RecordedResumeType DEF NextResume
<1> QED
  BY <1>2, <1>3

\* Moving along an edge of the graph keeps the types.
LEMMA AcceptTransitionType ==
  ASSUME KernelTypeOK, NEW e \in Edges, NEW signal \in Signals,
         NEW status \in Statuses, AcceptTransition(e, signal, status)
  PROVE  KernelTypeOK'
<1> DEFINE r == [state |-> e.to, resume |-> NextResume(e), on |-> e.on,
                 signal |-> signal]
<1>1. r \in Run
  BY NextResumeType, GraphAssumption DEF Run
<1>2. runs' = Append(runs, r)
  BY DEF AcceptTransition
<1>3. runs' \in Seq(Run) /\ runs' # <<>>
  BY <1>1, <1>2 DEF KernelTypeOK
<1> QED
  BY <1>3 DEF AcceptTransition, KernelTypeOK

\* The edge an observed status proposes belongs to the graph and may be taken.
LEMMA ProposedEdge ==
  ASSUME NEW status, Unique(Proposed(status))
  PROVE  /\ TheEdge(Proposed(status)) \in Edges
         /\ CondHolds(TheEdge(Proposed(status)))
         /\ TheEdge(Proposed(status)).from \in {current, AnyNonterminal}
BY TheEdgeIsOne DEF Proposed, Matches

LEMMA ObserveStatusType ==
  ASSUME KernelTypeOK, NEW status \in Statuses, ObserveStatus(status)
  PROVE  KernelTypeOK'
<1>1. CASE RecordObservation(status)
  BY <1>1 DEF RecordObservation, KernelTypeOK
<1>2. CASE Deferred(status) /\ DeferTransition(TheEdge(Proposed(status)), status)
  <2>1. TheEdge(Proposed(status)) \in Edges /\ current \in States
    BY <1>2, CurrentType, ProposedEdge DEF Deferred
  <2> QED
    BY <1>2, <2>1 DEF DeferTransition, KernelTypeOK, Requests
<1>3. CASE /\ Accepted(status)
           /\ AcceptTransition(TheEdge(Proposed(status)), "status", status)
  BY <1>3, ProposedEdge, AcceptTransitionType DEF Accepted, Signals
<1> QED
  BY <1>1, <1>2, <1>3 DEF ObserveStatus

\* The kernel's tables are well typed after every step.
LEMMA KernelNextType ==
  ASSUME KernelTypeOK, KernelNext
  PROVE  KernelTypeOK'
<1> USE DEF Signals, AgentSignals
<1>1. observed \in Statuses
  BY DEF KernelTypeOK
<1>2. ASSUME NEW label \in Labels, CompleteAttempt(label)
      PROVE  KernelTypeOK'
  <2>1. TheEdge(OutcomeEdges(label)) \in Edges
    BY <1>2, TheEdgeIsOne DEF CompleteAttempt, OutcomeEdges, Labelled
  <2> QED
    BY <1>1, <1>2, <2>1, AcceptTransitionType DEF CompleteAttempt
<1>3. CASE ClaimPendingTransition
  <2>1. request \in Requests
    BY <1>3 DEF ClaimPendingTransition, KernelTypeOK
  <2> QED
    BY <1>3, <2>1, AcceptTransitionType DEF ClaimPendingTransition, Requests
<1>4. CASE ClaimPickup
  <2> DEFINE claims == {e \in Edges : e.from = current /\ "claim" \in e.by}
  <2>1. TheEdge(claims) \in Edges
    BY <1>4, TheEdgeIsOne DEF ClaimPickup
  <2> QED
    BY <1>1, <1>4, <2>1, AcceptTransitionType DEF ClaimPickup
<1>5. ASSUME NEW status \in Statuses, ObserveStatus(status)
      PROVE  KernelTypeOK'
  BY <1>5, ObserveStatusType
<1>6. ASSUME NEW e \in Edges, ControlTransition(e)
      PROVE  KernelTypeOK'
  BY <1>1, <1>6, AcceptTransitionType DEF ControlTransition
<1> QED
  BY <1>2, <1>3, <1>4, <1>5, <1>6 DEF KernelNext

LEMMA KernelInitType == KernelInit => KernelTypeOK
<1> SUFFICES ASSUME KernelInit
             PROVE  KernelTypeOK
  OBVIOUS
<1>1. PICK s \in Pickup :
        /\ runs = <<[state |-> s, resume |-> NoState,
                     on |-> Unlabelled, signal |-> "begin"]>>
        /\ observed = StatusOf[s]
  BY DEF KernelInit
<1>2. s \in States /\ StatusOf[s] \in Statuses
  BY GraphAssumption
<1> QED
  BY <1>1, <1>2 DEF KernelInit, KernelTypeOK, Run

\* Every table of the kernel is well typed in every reachable state: what is
\* recorded to be resumed is a state of the graph, and what waits for an owner
\* is one of its edges with the status a person set (kernel.py).
THEOREM KernelTypeCorrect == KernelSpec => []KernelTypeOK
<1>1. KernelTypeOK /\ UNCHANGED kernelVars => KernelTypeOK'
  BY DEF KernelTypeOK, kernelVars
<1> QED
  BY <1>1, KernelInitType, KernelNextType, PTL DEF KernelSpec

-----------------------------------------------------------------------------
(* Pending requests and the edges taken.                                   *)

\* A request is made by a status, which cannot carry feedback, along an edge out
\* of the state.
RequestIsPlain ==
  request # NoRequest => /\ ~request.edge.feedback
                         /\ request.edge.from \in {current, AnyNonterminal}

\* What every step along an edge respects.
Deliberate(e, signal) == e.feedback => signal = "control"
RetryAllowed(e, signal) ==
  e.on = "retry" /\ signal \in AgentSignals /\ current \in DOMAIN MaxRetries
    => ~Exhausted

Moves ==
  \E e \in Edges, signal \in Signals :
    /\ runs' = Append(runs, [state |-> e.to, resume |-> NextResume(e),
                             on |-> e.on, signal |-> signal])
    /\ request' = NoRequest
    /\ e.from \in {current, AnyNonterminal}
    /\ Deliberate(e, signal)
    /\ RetryAllowed(e, signal)

Stays ==
  /\ UNCHANGED <<execution, runs>>
  /\ \/ request' \in {request, NoRequest}
     \/ \E e \in Edges, status \in Statuses :
          /\ Running /\ CondHolds(e) /\ ~e.feedback
          /\ e.from \in {current, AnyNonterminal}
          /\ request' = [edge |-> e, from |-> current, status |-> status]

LEMMA OutcomeMoves ==
  ASSUME KernelTypeOK, NEW label \in Labels, CompleteAttempt(label)
  PROVE  Moves
<1> DEFINE e == TheEdge(OutcomeEdges(label))
<1>1. e \in OutcomeEdges(label)
  BY TheEdgeIsOne DEF CompleteAttempt
<1>2. e \in Edges /\ e.by \cap AgentSignals # {} /\ e.from = current
  BY <1>1 DEF OutcomeEdges, Labelled
<1>3. ~e.feedback
  BY <1>2, GraphAssumption
<1>4. e.on = "retry" => ~Exhausted
  BY <1>1, GraphAssumption DEF OutcomeEdges, Labelled
<1>5. PICK signal \in AgentSignals : AcceptTransition(e, signal, observed)
  BY DEF CompleteAttempt
<1> HIDE DEF e
<1> QED
  BY <1>2, <1>3, <1>4, <1>5
  DEF Moves, AcceptTransition, Deliberate, RetryAllowed, Signals

LEMMA HandoffMoves ==
  ASSUME KernelTypeOK, RequestIsPlain, ClaimPendingTransition
  PROVE  Moves
<1>1. request \in Requests /\ request # NoRequest
  BY DEF KernelTypeOK, ClaimPendingTransition
<1>2. /\ request.edge \in Edges /\ ~request.edge.feedback
      /\ request.edge.from \in {current, AnyNonterminal}
  BY <1>1 DEF Requests, RequestIsPlain
<1>3. "status" \in Signals /\ "status" \notin AgentSignals
  BY DEF Signals, AgentSignals
<1> QED
  BY <1>2, <1>3
  DEF ClaimPendingTransition, Moves, AcceptTransition, Deliberate, RetryAllowed

LEMMA PickupMoves ==
  ASSUME KernelTypeOK, ClaimPickup
  PROVE  Moves
<1> DEFINE claims == {e \in Edges : e.from = current /\ "claim" \in e.by}
           e == TheEdge(claims)
<1>1. e \in Edges /\ "claim" \in e.by /\ e.from = current
  BY TheEdgeIsOne DEF ClaimPickup
<1>2. "claim" \in AgentSignals /\ "claim" \in Signals
  BY DEF Signals, AgentSignals
<1>3. ~e.feedback
  BY <1>1, <1>2, GraphAssumption
<1>4. current \notin DOMAIN MaxRetries
  BY GraphAssumption DEF ClaimPickup
<1>5. AcceptTransition(e, "claim", observed)
  BY DEF ClaimPickup
<1> HIDE DEF e
<1> QED
  BY <1>1, <1>2, <1>3, <1>4, <1>5
  DEF Moves, AcceptTransition, Deliberate, RetryAllowed

LEMMA ObserveMoves ==
  ASSUME KernelTypeOK, NEW status \in Statuses, ObserveStatus(status)
  PROVE  Moves \/ Stays
<1> DEFINE e == TheEdge(Proposed(status))
<1>1. CASE RecordObservation(status)
  BY <1>1 DEF RecordObservation, Stays
<1>2. CASE Deferred(status) /\ DeferTransition(e, status)
  <2>1. /\ e \in Edges /\ CondHolds(e) /\ Running /\ ~e.feedback
        /\ e.from \in {current, AnyNonterminal}
    BY <1>2, ProposedEdge DEF Deferred, Acceptable
  <2> HIDE DEF e
  <2> QED
    BY <1>2, <2>1 DEF DeferTransition, Stays
<1>3. CASE Accepted(status) /\ AcceptTransition(e, "status", status)
  <2>1. e \in Edges /\ ~e.feedback /\ e.from \in {current, AnyNonterminal}
    BY <1>3, ProposedEdge DEF Accepted, Acceptable
  <2>2. "status" \in Signals /\ "status" \notin AgentSignals
    BY DEF Signals, AgentSignals
  <2> HIDE DEF e
  <2> QED
    BY <1>3, <2>1, <2>2 DEF AcceptTransition, Moves, Deliberate, RetryAllowed
<1> QED
  BY <1>1, <1>2, <1>3 DEF ObserveStatus

\* Every step moves along an edge that it may take, or stays and leaves a
\* request, if any, that can be claimed.
LEMMA StepMovesOrStays ==
  ASSUME KernelTypeOK, RequestIsPlain, KernelNext
  PROVE  Moves \/ Stays
<1>1. ASSUME NEW e \in Edges, ControlTransition(e)
      PROVE  Moves
  <2>1. "control" \in Signals /\ "control" \notin AgentSignals
    BY DEF Signals, AgentSignals
  <2>2. e.from \in {current, AnyNonterminal}
    BY <1>1 DEF ControlTransition, Matches
  <2> QED
    BY <1>1, <2>1, <2>2
    DEF ControlTransition, AcceptTransition, Moves, Deliberate, RetryAllowed
<1> QED
  BY <1>1, OutcomeMoves, HandoffMoves, PickupMoves, ObserveMoves DEF KernelNext

-----------------------------------------------------------------------------
(* A pending request can be claimed.                                       *)

RequestInv == RequestIsClaimable /\ RequestIsPlain

LEMMA CondStays ==
  ASSUME UNCHANGED runs
  PROVE  /\ current' = current
         /\ \A e : CondHolds(e)' = CondHolds(e)
<1>1. Entered' = Entered /\ current' = current
  BY DEF Entered, current
<1>2. Failures' = Failures
  BY <1>1 DEF Failures, ResumeOrigins
<1>3. RecordedResume' = RecordedResume
  BY <1>1, <1>2 DEF RecordedResume
<1> QED
  BY <1>1, <1>3 DEF CondHolds

LEMMA RequestStep ==
  ASSUME KernelTypeOK, RequestInv, KernelNext
  PROVE  RequestInv'
<1>1. CASE Moves
  BY <1>1 DEF Moves, RequestInv, RequestIsClaimable, RequestIsPlain
<1>2. CASE Stays
  <2>1. current' = current /\ \A e : CondHolds(e)' = CondHolds(e)
    BY <1>2, CondStays DEF Stays
  <2>2. Running' = Running
    BY <1>2 DEF Stays, Running
  <2>3. CASE request' \in {request, NoRequest}
    BY <2>1, <2>2, <2>3 DEF RequestInv, RequestIsClaimable, RequestIsPlain
  <2>4. ASSUME NEW e \in Edges, NEW status \in Statuses,
               Running, CondHolds(e), ~e.feedback, e.from \in {current, AnyNonterminal},
               request' = [edge |-> e, from |-> current, status |-> status]
        PROVE  RequestInv'
    <3>1. request'.edge = e /\ request'.from = current
      BY <2>4
    <3>2. CondHolds(request.edge)' = CondHolds(e)
      BY <2>1, <3>1
    <3> QED
      BY <2>1, <2>2, <2>4, <3>1, <3>2
      DEF RequestInv, RequestIsClaimable, RequestIsPlain
  <2> QED
    BY <1>2, <2>3, <2>4 DEF Stays
<1> QED
  BY <1>1, <1>2, StepMovesOrStays DEF RequestInv

LEMMA UnchangedRequests ==
  ASSUME RequestInv, UNCHANGED kernelVars
  PROVE  RequestInv'
<1>1. UNCHANGED <<execution, runs, request>>
  BY DEF kernelVars
<1>2. current' = current /\ \A e : CondHolds(e)' = CondHolds(e)
  BY <1>1, CondStays
<1> QED
  BY <1>1, <1>2 DEF RequestInv, RequestIsClaimable, RequestIsPlain, Running

\* The inductive invariant the properties of the kernel rest on.
RequestsHold == KernelTypeOK /\ RequestInv

LEMMA RequestsHoldAlways == KernelSpec => []RequestsHold
<1>1. KernelInit => RequestInv
  BY DEF KernelInit, RequestInv, RequestIsClaimable, RequestIsPlain
<1>2. RequestsHold <=> KernelTypeOK /\ RequestInv
  BY DEF RequestsHold
<1> QED
  BY <1>1, <1>2, RequestStep, UnchangedRequests, KernelTypeCorrect, PTL
  DEF KernelSpec

\* A human move that waits for its owner can be claimed in every reachable
\* state, whatever people, agents and operators do meanwhile: claiming, which
\* the runtime repeats every step, never raises (claim_pending_transition).
THEOREM RequestsAreClaimable == KernelSpec => []RequestIsClaimable
<1>1. RequestsHold => RequestIsClaimable
  BY DEF RequestsHold, RequestInv
<1> QED
  BY <1>1, RequestsHoldAlways, PTL

-----------------------------------------------------------------------------
(* Which edges were taken.                                                 *)

\* What a step along an edge appends, and what it leaves.
LEMMA MoveAppends ==
  ASSUME KernelTypeOK, Moves
  PROVE  \E e \in Edges, signal \in Signals :
           /\ e.from \in {current, AnyNonterminal}
           /\ Deliberate(e, signal) /\ RetryAllowed(e, signal)
           /\ Len(runs) \in Nat \ {0}
           /\ Len(runs') = Len(runs) + 1
           /\ DOMAIN runs = 1 .. Len(runs) /\ DOMAIN runs' = 1 .. Len(runs')
           /\ \A i \in 1 .. Len(runs) : runs'[i] = runs[i]
           /\ runs'[Len(runs')].state = e.to
           /\ runs'[Len(runs')].resume = NextResume(e)
           /\ runs'[Len(runs')].on = e.on
           /\ runs'[Len(runs')].signal = signal
<1>1. PICK e \in Edges, signal \in Signals :
        /\ runs' = Append(runs, [state |-> e.to, resume |-> NextResume(e),
                                 on |-> e.on, signal |-> signal])
        /\ e.from \in {current, AnyNonterminal}
        /\ Deliberate(e, signal) /\ RetryAllowed(e, signal)
  BY DEF Moves
<1> DEFINE r == [state |-> e.to, resume |-> NextResume(e),
                 on |-> e.on, signal |-> signal]
<1>2. runs \in Seq(Run) /\ runs # <<>>
  BY DEF KernelTypeOK
<1>3. r \in Run
  BY NextResumeType, GraphAssumption DEF Run
<1>4. r.state = e.to /\ r.resume = NextResume(e) /\ r.on = e.on /\ r.signal = signal
  OBVIOUS
<1>5. runs' = Append(runs, r)
  BY <1>1
<1> HIDE DEF r
<1>6. /\ Len(runs) \in Nat \ {0}
      /\ Len(runs') = Len(runs) + 1
      /\ DOMAIN runs = 1 .. Len(runs) /\ DOMAIN runs' = 1 .. Len(runs')
      /\ \A i \in 1 .. Len(runs) : runs'[i] = runs[i]
      /\ runs'[Len(runs')] = r
  BY <1>2, <1>3, <1>5
<1> QED
  BY <1>1, <1>4, <1>6

LEMMA DeliberateStep ==
  ASSUME KernelTypeOK, RequestInv, ReviewIsDeliberate, KernelNext
  PROVE  ReviewIsDeliberate'
<1>1. CASE Stays
  BY <1>1 DEF Stays, ReviewIsDeliberate
<1>2. CASE Moves
  <2>1. PICK e \in Edges, signal \in Signals :
          /\ Deliberate(e, signal)
          /\ Len(runs) \in Nat \ {0}
          /\ Len(runs') = Len(runs) + 1
          /\ \A i \in 1 .. Len(runs) : runs'[i] = runs[i]
          /\ runs'[Len(runs')].state = e.to
          /\ runs'[Len(runs')].on = e.on
          /\ runs'[Len(runs')].signal = signal
    BY <1>2, MoveAppends
  <2>2. SUFFICES ASSUME NEW i \in 2 .. Len(runs'),
                        \A d \in Edges : d.to = runs'[i].state /\ d.on = runs'[i].on
                                            => d.feedback
                 PROVE  runs'[i].signal = "control"
    BY DEF ReviewIsDeliberate
  <2>3. CASE i = Len(runs')
    BY <2>1, <2>2, <2>3 DEF Deliberate
  <2>4. CASE i # Len(runs')
    <3>1. i \in 2 .. Len(runs) /\ runs'[i] = runs[i]
      BY <2>1, <2>4
    <3> QED
      BY <2>2, <3>1 DEF ReviewIsDeliberate
  <2> QED
    BY <2>3, <2>4
<1> QED
  BY <1>1, <1>2, StepMovesOrStays DEF RequestInv

\* The indices of the runs an agent entered by retrying s.
RetriesOf(s) ==
  {i \in 2 .. Len(runs) : /\ runs[i].on = "retry"
                          /\ runs[i].signal \in AgentSignals
                          /\ runs[i - 1].state = s}

\* An agent's retry comes after a visit of its own.
LEMMA RetryAddsVisit ==
  ASSUME KernelTypeOK, NEW s \in DOMAIN MaxRetries, s = current, ~Exhausted,
         NEW R, R \subseteq 2 .. Len(runs) + 1,
         \A i \in R : runs[i - 1].state = s
  PROVE  Cardinality(R) <= MaxRetries[s]
<1> DEFINE V == {i \in DOMAIN runs : runs[i].state = current}
           f == [i \in R |-> i - 1]
<1>1. Len(runs) \in Nat /\ DOMAIN runs = 1 .. Len(runs)
  BY DEF KernelTypeOK
<1>2. IsFiniteSet(V)
  <2>1. IsFiniteSet(1 .. Len(runs))
    BY <1>1, FS_Interval
  <2> QED
    BY <1>1, <2>1, FS_Subset
<1>3. \A i \in R : i - 1 \in V
  BY <1>1
<1>4. \A i, j \in R : i - 1 = j - 1 => i = j
  BY <1>1
<1>5. f \in Injection(R, V)
  BY <1>3, <1>4 DEF Injection, IsInjective
<1>6. Cardinality(R) <= Cardinality(V) /\ IsFiniteSet(R)
  BY <1>2, <1>5, FS_Injection
<1>7. Cardinality(V) \in Nat /\ Cardinality(R) \in Nat
  BY <1>2, <1>6, FS_CardinalityType
<1>8. MaxRetries[s] \in Nat
  BY GraphAssumption
<1>9. ~ (Cardinality(V) > MaxRetries[s])
  BY DEF Exhausted, Visits
<1> HIDE DEF V
<1> QED
  BY <1>6, <1>7, <1>8, <1>9

LEMMA RetriesStep ==
  ASSUME KernelTypeOK, RequestInv, RetriesAreBounded, KernelNext
  PROVE  RetriesAreBounded'
<1>1. \A s \in DOMAIN MaxRetries : Cardinality(RetriesOf(s)) <= MaxRetries[s]
  BY DEF RetriesAreBounded, RetriesOf
<1>2. SUFFICES ASSUME NEW s \in DOMAIN MaxRetries
               PROVE  Cardinality(RetriesOf(s)') <= MaxRetries[s]
  BY DEF RetriesAreBounded, RetriesOf
<1>3. CASE Stays
  <2>1. RetriesOf(s)' = RetriesOf(s)
    BY <1>3 DEF Stays, RetriesOf
  <2> QED
    BY <1>1, <2>1
<1>4. CASE Moves
  <2>1. PICK e \in Edges, signal \in Signals :
          /\ RetryAllowed(e, signal)
          /\ Len(runs) \in Nat \ {0}
          /\ Len(runs') = Len(runs) + 1
          /\ \A i \in 1 .. Len(runs) : runs'[i] = runs[i]
          /\ runs'[Len(runs')].on = e.on
          /\ runs'[Len(runs')].signal = signal
    BY <1>4, MoveAppends
  <2>2. \A i \in 2 .. Len(runs) : /\ i \in 2 .. Len(runs')
                                   /\ runs'[i] = runs[i]
                                   /\ runs'[i - 1] = runs[i - 1]
    BY <2>1
  <2>3. CASE e.on = "retry" /\ signal \in AgentSignals /\ current = s
    <3>1. ~Exhausted
      BY <2>1, <2>3 DEF RetryAllowed
    <3>2. RetriesOf(s)' \subseteq 2 .. Len(runs) + 1
      BY <2>1 DEF RetriesOf
    <3>3. \A i \in RetriesOf(s)' : runs[i - 1].state = s
      BY <2>1 DEF RetriesOf
    <3> QED
      BY <2>3, <3>1, <3>2, <3>3, RetryAddsVisit
  <2>4. CASE ~ (e.on = "retry" /\ signal \in AgentSignals /\ current = s)
    <3>1. Len(runs') \notin RetriesOf(s)'
      <4>1. runs'[Len(runs') - 1] = runs[Len(runs)]
        BY <2>1
      <4>2. current = runs'[Len(runs') - 1].state
        BY <4>1 DEF current, Entered
      <4> QED
        BY <2>1, <2>4, <4>2 DEF RetriesOf
    <3>2. RetriesOf(s)' \subseteq 2 .. Len(runs)
      BY <2>1, <3>1 DEF RetriesOf
    <3>3. RetriesOf(s)' = RetriesOf(s)
      BY <2>2, <3>2 DEF RetriesOf
    <3> QED
      BY <1>1, <3>3
  <2> QED
    BY <2>3, <2>4
<1> QED
  BY <1>3, <1>4, StepMovesOrStays DEF RequestInv

\* An edge that wants written feedback is taken by a command in every reachable
\* state of every graph; a bare status never takes it (accept_transition).
THEOREM ReviewsAreDeliberate == KernelSpec => []ReviewIsDeliberate
<1>1. KernelInit => ReviewIsDeliberate
  BY DEF KernelInit, ReviewIsDeliberate
<1>2. ReviewIsDeliberate /\ UNCHANGED kernelVars => ReviewIsDeliberate'
  BY DEF ReviewIsDeliberate, kernelVars
<1>3. RequestsHold => KernelTypeOK /\ RequestInv
  BY DEF RequestsHold
<1> QED
  BY <1>1, <1>2, <1>3, DeliberateStep, RequestsHoldAlways, PTL DEF KernelSpec

\* An agent retries a node at most max_retries times in every reachable state of
\* every graph, although the code counts visits (complete_attempt).
THEOREM AgentRetriesAreBounded == KernelSpec => []RetriesAreBounded
<1>1. KernelInit => RetriesAreBounded
  <2> SUFFICES ASSUME KernelInit, NEW s \in DOMAIN MaxRetries
               PROVE  Cardinality(RetriesOf(s)) <= MaxRetries[s]
    BY DEF RetriesAreBounded, RetriesOf
  <2>1. RetriesOf(s) = {}
    BY DEF KernelInit, RetriesOf
  <2> QED
    BY <2>1, FS_EmptySet, GraphAssumption
<1>2. RetriesAreBounded /\ UNCHANGED kernelVars => RetriesAreBounded'
  BY DEF RetriesAreBounded, kernelVars
<1>3. RequestsHold => KernelTypeOK /\ RequestInv
  BY DEF RequestsHold
<1> QED
  BY <1>1, <1>2, <1>3, RetriesStep, RequestsHoldAlways, PTL DEF KernelSpec

-----------------------------------------------------------------------------
(* Work resumes the state that failed.                                     *)

\* The indices of the runs entered by a failure.
FailedRuns == {i \in 2 .. Len(runs) : runs[i].on = "failed"}

\* The state whose failure is the last one.
IsLastFailure(s) ==
  \E i \in FailedRuns : /\ \A j \in FailedRuns : j <= i
                        /\ runs[i - 1].state = s

\* While an investigation goes on or is interrupted, its run has recorded the
\* state that failed.  In between matters too: coming back copies the record.
InvestigationKnows ==
  current \in Resumable \cup Between =>
    Entered.resume # NoState /\ IsLastFailure(Entered.resume)

\* Only one run is the last failure.
LEMMA LastFailureIsChosen ==
  ASSUME KernelTypeOK, NEW s, IsLastFailure(s)
  PROVE  /\ FailedRuns # {}
         /\ runs[(CHOOSE i \in FailedRuns : \A j \in FailedRuns : j <= i) - 1].state = s
<1> DEFINE c == CHOOSE i \in FailedRuns : \A j \in FailedRuns : j <= i
<1>1. PICK i \in FailedRuns : /\ \A j \in FailedRuns : j <= i
                             /\ runs[i - 1].state = s
  BY DEF IsLastFailure
<1>2. c \in FailedRuns /\ \A j \in FailedRuns : j <= c
  BY <1>1
<1>3. \A j \in FailedRuns : j \in Nat
  BY DEF KernelTypeOK, FailedRuns
<1> HIDE DEF c
<1>4. c = i
  BY <1>1, <1>2, <1>3
<1> QED
  BY <1>1, <1>4 DEF c

\* A failure is the last one; any other step leaves the last one.
LEMMA FailureIsLast ==
  ASSUME NEW n \in Nat \ {0}, Len(runs) = n, Len(runs') = n + 1,
         \A i \in 1 .. n : runs'[i] = runs[i],
         NEW s, runs[n].state = s, runs'[n + 1].on = "failed"
  PROVE  IsLastFailure(s)'
<1>1. n + 1 \in FailedRuns'
  BY DEF FailedRuns
<1>2. \A j \in FailedRuns' : j <= n + 1
  BY DEF FailedRuns
<1>3. runs'[(n + 1) - 1].state = s
  OBVIOUS
<1> QED
  BY <1>1, <1>2, <1>3 DEF IsLastFailure

LEMMA LastFailureStays ==
  ASSUME NEW n \in Nat \ {0}, Len(runs) = n, Len(runs') = n + 1,
         \A i \in 1 .. n : runs'[i] = runs[i],
         runs'[n + 1].on # "failed", NEW s, IsLastFailure(s)
  PROVE  IsLastFailure(s)'
<1>1. FailedRuns' = FailedRuns
  BY DEF FailedRuns
<1>2. \A i \in FailedRuns : runs'[i - 1] = runs[i - 1]
  BY DEF FailedRuns
<1> QED
  BY <1>1, <1>2 DEF IsLastFailure

LEMMA InvestigationStep ==
  ASSUME RecoveryIsShaped, KernelTypeOK, RequestInv, InvestigationKnows, KernelNext
  PROVE  InvestigationKnows'
<1>1. CASE Stays
  BY <1>1 DEF Stays, InvestigationKnows, IsLastFailure, FailedRuns, current, Entered
<1>2. CASE Moves
  <2>1. PICK e \in Edges, signal \in Signals :
          /\ e.from \in {current, AnyNonterminal}
          /\ Len(runs) \in Nat \ {0}
          /\ Len(runs') = Len(runs) + 1
          /\ \A i \in 1 .. Len(runs) : runs'[i] = runs[i]
          /\ runs'[Len(runs')].state = e.to
          /\ runs'[Len(runs')].resume = NextResume(e)
          /\ runs'[Len(runs')].on = e.on
    BY <1>2, MoveAppends
  <2>2. current' = e.to /\ Entered'.resume = NextResume(e)
    BY <2>1 DEF current, Entered
  <2>3. current = runs[Len(runs)].state
    BY DEF current, Entered
  <2>4. current \in States /\ e.to \in States /\ AnyNonterminal \notin States
    BY CurrentType, GraphAssumption
  <2>5. Resumable \cap (Pickup \cup Terminal) = {}
    BY DEF RecoveryIsShaped
  <2>6. SUFFICES ASSUME e.to \in Resumable \cup Between
                 PROVE  \E s \in States : s = NextResume(e) /\ IsLastFailure(s)'
    <3>1. e.to \in Resumable \cup Between <=> current' \in (Resumable \cup Between)'
      BY <2>2 DEF Resumable, Between, ResumeOrigins
    <3>2. ASSUME NEW s \in States, s = NextResume(e), IsLastFailure(s)'
          PROVE  (Entered.resume # NoState /\ IsLastFailure(Entered.resume))'
      <4>1. Entered'.resume = s
        BY <2>2, <3>2
      <4>2. s # NoState
        BY GraphAssumption
      <4> QED
        BY <3>2, <4>1, <4>2 DEF IsLastFailure
    <3> QED
      BY <3>1, <3>2 DEF InvestigationKnows
  <2>7. e.to \notin Terminal
    BY <2>5, <2>6 DEF Between
  <2>8. CASE e.on = "failed"
    <3>1. e.from \in ResumeOrigins(e.to) /\ e.cond = NoState
      BY <2>8 DEF RecoveryIsShaped
    <3>2. ResumeOrigins(e.to) \subseteq States
      BY GraphAssumption DEF ResumeOrigins
    <3>3. e.from = current
      BY <2>1, <2>4, <3>1, <3>2
    <3>4. NextResume(e) = current
      BY <2>7, <3>1, <3>3 DEF NextResume
    <3>5. PICK s \in States : s = current
      BY <2>4
    <3>6. IsLastFailure(s)'
      BY <2>1, <2>3, <2>8, <3>5, FailureIsLast
    <3> QED
      BY <3>4, <3>5, <3>6
  <2>9. CASE e.on # "failed"
    <3>1. /\ e.from \in (Resumable \cup Between) \ ResumeOrigins(e.to)
          /\ e.cond = NoState
          /\ Resumable \cap {e.from, e.to} # {}
      <4>1. CASE e.to \in Resumable
        BY <2>9, <4>1 DEF RecoveryIsShaped
      <4>2. CASE e.to \in Between
        <5>1. e.from \in Resumable /\ e.cond = NoState
          BY <4>2 DEF Between
        <5>2. ResumeOrigins(e.to) = {}
          BY <2>4, <4>2 DEF Between, Resumable
        <5> QED
          BY <5>1, <5>2
      <4> QED
        BY <2>6, <4>1, <4>2
    <3>2. e.from = current
      BY <2>1, <2>4, <3>1 DEF Resumable, Between
    <3>3. ResumeOrigins(e.to) \cup ResumeOrigins(current) # {}
      BY <3>1, <3>2 DEF Resumable
    <3>4. NextResume(e) = RecordedResume
      BY <2>7, <3>1, <3>2, <3>3 DEF NextResume
    <3>5. Entered.resume # NoState /\ IsLastFailure(Entered.resume)
      BY <3>1, <3>2 DEF InvestigationKnows
    <3>6. NextResume(e) = Entered.resume
      BY <3>4, <3>5 DEF RecordedResume
    <3>7. Entered.resume \in States
      BY <3>5, CurrentType DEF Run
    <3>8. PICK s \in States : s = Entered.resume
      BY <3>7
    <3>9. IsLastFailure(s)
      BY <3>5, <3>8 DEF IsLastFailure
    <3>10. IsLastFailure(s)'
      BY <2>1, <2>9, <3>9, LastFailureStays
    <3> QED
      BY <3>6, <3>8, <3>10
  <2> QED
    BY <2>8, <2>9
<1> QED
  BY <1>1, <1>2, StepMovesOrStays DEF RequestInv

\* In a graph whose failures can be resumed, wherever people, agents and
\* operators lead an execution: an investigation resumes the state that failed
\* last, although _next_resume_state only copies what the run before recorded.
THEOREM FailuresAreResumed ==
  ASSUME RecoveryIsShaped
  PROVE  KernelSpec => []ResumesTheFailure
<1>1. KernelInit => InvestigationKnows
  <2> SUFFICES ASSUME KernelInit
               PROVE  InvestigationKnows
    OBVIOUS
  <2>1. current \in Pickup
    BY DEF KernelInit, current, Entered
  <2> QED
    BY <2>1 DEF RecoveryIsShaped, InvestigationKnows, Between
<1>2. InvestigationKnows /\ UNCHANGED kernelVars => InvestigationKnows'
  BY DEF InvestigationKnows, IsLastFailure, FailedRuns, current, Entered, kernelVars
<1>3. RequestsHold => KernelTypeOK /\ RequestInv
  BY DEF RequestsHold
<1>4. KernelTypeOK /\ InvestigationKnows => ResumesTheFailure
  <2> SUFFICES ASSUME KernelTypeOK, InvestigationKnows, ResumeOrigins(current) # {}
               PROVE  /\ FailedRuns # {}
                      /\ RecordedResume =
                           runs[(CHOOSE i \in FailedRuns : \A j \in FailedRuns : j <= i) - 1].state
    BY DEF ResumesTheFailure, FailedRuns
  <2>1. current \in Resumable
    BY CurrentType DEF Resumable
  <2>2. RecordedResume = Entered.resume /\ IsLastFailure(Entered.resume)
    BY <2>1 DEF InvestigationKnows, RecordedResume
  <2> QED
    BY <2>2, LastFailureIsChosen
<1> QED
  BY <1>1, <1>2, <1>3, <1>4, InvestigationStep, RequestsHoldAlways, PTL DEF KernelSpec
=============================================================================
