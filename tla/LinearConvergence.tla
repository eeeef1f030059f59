-------------------------- MODULE LinearConvergence --------------------------
(***************************************************************************)
(* How one execution and its Linear issue are kept in step                 *)
(* (linear_reconciliation.py, linear_api.py, the Linear part of            *)
(* lifecycle.py and the tables linear_observations and linear_mutations of *)
(* ledger.py).  The kernel decides what an observed status means           *)
(* (WorkflowKernel); every transition and every rejected status queues a   *)
(* mutation that makes Linear show the desired status, and the runtime     *)
(* delivers the mutations one at a time: read, write, read back, observe.  *)
(*                                                                         *)
(* The issue belongs to Linear: people edit it at any moment, a write may  *)
(* be refused, be lost, or land after its answer was given up, and the     *)
(* runtime may die between any two steps.  An issue read is a revision of  *)
(* remote; (revision, status) identifies an observation, so seen, the set  *)
(* of revisions already reconciled, is what makes observing idempotent.    *)
(***************************************************************************)
EXTENDS WorkflowKernel

CONSTANTS
  Faults,     \* what may go wrong: see Fault
  MaxFaults,  \* bound on the failures of Linear
  MaxEdits,   \* bound on the edits people make to the issue
  MaxControl, \* bound on the operator's commands
  MaxCrashes, \* bound on the deaths of the runtime
  LivePolls,  \* whether the issue is also read while a runner runs
  NoIssue,    \* no issue read
  NoWrite     \* no write under way in Linear

Fault == {"read", "refused", "rejected", "lost", "unanswered", "readback", "attention"}

ASSUME FaultAssumption ==
  /\ Faults \subseteq Fault
  /\ {MaxFaults, MaxEdits, MaxControl, MaxCrashes} \subseteq Nat
  /\ LivePolls \in BOOLEAN

VARIABLES
  remote,    \* the issue in Linear: status, revision, author of the revision
  late,      \* an unanswered write that Linear has yet to apply
  seen,      \* revisions reconciled with the kernel: linear_observations
  mutations, \* linear_mutations in order of creation
  at,        \* what the runtime's control thread does next
  phase,     \* what it did before it began to deliver mutations
  issue,     \* the issue it has read
  sending,   \* the mutation it is delivering
  live,      \* the issue the reader thread has read during a run
  spent,     \* how much of each bound is used up
  proposer   \* history: who wrote the revision that last moved the execution

linearVars == <<remote, late, seen, mutations, at, phase, issue, sending, live,
                spent, proposer>>
vars == <<kernelVars, linearVars>>

MutationStatus == {"pending", "retry", "sending", "ambiguous", "failed",
                   "confirmed", "conflict"}

\* due: next_attempt_at has passed.  writes: history, how often Linear applied it.
Mutation == [desired : Statuses, expected : Statuses, status : MutationStatus,
             due : BOOLEAN, writes : Nat]

Issue == [status : Statuses, rev : Nat, by : {"human", "factory"}]

TypeOK ==
  /\ KernelTypeOK
  /\ remote \in Issue
  /\ late \in DOMAIN mutations \cup {NoWrite}
  /\ seen \subseteq 0 .. remote.rev
  /\ mutations \in Seq(Mutation)
  /\ at \in {"down", "idle", "observe", "drain", "sent", "readback", "claim", "tick",
            "recover"}
  /\ phase \in {"polled", "claimed", "ticked"}
  /\ issue \in Issue \cup {NoIssue} /\ live \in Issue \cup {NoIssue}
  /\ sending \in 0 .. Len(mutations)
  /\ spent \in [edits : 0 .. MaxEdits, faults : 0 .. MaxFaults,
                control : 0 .. MaxControl, crashes : 0 .. MaxCrashes]
  /\ proposer \in {"human", "factory"}

-----------------------------------------------------------------------------
(* The mutation rows.                                                      *)

\* A form that does not keep the status expected in Linear.
QueuedBlindly(rows, desired, expected) ==
  Append(rows, [desired |-> desired, expected |-> NoIssue,
                status |-> IF expected = desired THEN "confirmed" ELSE "pending",
                due |-> FALSE, writes |-> 0])

\* _queue_linear_status_mutation: a status Linear already showed is confirmed.
Queued(rows, desired, expected) ==
  Append(rows, [desired |-> desired, expected |-> expected,
                status |-> IF expected = desired THEN "confirmed" ELSE "pending",
                due |-> FALSE, writes |-> 0])

\* _confirm_linear_status_mutations: an observed status confirms every row that
\* desires it and is not settled otherwise.
Confirmed(rows, status) ==
  [i \in DOMAIN rows |->
     IF rows[i].desired = status /\ rows[i].status \notin {"failed", "confirmed"}
     THEN [rows[i] EXCEPT !.status = "confirmed", !.due = FALSE] ELSE rows[i]]

Settle(i, status) == mutations' = [mutations EXCEPT ![i].status = status,
                                                    ![i].due = FALSE]

\* A form that never takes a mutation up again.
SendableOnce(m) == m.status = "pending"

Sendable(m) == \/ m.status = "pending"
               \/ m.status = "retry" /\ m.due

\* pending_linear_mutations, the first of them.
NextSendable == CHOOSE i \in DOMAIN mutations :
           /\ Sendable(mutations[i])
           /\ \A j \in DOMAIN mutations : Sendable(mutations[j]) => i <= j
SomeSendable == \E i \in DOMAIN mutations : Sendable(mutations[i])

Spend(what) == spent' = [spent EXCEPT ![what] = @ + 1]
MayFail(fault) == fault \in Faults /\ spent.faults < MaxFaults

-----------------------------------------------------------------------------
(* Observing the issue: LinearReconciler and DurableKernel.observe.        *)

\* What a reconciled status does to the mutations.
ObservationQueues(status) ==
  mutations' =
    CASE NoChange(status) -> Confirmed(mutations, status)
      [] Rejected(status) -> Queued(mutations, Desired, status)
      [] Deferred(status) -> mutations
      [] Accepted(status) -> Confirmed(Queued(mutations, status, status), status)

Reconcile(read) ==
  IF read.rev \in seen
  THEN UNCHANGED <<kernelVars, seen, mutations, proposer>>
  ELSE /\ seen' = seen \cup {read.rev}
       /\ ObserveStatus(read.status)
       /\ ObservationQueues(read.status)
       /\ proposer' = IF Deferred(read.status) \/ Accepted(read.status)
                      THEN read.by ELSE proposer

\* A transition that does not come from a polled status.
TransitionQueues ==
  /\ mutations' = Queued(mutations, StatusOf[runs'[Len(runs')].state], observed)
  /\ UNCHANGED <<seen, proposer>>

-----------------------------------------------------------------------------
(* One step of the runtime: poll, deliver, claim, deliver, tick, deliver.  *)

Poll ==
  /\ at = "idle"
  /\ phase' = "polled"
  /\ IF Running THEN at' = "observe" /\ issue' = remote
                ELSE at' = "drain" /\ issue' = NoIssue
  /\ UNCHANGED <<kernelVars, remote, late, seen, mutations, sending, live, spent, proposer>>

ObserveIssue ==
  /\ at = "observe"
  /\ Reconcile(issue)
  /\ at' = "drain" /\ issue' = NoIssue
  /\ UNCHANGED <<remote, late, phase, sending, live, spent>>

\* drain_one reads the issue and records the attempt to send.
StartMutation ==
  /\ at = "drain" /\ SomeSendable
  /\ sending' = NextSendable
  /\ Settle(NextSendable, "sending")
  /\ issue' = remote
  /\ at' = "sent"
  /\ UNCHANGED <<kernelVars, remote, late, seen, phase, live, spent, proposer>>

\* The read fails: the error ends the step before an attempt is recorded.  The
\* work queue then lets the scheduler recover its dispatches.
ReadFails ==
  /\ at = "drain" /\ SomeSendable
  /\ MayFail("read") /\ Spend("faults")
  /\ at' = "recover"
  /\ UNCHANGED <<kernelVars, remote, late, seen, mutations, phase, issue, sending, live, proposer>>

\* Linear shows the desired status already, or one nobody expected.
SettleWithoutWrite ==
  /\ at = "sent"
  /\ issue.status = mutations[sending].desired \/ issue.status # mutations[sending].expected
  /\ Settle(sending, IF issue.status = mutations[sending].desired
                     THEN "confirmed" ELSE "conflict")
  /\ at' = "observe" /\ sending' = 0
  /\ UNCHANGED <<kernelVars, remote, late, seen, phase, issue, live, spent, proposer>>

Writable == /\ at = "sent"
            /\ issue.status = mutations[sending].expected
            /\ issue.status # mutations[sending].desired

\* Linear applies mutation i; an issue that has the status already is not touched.
Apply(i) ==
  remote' = IF remote.status = mutations[i].desired THEN remote
            ELSE [status |-> mutations[i].desired, rev |-> remote.rev + 1,
                  by |-> "factory"]

WriteStatus ==
  /\ Writable
  /\ Apply(sending)
  /\ mutations' = [mutations EXCEPT ![sending].writes = @ + 1]
  /\ at' = "readback"
  /\ UNCHANGED <<kernelVars, late, seen, phase, issue, sending, live, spent, proposer>>

\* The write ends in an error, which ends the step.  A rate limit is retried
\* later, a rejection is final, a lost answer leaves the outcome unknown.
WriteFails(fault, status) ==
  /\ Writable
  /\ MayFail(fault) /\ Spend("faults")
  /\ Settle(sending, status)
  /\ at' = "recover" /\ issue' = NoIssue /\ sending' = 0
  /\ UNCHANGED <<kernelVars, remote, seen, phase, live, proposer>>

\* Forms that give up after a rate limit, and that retry after a timeout.
WriteRefusedForGood == WriteFails("refused", "failed") /\ UNCHANGED late
WriteUnansweredRetries ==
  /\ late = NoWrite
  /\ late' = sending
  /\ WriteFails("unanswered", "retry")

WriteRefused  == WriteFails("refused", "retry") /\ UNCHANGED late
WriteRejected == WriteFails("rejected", "failed") /\ UNCHANGED late
WriteLost     == WriteFails("lost", "ambiguous") /\ UNCHANGED late
WriteUnanswered ==
  /\ late = NoWrite
  /\ late' = sending
  /\ WriteFails("unanswered", "ambiguous")

\* Linear applies a write whose answer was given up.
WriteLands ==
  /\ late # NoWrite
  /\ Apply(late)
  /\ mutations' = [mutations EXCEPT ![late].writes = @ + 1]
  /\ late' = NoWrite
  /\ UNCHANGED <<kernelVars, seen, at, phase, issue, sending, live, spent, proposer>>

ReadBack ==
  /\ at = "readback"
  /\ issue' = remote
  /\ Settle(sending, IF remote.status = mutations[sending].desired
                     THEN "confirmed" ELSE "conflict")
  /\ at' = "observe" /\ sending' = 0
  /\ UNCHANGED <<kernelVars, remote, late, seen, phase, live, spent, proposer>>

\* Reading back fails: drain_one treats it like a write that was refused.
ReadBackFails ==
  /\ at = "readback"
  /\ MayFail("readback") /\ Spend("faults")
  /\ Settle(sending, "retry")
  /\ at' = "recover" /\ issue' = NoIssue /\ sending' = 0
  /\ UNCHANGED <<kernelVars, remote, late, seen, phase, live, proposer>>

Drained ==
  /\ at = "drain" /\ ~SomeSendable
  /\ at' = CASE phase = "polled" -> "claim" [] phase = "claimed" -> "tick"
             [] phase = "ticked" -> "idle"
  /\ UNCHANGED <<kernelVars, remote, late, seen, mutations, phase, issue, sending,
                 live, spent, proposer>>

-----------------------------------------------------------------------------
(* Claiming and running work.                                              *)

Claimed ==
  /\ at = "claim"
  /\ at' = "drain" /\ phase' = "claimed"
  /\ UNCHANGED <<remote, late, issue, sending, live>>

\* The human's status is taken as observed: it confirms every mutation to it.
ClaimHandoff ==
  /\ Claimed
  /\ ClaimPendingTransition
  /\ mutations' = Confirmed(Queued(mutations, request.status, request.status),
                            request.status)
  /\ UNCHANGED <<seen, spent, proposer>>

ClaimCheckpoint ==
  /\ Claimed
  /\ ClaimPickup
  /\ TransitionQueues
  /\ UNCHANGED spent

\* There is nothing to claim, or an attention request keeps the runtime from it.
ClaimNothing ==
  /\ Claimed
  /\ \/ ~Running
     \/ HasAttempt
     \/ request = NoRequest /\ (current \notin Pickup \/ ~Room)
  /\ UNCHANGED <<kernelVars, seen, mutations, spent, proposer>>

ClaimHeld ==
  /\ Claimed
  /\ Running /\ ~HasAttempt
  /\ MayFail("attention") /\ Spend("faults")
  /\ UNCHANGED <<kernelVars, seen, mutations, proposer>>

\* The scheduler's tick, or its recovery after an error, is over.
Ticked ==
  \/ at = "tick" /\ at' = "drain" /\ phase' = "ticked"
  \/ at = "recover" /\ at' = "idle" /\ phase' = "ticked"

\* The scheduler commits the attempt's result with the label of its outcome; a
\* tick serves one attempt.
AttemptCompletes(label) ==
  /\ at = "tick" => phase = "claimed"
  /\ Ticked
  /\ CompleteAttempt(label)
  /\ TransitionQueues
  /\ UNCHANGED <<remote, late, issue, sending, live, spent>>

TickEnds ==
  /\ Ticked
  /\ UNCHANGED <<kernelVars, remote, late, seen, mutations, issue, sending, live,
                 spent, proposer>>

\* A thread reads the issue while this execution's runner runs; the control
\* thread takes what it read from its queue later, in any later run.
LiveRead ==
  /\ LivePolls
  /\ at = "tick" /\ phase = "claimed" /\ HasAttempt
  /\ live = NoIssue
  /\ live' = remote
  /\ UNCHANGED <<kernelVars, remote, late, seen, mutations, at, phase, issue,
                 sending, spent, proposer>>

LiveObserve ==
  /\ at = "tick"
  /\ live # NoIssue
  /\ IF Running THEN Reconcile(live)
                ELSE UNCHANGED <<kernelVars, seen, mutations, proposer>>
  /\ live' = NoIssue
  /\ UNCHANGED <<remote, late, at, phase, issue, sending, spent>>

\* The operator's commands are served between two steps and during a run, of this
\* execution, whose runner they end, or of another one.
OperatorCommands(e) ==
  /\ at \in {"idle", "tick"}
  /\ spent.control < MaxControl /\ Spend("control")
  /\ ControlTransition(e)
  /\ TransitionQueues
  /\ phase' = "ticked"
  /\ UNCHANGED <<remote, late, at, issue, sending, live>>

-----------------------------------------------------------------------------
(* The rest of the world.                                                  *)

\* Somebody sets a status, or changes something else about the issue.
HumanEdits(status) ==
  /\ spent.edits < MaxEdits /\ Spend("edits")
  /\ remote' = [status |-> status, rev |-> remote.rev + 1, by |-> "human"]
  /\ UNCHANGED <<kernelVars, late, seen, mutations, at, phase, issue, sending, live, proposer>>

DelayElapses(i) ==
  /\ mutations[i].status = "retry" /\ ~mutations[i].due
  /\ mutations' = [mutations EXCEPT ![i].due = TRUE]
  /\ UNCHANGED <<kernelVars, remote, late, seen, at, phase, issue, sending, live,
                 spent, proposer>>

Crash ==
  /\ at # "down"
  /\ spent.crashes < MaxCrashes /\ Spend("crashes")
  /\ at' = "down" /\ issue' = NoIssue /\ live' = NoIssue /\ sending' = 0
  /\ UNCHANGED <<kernelVars, remote, late, seen, mutations, phase, proposer>>

\* Nothing in the runtime's start calls recover_linear_mutations.
Restart ==
  /\ at = "down"
  /\ at' = "idle"
  /\ UNCHANGED <<kernelVars, remote, late, seen, mutations, phase, issue, sending,
                 live, spent, proposer>>

-----------------------------------------------------------------------------
\* start_issue adopts the pickup checkpoint the issue is in and observes it once.
Init ==
  /\ KernelInit
  /\ remote = [status |-> observed, rev |-> 0, by |-> "human"]
  /\ late = NoWrite
  /\ seen = {0}
  /\ mutations = <<>>
  /\ at = "idle" /\ phase = "ticked"
  /\ issue = NoIssue /\ live = NoIssue /\ sending = 0
  /\ spent = [edits |-> 0, faults |-> 0, control |-> 0, crashes |-> 0]
  /\ proposer = "human"

Deliver ==
  \/ StartMutation \/ SettleWithoutWrite \/ WriteStatus \/ ReadBack \/ Drained
  \/ ReadFails \/ WriteRefused \/ WriteRejected \/ WriteLost \/ WriteUnanswered
  \/ ReadBackFails

Claim == ClaimHandoff \/ ClaimCheckpoint \/ ClaimNothing \/ ClaimHeld

Tick == TickEnds \/ LiveRead \/ LiveObserve
        \/ \E label \in Labels : AttemptCompletes(label)

RuntimeStep == Poll \/ ObserveIssue \/ Deliver \/ Claim \/ Tick

Environment ==
  \/ \E e \in Edges : OperatorCommands(e)
  \/ \E status \in Statuses : HumanEdits(status)
  \/ \E i \in DOMAIN mutations : DelayElapses(i)
  \/ WriteLands \/ Crash \/ Restart

Next == RuntimeStep \/ Environment

Spec == Init /\ [][Next]_vars

\* The runtime keeps stepping and is started again; a delay elapses.  When an
\* agent finishes, an operator acts or an unanswered write lands is not assumed.
FairSpec ==
  /\ Spec
  /\ WF_vars(Poll \/ ObserveIssue \/ Deliver)
  /\ WF_vars(ClaimHandoff \/ ClaimCheckpoint \/ ClaimNothing)
  /\ WF_vars(TickEnds)
  /\ WF_vars(Restart)
  /\ WF_vars(\E i \in DOMAIN mutations : DelayElapses(i))

-----------------------------------------------------------------------------
(* Properties.                                                             *)

\* A write that took effect although its answer was lost is not made a second
\* time (ADR 0018; drain_one and mark_linear_mutation_ambiguous).
AppliedOnce == \A i \in DOMAIN mutations : mutations[i].writes <= 1

\* The outbox is delivered: whatever fails on the way, every mutation is in the
\* end confirmed, in conflict, given up, ambiguous or cut off by a crash.
OutboxDrains ==
  <>[](\A i \in DOMAIN mutations : mutations[i].status \notin {"pending", "retry"})

\* Once people, operators and faults are done, Linear shows the status of the
\* state the execution is in, or a human move waits for its owner.
Converges == <>[](~Running \/ remote.status = Desired \/ request # NoRequest)

\* Only people's changes to the issue propose transitions: a status the factory
\* wrote itself does not move the execution (ADR 0018, observe_issue).
NoInventedTransition == proposer = "human"

\* A send that was interrupted is ambiguous when the runtime polls again
\* (ADR 0018, recover_linear_mutations).
InterruptedIsAmbiguous ==
  at = "idle" => \A i \in DOMAIN mutations : mutations[i].status # "sending"

\* A status that the workflow lets people set from every state that does not end
\* the execution is taken in each of them (README.md, observe_linear_status).
GlobalMoveIsTaken ==
  /\ at = "observe" /\ Running
  /\ issue.by = "human" /\ issue.rev \notin seen
  /\ \E e \in Edges : Proposed(issue.status) = {e} /\ e.from = AnyNonterminal
  => Accepted(issue.status)

=============================================================================
