----------------------- MODULE LinearConvergence_proofs -----------------------
(***************************************************************************)
(* Theorems about LinearConvergence, for every workflow graph, every set   *)
(* of faults and every bound: type correctness, that no mutation is        *)
(* applied twice, and that the kernel inside takes only its own steps, so  *)
(* that what WorkflowKernel_proofs shows of the kernel holds here too.     *)
(*                                                                         *)
(* That a mutation is applied once needs to be known of every row that may *)
(* still be sent, of the one being delivered and of the one whose write    *)
(* has yet to land (WritesInv): none of them was applied before, and they  *)
(* are not the same row.                                                   *)
(***************************************************************************)
EXTENDS LinearConvergence, WorkflowKernel_proofs

\* An issue as it was read: Linear has shown it, now or before.
Known(read) == read \in Issue /\ read.rev <= remote.rev

\* What the runtime holds while it observes and delivers.
HoldsInv ==
  /\ at \in {"observe", "sent"} => Known(issue)
  /\ live # NoIssue => Known(live)
  /\ at \in {"sent", "readback"} =>
       sending \in DOMAIN mutations /\ mutations[sending].status = "sending"

\* A mutation that may still be sent was never applied, nor was the one whose
\* write is about to be made or has yet to land.
WritesInv ==
  /\ AppliedOnce
  /\ \A i \in DOMAIN mutations :
       mutations[i].status \in {"pending", "retry"} => mutations[i].writes = 0
  /\ at = "sent" => mutations[sending].writes = 0
  /\ late # NoWrite =>
       /\ late \in DOMAIN mutations /\ mutations[late].writes = 0
       /\ mutations[late].status \in {"ambiguous", "confirmed"}

\* What every step relies on.
LinearInv == TypeOK /\ HoldsInv
-----------------------------------------------------------------------------
(* What each write to the rows does.                                       *)

\* One field of one row is written.
Rows(f) == 
  /\ DOMAIN mutations' = DOMAIN mutations /\ Len(mutations') = Len(mutations)
  /\ mutations' \in Seq(Mutation)
  /\ \A j \in DOMAIN mutations :
       /\ mutations'[j].desired = mutations[j].desired
       /\ mutations'[j].expected = mutations[j].expected
       /\ f # "status" => mutations'[j].status = mutations[j].status
       /\ f # "writes" => mutations'[j].writes = mutations[j].writes

\* A list is as long as the list it is made from, element by element.
LEMMA SeqByElements ==
  ASSUME NEW S, NEW T, NEW s \in Seq(S), NEW t, t = [j \in DOMAIN s |-> t[j]],
         \A j \in DOMAIN s : t[j] \in T
  PROVE  t \in Seq(T) /\ Len(t) = Len(s) /\ DOMAIN t = DOMAIN s
<1>1. DOMAIN s = 1 .. Len(s) /\ Len(s) \in Nat
  OBVIOUS
<1>2. t \in [1 .. Len(s) -> T]
  BY <1>1
<1>3. t \in Seq(T)
  BY <1>1, <1>2
<1> QED BY <1>1, <1>2, <1>3

\* Settle writes the status, and when it is due.
LEMMA SettleWrites ==
  ASSUME mutations \in Seq(Mutation), NEW i \in DOMAIN mutations, NEW v \in MutationStatus,
         Settle(i, v)
  PROVE  /\ Rows("status")
         /\ \A j \in DOMAIN mutations :
              mutations'[j].status = IF j = i THEN v ELSE mutations[j].status
<1> DEFINE Written(row) == [row EXCEPT !.status = v, !.due = FALSE]
<1>1. \A row \in Mutation : /\ Written(row) \in Mutation
        /\ Written(row).desired = row.desired /\ Written(row).expected = row.expected
        /\ Written(row).writes = row.writes /\ Written(row).status = v
  BY DEF Mutation
<1>2. mutations' = [j \in DOMAIN mutations |-> IF j = i THEN Written(mutations[j]) ELSE mutations[j]]
  BY DEF Settle
<1> HIDE DEF Written
<1>3. \A j \in DOMAIN mutations : mutations[j] \in Mutation
  OBVIOUS
<1>4. /\ mutations' = [j \in DOMAIN mutations |-> mutations'[j]]
      /\ \A j \in DOMAIN mutations : mutations'[j] \in Mutation
  BY <1>1, <1>2, <1>3
<1>5. mutations' \in Seq(Mutation) /\ Len(mutations') = Len(mutations) /\ DOMAIN mutations' = DOMAIN mutations
  BY <1>4, SeqByElements
<1> QED BY <1>1, <1>2, <1>3, <1>5 DEF Rows

\* The history of a write, and the end of a delay.
Counts(i) == mutations' = [mutations EXCEPT ![i].writes = @ + 1]
FallsDue(i) == mutations' = [mutations EXCEPT ![i].due = TRUE]

\* Counting a write leaves the rest.
LEMMA WriteWrites ==
  ASSUME mutations \in Seq(Mutation), NEW i \in DOMAIN mutations, Counts(i)
  PROVE  /\ Rows("writes")
         /\ \A j \in DOMAIN mutations :
              mutations'[j].writes = IF j = i THEN mutations[j].writes + 1 ELSE mutations[j].writes
<1> DEFINE Written(row) == [row EXCEPT !.writes = @ + 1]
<1>1. \A row \in Mutation : /\ Written(row) \in Mutation
        /\ Written(row).desired = row.desired /\ Written(row).expected = row.expected
        /\ Written(row).writes = row.writes + 1 /\ Written(row).status = row.status
  <2> TAKE row \in Mutation
  <2>1. Written(row) = [desired |-> row.desired, expected |-> row.expected, status |-> row.status,
                        due |-> row.due, writes |-> row.writes + 1]
    BY DEF Mutation
  <2>2. row.writes + 1 \in Nat /\ row.desired \in Statuses /\ row.expected \in Statuses
        /\ row.status \in MutationStatus /\ row.due \in BOOLEAN
    BY DEF Mutation
  <2> HIDE DEF Written
  <2> QED BY <2>1, <2>2 DEF Mutation
<1>2. mutations' = [j \in DOMAIN mutations |-> IF j = i THEN Written(mutations[j]) ELSE mutations[j]]
  BY DEF Counts, FallsDue
<1> HIDE DEF Written
<1>3. \A j \in DOMAIN mutations : mutations[j] \in Mutation
  OBVIOUS
<1>4. /\ mutations' = [j \in DOMAIN mutations |-> mutations'[j]]
      /\ \A j \in DOMAIN mutations : mutations'[j] \in Mutation
  BY <1>1, <1>2, <1>3
<1>5. mutations' \in Seq(Mutation) /\ Len(mutations') = Len(mutations) /\ DOMAIN mutations' = DOMAIN mutations
  BY <1>4, SeqByElements
<1> QED BY <1>1, <1>2, <1>3, <1>5 DEF Rows

\* A delay leaves everything these proofs are about.
LEMMA DueWrites ==
  ASSUME mutations \in Seq(Mutation), NEW i \in DOMAIN mutations, FallsDue(i)
  PROVE  Rows("due")
<1> DEFINE Written(row) == [row EXCEPT !.due = TRUE]
<1>1. \A row \in Mutation : /\ Written(row) \in Mutation
        /\ Written(row).desired = row.desired /\ Written(row).expected = row.expected
        /\ Written(row).writes = row.writes /\ Written(row).status = row.status
  BY DEF Mutation
<1>2. mutations' = [j \in DOMAIN mutations |-> IF j = i THEN Written(mutations[j]) ELSE mutations[j]]
  BY DEF Counts, FallsDue
<1> HIDE DEF Written
<1>3. \A j \in DOMAIN mutations : mutations[j] \in Mutation
  OBVIOUS
<1>4. /\ mutations' = [j \in DOMAIN mutations |-> mutations'[j]]
      /\ \A j \in DOMAIN mutations : mutations'[j] \in Mutation
  BY <1>1, <1>2, <1>3
<1>5. mutations' \in Seq(Mutation) /\ Len(mutations') = Len(mutations) /\ DOMAIN mutations' = DOMAIN mutations
  BY <1>4, SeqByElements
<1> QED BY <1>1, <1>2, <1>3, <1>5 DEF Rows

\* The rows may be confirmed, and others appended, but none is written.
Extends(rows, more) ==
  /\ more \in Seq(Mutation) /\ Len(rows) <= Len(more)
  /\ \A j \in DOMAIN rows :
       /\ more[j].writes = rows[j].writes
       /\ more[j].status = rows[j].status \/ (more[j].status = "confirmed" /\ rows[j].status \notin {"failed", "confirmed"})
  /\ \A j \in DOMAIN more \ DOMAIN rows : more[j].writes = 0

\* _queue_linear_status_mutation appends a row.
LEMMA QueuedExtends ==
  ASSUME NEW rows \in Seq(Mutation), NEW desired \in Statuses, NEW expected \in Statuses
  PROVE  Extends(rows, Queued(rows, desired, expected))
<1> DEFINE r == [desired |-> desired, expected |-> expected,
                status |-> IF expected = desired THEN "confirmed" ELSE "pending",
                due |-> FALSE, writes |-> 0]
<1>1. r \in Mutation /\ r.writes = 0
  BY DEF Mutation, MutationStatus
<1> HIDE DEF r
<1>2. Queued(rows, desired, expected) = Append(rows, r)
  BY DEF Queued, r
<1> QED BY <1>1, <1>2 DEF Extends

\* Confirmed, for one row.
ConfirmedRow(row, status) ==
  IF row.desired = status /\ row.status \notin {"failed", "confirmed"}
  THEN [row EXCEPT !.status = "confirmed", !.due = FALSE] ELSE row

\* It changes the status only.
LEMMA ConfirmedRowIs ==
  ASSUME NEW row \in Mutation, NEW status
  PROVE  LET new == ConfirmedRow(row, status) IN
         /\ new \in Mutation /\ new.writes = row.writes
         /\ \/ new.status = row.status
            \/ new.status = "confirmed" /\ row.status \notin {"failed", "confirmed"}
<1> DEFINE Written == [row EXCEPT !.status = "confirmed", !.due = FALSE]
<1>1. /\ Written \in Mutation
      /\ Written.writes = row.writes /\ Written.status = "confirmed"
  BY DEF Mutation, MutationStatus
<1> HIDE DEF Written
<1>2. ConfirmedRow(row, status) =
        IF row.desired = status /\ row.status \notin {"failed", "confirmed"} THEN Written ELSE row
  BY DEF ConfirmedRow, Written
<1> QED BY <1>1, <1>2

\* _confirm_linear_status_mutations confirms rows.
LEMMA ConfirmedExtends ==
  ASSUME NEW rows \in Seq(Mutation), NEW status \in Statuses
  PROVE  Extends(rows, Confirmed(rows, status))
<1> DEFINE new == Confirmed(rows, status)
<1>1. new = [i \in DOMAIN rows |-> ConfirmedRow(rows[i], status)]
  BY DEF Confirmed, ConfirmedRow
<1> HIDE DEF new
<1>2. \A i \in DOMAIN rows : rows[i] \in Mutation /\ new[i] = ConfirmedRow(rows[i], status)
  BY <1>1
<1>3. \A i \in DOMAIN rows :
        /\ new[i] \in Mutation /\ new[i].writes = rows[i].writes
        /\ \/ new[i].status = rows[i].status
           \/ new[i].status = "confirmed" /\ rows[i].status \notin {"failed", "confirmed"}
  BY <1>2, ConfirmedRowIs
<1>4. new = [i \in DOMAIN rows |-> new[i]]
  BY <1>1
<1>5. new \in Seq(Mutation) /\ Len(new) = Len(rows) /\ DOMAIN new = DOMAIN rows
  BY <1>3, <1>4, SeqByElements
<1>6. Extends(rows, new)
  BY <1>3, <1>5 DEF Extends
<1> QED BY <1>6 DEF new

\* One after the other.
LEMMA ExtendsTwice ==
  ASSUME NEW r \in Seq(Mutation), NEW s, NEW t, Extends(r, s), Extends(s, t)
  PROVE  Extends(r, t)
<1>1. DOMAIN r = 1 .. Len(r) /\ Len(r) \in Nat
  OBVIOUS
<1>2. /\ s \in Seq(Mutation) /\ DOMAIN s = 1 .. Len(s) /\ Len(s) \in Nat
      /\ t \in Seq(Mutation) /\ DOMAIN t = 1 .. Len(t) /\ Len(t) \in Nat
  BY DEF Extends
<1>3. DOMAIN r \subseteq DOMAIN s /\ DOMAIN s \subseteq DOMAIN t /\ Len(r) <= Len(t)
  BY <1>1, <1>2 DEF Extends
<1>4. \A j \in DOMAIN r : t[j].writes = r[j].writes
  BY <1>3 DEF Extends
<1>5. \A j \in DOMAIN r : t[j].status = r[j].status \/ (t[j].status = "confirmed" /\ r[j].status \notin {"failed", "confirmed"})
  BY <1>3 DEF Extends
<1>6. \A j \in DOMAIN t \ DOMAIN r : t[j].writes = 0
  BY <1>3 DEF Extends
<1> QED BY <1>2, <1>3, <1>4, <1>5, <1>6 DEF Extends

\* Or nothing at all.
LEMMA ExtendsSelf == ASSUME NEW r \in Seq(Mutation) PROVE Extends(r, r)
BY DEF Extends

\* Every state has a status in Linear.
LEMMA StatusOfState == ASSUME NEW s \in States PROVE StatusOf[s] \in Statuses
BY GraphAssumption

-----------------------------------------------------------------------------
(* The kernel in it.                                                       *)

\* Reconciling an issue that was read is a step of the kernel, or none.
LEMMA ReconcileExtends ==
  ASSUME TypeOK, NEW read, Known(read), Reconcile(read)
  PROVE  /\ Extends(mutations, mutations') /\ seen' \subseteq 0 .. remote.rev
         /\ proposer' \in {"human", "factory"}
         /\ UNCHANGED kernelVars \/ KernelNext
<1>1. /\ read.status \in Statuses /\ read.rev \in 0 .. remote.rev
      /\ read.by \in {"human", "factory"}
  BY DEF Known, Issue, TypeOK
<1>2. /\ KernelTypeOK /\ mutations \in Seq(Mutation) /\ observed \in Statuses
      /\ seen \subseteq 0 .. remote.rev /\ proposer \in {"human", "factory"}
  BY DEF TypeOK, KernelTypeOK
<1>3. CASE read.rev \in seen
  BY <1>2, <1>3, ExtendsSelf DEF Reconcile
<1>4. CASE read.rev \notin seen
  <2>1. /\ seen' = seen \cup {read.rev} /\ ObserveStatus(read.status)
        /\ ObservationQueues(read.status)
        /\ proposer' = IF Deferred(read.status) \/ Accepted(read.status)
                       THEN read.by ELSE proposer
    BY <1>4, Zenon DEF Reconcile
  <2>2. Desired \in Statuses
    BY <1>2, CurrentType, StatusOfState DEF Desired
  <2>3. Extends(mutations, Confirmed(mutations, read.status))
    BY <1>1, <1>2, ConfirmedExtends
  <2>4. Extends(mutations, Queued(mutations, Desired, read.status))
    BY <1>1, <1>2, <2>2, QueuedExtends
  <2>5. Extends(mutations, Confirmed(Queued(mutations, read.status, read.status), read.status))
    <3> DEFINE more == Queued(mutations, read.status, read.status)
    <3>1. Extends(mutations, more)
      BY <1>1, <1>2, QueuedExtends
    <3>2. more \in Seq(Mutation)
      BY <3>1 DEF Extends
    <3> HIDE DEF more
    <3>3. Extends(more, Confirmed(more, read.status))
      BY <3>2, <1>1, ConfirmedExtends
    <3>4. Extends(mutations, Confirmed(more, read.status))
      BY <1>2, <3>1, <3>3, ExtendsTwice
    <3> QED BY <3>4 DEF more
  <2>6. Extends(mutations, mutations')
    <3>1. CASE NoChange(read.status)
      BY <3>1, <2>1, <2>3 DEF ObservationQueues, NoChange, Rejected, Deferred, Accepted
    <3>2. CASE Rejected(read.status)
      <4>1. ~NoChange(read.status)
        BY <3>2 DEF Rejected
      <4> QED BY <3>2, <4>1, <2>1, <2>4 DEF ObservationQueues, NoChange, Rejected, Deferred,
        Accepted
    <3>3. CASE Deferred(read.status)
      <4>1. ~NoChange(read.status) /\ ~Rejected(read.status)
        BY <3>3 DEF Rejected, Deferred
      <4> QED BY <3>3, <4>1, <2>1, <1>2, ExtendsSelf DEF ObservationQueues, NoChange,
        Rejected, Deferred, Accepted
    <3>4. CASE Accepted(read.status) /\ ~Deferred(read.status)
      <4>1. ~NoChange(read.status) /\ ~Rejected(read.status)
        BY <3>4 DEF Rejected, Accepted
      <4> QED BY <3>4, <4>1, <2>1, <2>5 DEF ObservationQueues, NoChange, Rejected, Deferred,
        Accepted
    <3> QED BY <3>1, <3>2, <3>3, <3>4 DEF Rejected
  <2>7. KernelNext
    BY <1>1, <2>1 DEF KernelNext
  <2> QED BY <1>1, <1>2, <2>1, <2>6, <2>7
<1> QED BY <1>3, <1>4

\* A transition queues the status of the state it enters.
LEMMA TransitionExtends ==
  ASSUME TypeOK, KernelTypeOK', TransitionQueues
  PROVE  Extends(mutations, mutations') /\ UNCHANGED <<seen, proposer>>
<1>1. runs' \in Seq(Run) /\ runs' # <<>>
  BY DEF KernelTypeOK
<1>2. Len(runs') \in DOMAIN runs'
  BY <1>1
<1>r. runs'[Len(runs')] \in Run
  BY <1>1, <1>2
<1>3. runs'[Len(runs')].state \in States
  BY <1>r DEF Run
<1>4. StatusOf[runs'[Len(runs')].state] \in Statuses
  BY <1>3, StatusOfState
<1>5. observed \in Statuses /\ mutations \in Seq(Mutation)
  BY DEF TypeOK, KernelTypeOK
<1> QED BY <1>4, <1>5, QueuedExtends DEF TransitionQueues

\* Every step of the runtime, of people and of Linear is a step of the kernel or
\* leaves it alone.
LEMMA KernelSteps ==
  ASSUME LinearInv, Next
  PROVE  UNCHANGED kernelVars \/ KernelNext
<1>t. TypeOK /\ HoldsInv
  BY DEF LinearInv
<1>1. CASE ObserveIssue
  BY <1>1, <1>t, ReconcileExtends DEF ObserveIssue, HoldsInv
<1>2. CASE LiveObserve
  BY <1>2, <1>t, ReconcileExtends DEF LiveObserve, HoldsInv
<1>3. CASE Deliver
  BY <1>3 DEF Deliver, StartMutation, SettleWithoutWrite, WriteStatus, ReadBack, Drained,
    ReadFails, WriteRefused, WriteRejected, WriteLost, WriteUnanswered, WriteFails, ReadBackFails
<1>4. CASE Claim
  BY <1>4 DEF Claim, ClaimHandoff, ClaimCheckpoint, ClaimNothing, ClaimHeld, KernelNext
<1>5. CASE TickEnds \/ LiveRead \/ Poll
  BY <1>5 DEF TickEnds, LiveRead, Poll
<1>6. CASE \E label \in Labels : AttemptCompletes(label)
  BY <1>6 DEF AttemptCompletes, KernelNext
<1>7. CASE Environment
  BY <1>7 DEF Environment, OperatorCommands, HumanEdits, DelayElapses, WriteLands, Crash,
    Restart, KernelNext
<1> QED BY <1>1, <1>2, <1>3, <1>4, <1>5, <1>6, <1>7 DEF Next, RuntimeStep, Tick

\* So the kernel stays well typed.
LEMMA KernelTypes ==
  ASSUME LinearInv, Next
  PROVE  KernelTypeOK'
<1>1. KernelTypeOK
  BY DEF LinearInv, TypeOK
<1>2. CASE UNCHANGED kernelVars
  BY <1>1, <1>2 DEF kernelVars, KernelTypeOK
<1> QED BY <1>1, <1>2, KernelSteps, KernelNextType

-----------------------------------------------------------------------------
(* Rows, reads and writes.                                                 *)

\* TypeOK without the kernel, in two parts: the rows, and the rest.
RowsTyped ==
  /\ remote \in Issue
  /\ late \in DOMAIN mutations \cup {NoWrite}
  /\ seen \subseteq 0 .. remote.rev
  /\ mutations \in Seq(Mutation)
  /\ sending \in 0 .. Len(mutations)

\* What the control thread holds.
ThreadTyped ==
  /\ at \in {"down", "idle", "observe", "drain", "sent", "readback", "claim", "tick",
            "recover"}
  /\ phase \in {"polled", "claimed", "ticked"}
  /\ issue \in Issue \cup {NoIssue} /\ live \in Issue \cup {NoIssue}
  /\ proposer \in {"human", "factory"}

\* The bounds that were used up.
SpentTyped ==
  spent \in [edits : 0 .. MaxEdits, faults : 0 .. MaxFaults,
             control : 0 .. MaxControl, crashes : 0 .. MaxCrashes]

\* The parts are the whole.
LEMMA TypeParts == TypeOK <=> KernelTypeOK /\ RowsTyped /\ ThreadTyped /\ SpentTyped
BY DEF TypeOK, RowsTyped, ThreadTyped, SpentTyped

\* What is proved of rows, reads and writes together.
Safe == RowsTyped /\ HoldsInv /\ ("readback" \notin Faults => WritesInv)

\* pending_linear_mutations returns a row that may be sent.
LEMMA NextIsSendable ==
  ASSUME mutations \in Seq(Mutation), SomeSendable
  PROVE  NextSendable \in DOMAIN mutations /\ Sendable(mutations[NextSendable])
<1> DEFINE S == {i \in DOMAIN mutations : Sendable(mutations[i])}
<1>1. S \subseteq Nat /\ S # {}
  BY DEF SomeSendable
<1> HIDE DEF S
<1>2. PICK m \in S : \A k \in S : ~ (k < m)
  <2>1. PICK m \in S : \A k \in S : ~ (<<k, m>> \in OpToRel(<, Nat))
    BY <1>1, NatLessThanWellFounded, WFMin
  <2> QED
    BY <1>1, <2>1 DEF OpToRel
<1>3. \A k \in S : m <= k
  BY <1>1, <1>2
<1>4. /\ m \in DOMAIN mutations /\ Sendable(mutations[m])
      /\ \A j \in DOMAIN mutations : Sendable(mutations[j]) => m <= j
  BY <1>3 DEF S
<1> QED BY <1>4, Zenon DEF NextSendable

\* Observations and transitions: rows are confirmed or appended.
LEMMA ExtendsSafe ==
  ASSUME Safe, Extends(mutations, mutations'), seen' \subseteq 0 .. remote.rev,
         UNCHANGED <<remote, late, sending>>, live' \in {live, NoIssue},
         at' \notin {"observe", "sent", "readback"}
  PROVE  Safe'
<1>1. /\ DOMAIN mutations = 1 .. Len(mutations) /\ Len(mutations) \in Nat
      /\ DOMAIN mutations' = 1 .. Len(mutations') /\ Len(mutations') \in Nat
      /\ mutations' \in Seq(Mutation)
  BY DEF Safe, RowsTyped, Extends
<1>2. DOMAIN mutations \subseteq DOMAIN mutations' /\ Len(mutations) <= Len(mutations')
  BY <1>1 DEF Extends
<1>3. RowsTyped'
  BY <1>1, <1>2 DEF Safe, RowsTyped
<1>4. HoldsInv'
  BY DEF Safe, HoldsInv, Known
<1>5. ASSUME WritesInv PROVE WritesInv'
  <2>1. \A i \in DOMAIN mutations' : mutations'[i].writes = IF i \in DOMAIN mutations THEN mutations[i].writes ELSE 0
    BY <1>1, <1>2 DEF Extends
  <2>2. \A i \in DOMAIN mutations : \/ mutations'[i].status = mutations[i].status
                                   \/ mutations'[i].status = "confirmed"
    BY DEF Extends
  <2>3. AppliedOnce'
    BY <1>5, <2>1 DEF WritesInv, AppliedOnce
  <2>4. \A i \in DOMAIN mutations' : mutations'[i].status \in {"pending", "retry"} => mutations'[i].writes = 0
    BY <1>5, <2>1, <2>2 DEF WritesInv
  <2>5. late' # NoWrite =>
       /\ late' \in DOMAIN mutations' /\ mutations'[late'].writes = 0
       /\ mutations'[late'].status \in {"ambiguous", "confirmed"}
    BY <1>2, <1>5, <2>1, <2>2 DEF WritesInv
  <2> QED BY <2>3, <2>4, <2>5 DEF WritesInv
<1> QED BY <1>3, <1>4, <1>5 DEF Safe

\* A row is settled: the one being delivered, or the one taken up.
LEMMA SettleSafe ==
  ASSUME Safe, NEW i \in DOMAIN mutations, NEW v \in MutationStatus, Settle(i, v),
         UNCHANGED <<remote, seen, live>>, late' \in DOMAIN mutations \cup {NoWrite},
         sending' \in 0 .. Len(mutations),
         at' = "observe" => Known(issue'),
         at' = "sent" => Known(issue') /\ sending' = i /\ v = "sending",
         at' # "readback",
         "readback" \notin Faults =>
           /\ v \in {"pending", "retry"} \/ at' = "sent" => mutations[i].writes = 0
           /\ \/ late' = NoWrite
              \/ late' = late /\ (late # i \/ v \in {"ambiguous", "confirmed"})
              \/ late' = i /\ v = "ambiguous" /\ mutations[i].writes = 0
  PROVE  Safe'
<1>s. mutations \in Seq(Mutation) /\ Len(mutations) \in Nat
  BY DEF Safe, RowsTyped
<1>1. /\ Rows("status")
      /\ \A j \in DOMAIN mutations :
           mutations'[j].status = IF j = i THEN v ELSE mutations[j].status
  BY <1>s, SettleWrites
<1>2. /\ DOMAIN mutations' = DOMAIN mutations /\ Len(mutations') = Len(mutations)
      /\ mutations' \in Seq(Mutation)
      /\ \A j \in DOMAIN mutations : mutations'[j].writes = mutations[j].writes
  BY <1>1 DEF Rows
<1>3. RowsTyped'
  BY <1>2 DEF Safe, RowsTyped
<1>4. HoldsInv'
  BY <1>1, <1>2 DEF Safe, HoldsInv, Known
<1>5. ASSUME "readback" \notin Faults PROVE WritesInv'
  <2>1. WritesInv
    BY <1>5 DEF Safe
  <2>2. AppliedOnce'
    BY <2>1, <1>2 DEF WritesInv, AppliedOnce
  <2>3. \A j \in DOMAIN mutations' : mutations'[j].status \in {"pending", "retry"} => mutations'[j].writes = 0
    BY <2>1, <1>1, <1>2, <1>5 DEF WritesInv
  <2>4. at' = "sent" => mutations'[sending'].writes = 0
    BY <1>2, <1>5
  <2>5. late' # NoWrite =>
       /\ late' \in DOMAIN mutations' /\ mutations'[late'].writes = 0
       /\ mutations'[late'].status \in {"ambiguous", "confirmed"}
    BY <2>1, <1>1, <1>2, <1>5 DEF WritesInv
  <2> QED BY <2>2, <2>3, <2>4, <2>5 DEF WritesInv
<1> QED BY <1>3, <1>4, <1>5 DEF Safe

\* Nothing is written to the rows.
LEMMA QuietSafe ==
  ASSUME Safe, UNCHANGED <<mutations, seen, late>>, remote' \in Issue, remote.rev <= remote'.rev,
         sending' \in {0, sending}, issue' = issue \/ Known(issue') \/ at' \notin {"observe", "sent"},
         live' \in {live, NoIssue} \/ Known(live'),
         \/ at' = at /\ sending' = sending
         \/ at' \notin {"observe", "sent", "readback"}
         \/ at' = "observe" /\ Known(issue')
  PROVE  Safe'
<1>1. remote.rev \in Nat /\ remote'.rev \in Nat /\ Len(mutations) \in Nat
  BY DEF Safe, RowsTyped, Issue
<1>2. \A read : Known(read) => read \in Issue /\ read.rev \in Nat /\ read.rev <= remote'.rev
  BY <1>1 DEF Known, Issue
<1>3. RowsTyped'
  BY <1>1 DEF Safe, RowsTyped
<1>4. HoldsInv'
  <2>1. at' \in {"observe", "sent"} => Known(issue) \/ Known(issue')
    BY DEF Safe, HoldsInv
  <2>2. at' \in {"observe", "sent"} => Known(issue')
    BY <2>1 DEF Safe, HoldsInv
  <2>3. live' # NoIssue => Known(live')
    BY DEF Safe, HoldsInv
  <2>4. \A read : Known(read) => Known(read)'
    BY <1>2 DEF Known
  <2> QED BY <2>2, <2>3, <1>2 DEF Safe, HoldsInv, Known
<1>5. WritesInv => WritesInv'
  BY DEF WritesInv, AppliedOnce
<1> QED BY <1>3, <1>4, <1>5 DEF Safe

\* What Linear shows now was read from it.
LEMMA IssueKnown == ASSUME Safe PROVE Known(remote)
BY DEF Safe, RowsTyped, Known, Issue

\* The arithmetic of rows and revisions.
LEMMA SafeNumbers ==
  ASSUME Safe
  PROVE  /\ mutations \in Seq(Mutation) /\ Len(mutations) \in Nat /\ 0 \in 0 .. Len(mutations)
         /\ DOMAIN mutations = 1 .. Len(mutations) /\ DOMAIN mutations \subseteq 0 .. Len(mutations)
         /\ remote \in Issue /\ remote.rev \in Nat /\ remote.rev <= remote.rev
BY DEF Safe, RowsTyped, Issue

\* Observations, claims, results and commands.
LEMMA ObserveSteps ==
  ASSUME LinearInv, Safe, KernelTypeOK',
         \/ ObserveIssue \/ LiveObserve \/ ClaimHandoff \/ ClaimCheckpoint
         \/ (\E label \in Labels : AttemptCompletes(label)) \/ (\E e \in Edges : OperatorCommands(e))
  PROVE  Safe' /\ proposer' \in {"human", "factory"}
<1>t. TypeOK /\ HoldsInv /\ seen \subseteq 0 .. remote.rev /\ mutations \in Seq(Mutation)
      /\ proposer \in {"human", "factory"}
  BY DEF LinearInv, TypeOK
<1>1. CASE ObserveIssue
  <2>1. Known(issue) /\ Reconcile(issue)
    BY <1>1, <1>t DEF ObserveIssue, HoldsInv
  <2> QED BY <1>1, <1>t, <2>1, ReconcileExtends, ExtendsSafe DEF ObserveIssue
<1>2. CASE LiveObserve
  <2>1. live # NoIssue /\ at = "tick" /\ at' = at /\ live' = NoIssue /\ UNCHANGED <<remote, late, sending>>
    BY <1>2 DEF LiveObserve
  <2>2. CASE Running
    <3>1. Known(live) /\ Reconcile(live)
      BY <1>2, <1>t, <2>1, <2>2 DEF LiveObserve, HoldsInv
    <3> QED BY <1>t, <2>1, <3>1, ReconcileExtends, ExtendsSafe
  <2>3. CASE ~Running
    <3>1. UNCHANGED <<seen, mutations, proposer>>
      BY <1>2, <2>3 DEF LiveObserve
    <3> QED BY <1>t, <2>1, <3>1, ExtendsSelf, ExtendsSafe
  <2> QED BY <2>2, <2>3
<1>3. CASE ClaimHandoff
  <2>1. request \in Requests
    BY <1>3, <1>t DEF ClaimHandoff, ClaimPendingTransition, TypeOK, KernelTypeOK
  <2>2. request.status \in Statuses
    BY <2>1 DEF Requests
  <2> DEFINE more == Queued(mutations, request.status, request.status)
  <2>3. Extends(mutations, more)
    BY <1>t, <2>2, QueuedExtends
  <2>4. more \in Seq(Mutation)
    BY <2>3 DEF Extends
  <2> HIDE DEF more
  <2>5. Extends(more, Confirmed(more, request.status))
    BY <2>2, <2>4, ConfirmedExtends
  <2>6. Extends(mutations, Confirmed(more, request.status))
    BY <1>t, <2>3, <2>5, ExtendsTwice
  <2>7. Extends(mutations, mutations')
    BY <1>3, <2>6 DEF more, ClaimHandoff
  <2> QED BY <1>3, <1>t, <2>7, ExtendsSafe DEF ClaimHandoff, Claimed
<1>4. CASE ClaimCheckpoint
  BY <1>4, <1>t, TransitionExtends, ExtendsSafe DEF ClaimCheckpoint, Claimed
<1>5. CASE \E label \in Labels : AttemptCompletes(label)
  BY <1>5, <1>t, TransitionExtends, ExtendsSafe DEF AttemptCompletes, Ticked
<1>6. CASE \E e \in Edges : OperatorCommands(e)
  BY <1>6, <1>t, TransitionExtends, ExtendsSafe DEF OperatorCommands
<1> QED BY <1>1, <1>2, <1>3, <1>4, <1>5, <1>6

\* The steps of drain_one around the write.
LEMMA DeliverySteps ==
  ASSUME LinearInv, Safe,
         \/ StartMutation \/ SettleWithoutWrite \/ ReadBack \/ ReadBackFails
         \/ WriteRefused \/ WriteRejected \/ WriteLost \/ WriteUnanswered
  PROVE  Safe'
<1>n. /\ mutations \in Seq(Mutation) /\ Len(mutations) \in Nat /\ 0 \in 0 .. Len(mutations)
      /\ DOMAIN mutations = 1 .. Len(mutations) /\ DOMAIN mutations \subseteq 0 .. Len(mutations)
      /\ remote \in Issue /\ remote.rev \in Nat /\ remote.rev <= remote.rev
      /\ late \in DOMAIN mutations \cup {NoWrite} /\ sending \in 0 .. Len(mutations)
  BY SafeNumbers DEF Safe, RowsTyped
<1>m. /\ \A v \in {"pending", "retry", "sending", "ambiguous", "failed", "confirmed", "conflict"} :
           v \in MutationStatus
  BY DEF MutationStatus
<1>h. HoldsInv /\ Known(remote)
  BY IssueKnown DEF Safe
<1>w. "readback" \notin Faults => WritesInv
  BY DEF Safe
<1>1. CASE StartMutation
  <2>1. /\ NextSendable \in DOMAIN mutations
        /\ mutations[NextSendable].status \in {"pending", "retry"}
    BY <1>1, <1>n, NextIsSendable DEF StartMutation, Sendable
  <2>2. "readback" \notin Faults => mutations[NextSendable].writes = 0 /\ (late # NextSendable \/ late = NoWrite)
    BY <2>1, <1>w DEF WritesInv
  <2> DEFINE i == NextSendable
  <2>3. /\ Settle(i, "sending") /\ UNCHANGED <<remote, seen, live, late>> /\ sending' = i
        /\ at' = "sent" /\ issue' = remote
    BY <1>1 DEF StartMutation
  <2>4. Known(issue')
    BY <2>3, <1>h
  <2> HIDE DEF i
  <2>5. i \in DOMAIN mutations /\ i \in 0 .. Len(mutations)
    BY <2>1, <1>n DEF i
  <2>6. "readback" \notin Faults => mutations[i].writes = 0 /\ mutations[i].status \in {"pending", "retry"}
    BY <2>1, <2>2 DEF i
  <2>7. Known(issue)' 
    BY <2>4, <2>3 DEF Known
  <2>8. "readback" \notin Faults => late' = NoWrite \/ (late' = late /\ late # i)
    BY <2>2, <2>3 DEF i
  <2> QED BY <1>n, <1>m, <2>3, <2>4, <2>5, <2>6, <2>8, SettleSafe
<1>2. CASE at = "sent" \/ at = "readback"
  <2>1. sending \in DOMAIN mutations /\ mutations[sending].status = "sending"
    BY <1>2, <1>h DEF HoldsInv
  <2>2. "readback" \notin Faults => late # sending \/ late = NoWrite
    BY <2>1, <1>w DEF WritesInv
  <2>3. "readback" \notin Faults /\ at = "sent" => mutations[sending].writes = 0
    BY <1>w DEF WritesInv
  <2>4. CASE SettleWithoutWrite
    <3>1. Known(issue) /\ issue' = issue /\ UNCHANGED remote
      BY <1>h, <2>4 DEF SettleWithoutWrite, HoldsInv
    <3>2. PICK v \in {"confirmed", "conflict"} : Settle(sending, v)
      BY <2>4 DEF SettleWithoutWrite
    <3>3. /\ UNCHANGED <<seen, live, late>> /\ sending' = 0 /\ at' = "observe"
      BY <2>4 DEF SettleWithoutWrite
    <3> QED BY <1>n, <1>m, <2>1, <2>2, <3>1, <3>2, <3>3, SettleSafe
  <2>5. CASE ReadBack
    <3>1. Known(issue') /\ UNCHANGED remote
      BY <1>h, <2>5 DEF ReadBack
    <3>2. PICK v \in {"confirmed", "conflict"} : Settle(sending, v)
      BY <2>5 DEF ReadBack
    <3>3. /\ UNCHANGED <<seen, live, late>> /\ sending' = 0 /\ at' = "observe"
      BY <2>5 DEF ReadBack
    <3> QED BY <1>n, <1>m, <2>1, <2>2, <3>1, <3>2, <3>3, SettleSafe
  <2>6. CASE ReadBackFails
    BY <1>n, <1>m, <1>h, <2>1, <2>2, <2>6, SettleSafe DEF ReadBackFails, HoldsInv, MayFail
  <2>7. CASE WriteRefused \/ WriteRejected \/ WriteLost
    <3>1. PICK v \in {"retry", "failed", "ambiguous"} : Settle(sending, v)
      BY <2>7 DEF WriteRefused, WriteRejected, WriteLost, WriteFails
    <3>2. /\ UNCHANGED <<remote, seen, live, late>> /\ sending' = 0 /\ at' = "recover" /\ at = "sent"
      BY <2>7 DEF WriteRefused, WriteRejected, WriteLost, WriteFails, Writable
    <3> QED BY <1>n, <1>m, <2>1, <2>2, <2>3, <3>1, <3>2, SettleSafe
  <2>8. CASE WriteUnanswered
    BY <1>n, <1>m, <1>h, <2>1, <2>2, <2>3, <2>8, SettleSafe
    DEF WriteUnanswered, WriteFails, Writable, HoldsInv
  <2> QED BY <1>1, <1>2, <2>4, <2>5, <2>6, <2>7, <2>8 DEF StartMutation
<1> QED BY <1>1, <1>2 DEF SettleWithoutWrite, ReadBack, ReadBackFails, WriteRefused,
  WriteRejected,
  WriteLost, WriteUnanswered, WriteFails, Writable

\* Linear never shows an earlier revision.
LEMMA ApplyWrites ==
  ASSUME Safe, NEW i \in DOMAIN mutations, Apply(i)
  PROVE  remote' \in Issue /\ remote.rev <= remote'.rev
<1>1. mutations[i] \in Mutation /\ remote \in Issue
  BY SafeNumbers
<1>2. mutations[i].desired \in Statuses /\ remote.rev \in Nat
  BY <1>1 DEF Mutation, Issue
<1>3. remote.rev + 1 \in Nat /\ remote.rev <= remote.rev + 1 /\ remote.rev <= remote.rev
  BY <1>2
<1> QED BY <1>1, <1>2, <1>3 DEF Apply, Issue

\* Linear applies the write being made, or one whose answer was given up.
LEMMA WriteSteps ==
  ASSUME Safe, WriteStatus \/ WriteLands
  PROVE  Safe'
<1>h. HoldsInv
  BY DEF Safe
<1>1. PICK i \in DOMAIN mutations :
        /\ Apply(i) /\ Counts(i) /\ UNCHANGED <<seen, issue, live, sending>>
        /\ \/ at = "sent" /\ at' = "readback" /\ late' = late /\ i = sending
           \/ late # NoWrite /\ late' = NoWrite /\ at' = at /\ i = late
  <2>1. CASE WriteStatus
    <3>1. at = "sent" /\ sending \in DOMAIN mutations
      BY <2>1, <1>h DEF WriteStatus, Writable, HoldsInv
    <3> QED BY <2>1, <3>1 DEF WriteStatus, Counts
  <2>2. CASE WriteLands
    <3>1. late \in DOMAIN mutations
      BY <2>2 DEF WriteLands, Safe, RowsTyped
    <3> QED BY <2>2, <3>1 DEF WriteLands, Counts
  <2> QED BY <2>1, <2>2
<1>2. remote' \in Issue /\ remote.rev <= remote'.rev /\ remote.rev \in Nat /\ remote'.rev \in Nat
  BY <1>1, ApplyWrites, SafeNumbers DEF Issue
<1>3. /\ Rows("writes")
      /\ \A j \in DOMAIN mutations :
           mutations'[j].writes = IF j = i THEN mutations[j].writes + 1 ELSE mutations[j].writes
  BY <1>1, SafeNumbers, WriteWrites
<1>4. /\ DOMAIN mutations' = DOMAIN mutations /\ Len(mutations') = Len(mutations)
      /\ mutations' \in Seq(Mutation)
      /\ \A j \in DOMAIN mutations : mutations'[j].status = mutations[j].status
  BY <1>3 DEF Rows
<1>5. RowsTyped'
  <2>1. seen' \subseteq 0 .. remote'.rev
    BY <1>1, <1>2 DEF Safe, RowsTyped
  <2>2. late' \in DOMAIN mutations \cup {NoWrite}
    BY <1>1 DEF Safe, RowsTyped
  <2> QED BY <1>1, <1>2, <1>4, <2>1, <2>2 DEF Safe, RowsTyped
<1>6. HoldsInv'
  <2>1. \A read : Known(read) => read \in Issue /\ read.rev \in Nat /\ read.rev <= remote'.rev
    BY <1>2 DEF Known, Issue
  <2>2. at' \in {"observe", "sent"} => Known(issue)
    BY <1>1, <1>h DEF HoldsInv
  <2>3. live' # NoIssue => Known(live)
    BY <1>1, <1>h DEF HoldsInv
  <2>4. at' \in {"sent", "readback"} =>
       sending \in DOMAIN mutations /\ mutations[sending].status = "sending"
    BY <1>1, <1>h DEF HoldsInv
  <2> QED BY <1>1, <1>4, <2>1, <2>2, <2>3, <2>4 DEF HoldsInv, Known
<1>7. ASSUME "readback" \notin Faults PROVE WritesInv'
  <2>1. WritesInv
    BY <1>7 DEF Safe
  <2>2. mutations[i].writes = 0 /\ mutations[i].status \notin {"pending", "retry"}
    BY <1>1, <1>h, <2>1 DEF WritesInv, HoldsInv
  <2>3. AppliedOnce'
    BY <1>3, <1>4, <2>1, <2>2 DEF AppliedOnce, WritesInv
  <2>4. \A j \in DOMAIN mutations' : mutations'[j].status \in {"pending", "retry"} => mutations'[j].writes = 0
    BY <1>3, <1>4, <2>1, <2>2 DEF WritesInv
  <2>5. late # NoWrite =>
       /\ late \in DOMAIN mutations /\ mutations[late].writes = 0
       /\ mutations[late].status \in {"ambiguous", "confirmed"}
    BY <2>1 DEF WritesInv
  <2>6. late' # NoWrite => late' = late /\ late # i
    BY <1>1, <2>5, <1>h DEF HoldsInv
  <2>7. at' = "sent" => late # NoWrite /\ i = late /\ at = "sent" /\ sending' = sending
    BY <1>1
  <2>8. at' = "sent" => mutations'[sending'].writes = 0
    BY <1>3, <1>h, <2>1, <2>5, <2>7 DEF WritesInv, HoldsInv
  <2>9. late' # NoWrite =>
       /\ late' \in DOMAIN mutations' /\ mutations'[late'].writes = 0
       /\ mutations'[late'].status \in {"ambiguous", "confirmed"}
    BY <1>3, <1>4, <2>5, <2>6
  <2> QED BY <2>3, <2>4, <2>8, <2>9 DEF WritesInv
<1> QED BY <1>5, <1>6, <1>7 DEF Safe

\* A delay elapses.
LEMMA DelaySafe ==
  ASSUME Safe, NEW i \in DOMAIN mutations, DelayElapses(i)
  PROVE  Safe'
<1>1. FallsDue(i) /\ UNCHANGED <<remote, late, seen, at, issue, sending, live>>
  BY DEF DelayElapses, FallsDue
<1>2. Rows("due")
  BY <1>1, SafeNumbers, DueWrites
<1>3. /\ DOMAIN mutations' = DOMAIN mutations /\ Len(mutations') = Len(mutations)
      /\ mutations' \in Seq(Mutation)
      /\ \A j \in DOMAIN mutations : /\ mutations'[j].status = mutations[j].status
                                     /\ mutations'[j].writes = mutations[j].writes
  BY <1>2 DEF Rows
<1>4. RowsTyped'
  BY <1>1, <1>3 DEF Safe, RowsTyped
<1>5. HoldsInv'
  BY <1>1, <1>3 DEF Safe, HoldsInv, Known
<1>6. ASSUME WritesInv PROVE WritesInv'
  <2>1. AppliedOnce'
    BY <1>3, <1>6 DEF WritesInv, AppliedOnce
  <2>2. \A j \in DOMAIN mutations' : mutations'[j].status \in {"pending", "retry"} => mutations'[j].writes = 0
    BY <1>3, <1>6 DEF WritesInv
  <2>3. at' = "sent" => mutations'[sending'].writes = 0
    BY <1>1, <1>3, <1>6 DEF Safe, HoldsInv, WritesInv
  <2>4. late' # NoWrite =>
       /\ late' \in DOMAIN mutations' /\ mutations'[late'].writes = 0
       /\ mutations'[late'].status \in {"ambiguous", "confirmed"}
    BY <1>1, <1>3, <1>6 DEF WritesInv
  <2> QED BY <2>1, <2>2, <2>3, <2>4 DEF WritesInv
<1> QED BY <1>4, <1>5, <1>6 DEF Safe

\* Steps that leave the rows alone.
LEMMA QuietSteps ==
  ASSUME LinearInv, Safe,
         \/ Poll \/ ReadFails \/ Drained \/ ClaimNothing \/ ClaimHeld \/ TickEnds \/ LiveRead
         \/ Crash \/ Restart \/ \E status \in Statuses : HumanEdits(status)
  PROVE  Safe'
<1>n. remote \in Issue /\ remote.rev \in Nat /\ remote.rev <= remote.rev /\ Known(remote)
  BY SafeNumbers, IssueKnown
<1>1. CASE Poll
  <2>1. /\ UNCHANGED <<mutations, seen, late, remote, sending, live>>
        /\ at' = "drain" \/ (at' = "observe" /\ Known(issue'))
    BY <1>1, <1>n DEF Poll
  <2> QED BY <1>n, <2>1, QuietSafe
<1>2. CASE ReadFails \/ ClaimNothing \/ ClaimHeld \/ TickEnds
  BY <1>2, <1>n, QuietSafe DEF ReadFails, ClaimNothing, ClaimHeld, Claimed, TickEnds, Ticked
<1>3. CASE Drained
  <2>1. UNCHANGED <<mutations, seen, late, remote, sending, live, issue>> /\ phase \in {"polled", "claimed", "ticked"}
    BY <1>3 DEF Drained, LinearInv, TypeOK
  <2>2. at' \in {"claim", "tick", "idle"}
    BY <1>3, <2>1 DEF Drained
  <2> QED BY <1>n, <2>1, <2>2, QuietSafe
<1>4. CASE LiveRead
  <2>1. UNCHANGED <<mutations, seen, late, remote, sending, at, issue>> /\ Known(live')
    BY <1>4, <1>n DEF LiveRead
  <2> QED BY <1>n, <2>1, QuietSafe
<1>5. CASE Crash
  BY <1>5, <1>n, QuietSafe DEF Crash
<1>6. CASE Restart
  BY <1>6, <1>n, QuietSafe DEF Restart
<1>7. ASSUME NEW status \in Statuses, HumanEdits(status) PROVE Safe'
  <2>1. /\ UNCHANGED <<mutations, seen, late, sending, at, issue, live>>
        /\ remote' = [status |-> status, rev |-> remote.rev + 1, by |-> "human"]
    BY <1>7 DEF HumanEdits
  <2>2. remote' \in Issue /\ remote.rev <= remote'.rev
    BY <1>n, <2>1 DEF Issue
  <2> QED BY <2>1, <2>2, QuietSafe
<1> QED BY <1>1, <1>2, <1>3, <1>4, <1>5, <1>6, <1>7

\* Every step keeps them.
LEMMA SafeStep == ASSUME LinearInv, Safe, Next PROVE Safe'
<1>1. KernelTypeOK'
  BY KernelTypes
<1> QED BY <1>1, ObserveSteps, DeliverySteps, WriteSteps, DelaySafe, QuietSteps
  DEF Next, RuntimeStep, Environment, Deliver, Claim, Tick

\* Every step keeps the types of the control thread.
LEMMA ThreadStep ==
  ASSUME LinearInv, Safe, Next
  PROVE  ThreadTyped'
<1>t. ThreadTyped /\ TypeOK /\ HoldsInv /\ remote \in Issue
  BY TypeParts DEF LinearInv, TypeOK
<1>0. KernelTypeOK'
  BY KernelTypes
<1>k. \A read : Known(read) => read \in Issue
  BY DEF Known
<1>p. proposer' \in {"human", "factory"}
  <2>1. CASE \/ ObserveIssue \/ LiveObserve \/ ClaimHandoff \/ ClaimCheckpoint
             \/ (\E label \in Labels : AttemptCompletes(label)) \/ (\E e \in Edges : OperatorCommands(e))
    BY <1>0, <2>1, ObserveSteps
  <2>2. CASE ~(\/ ObserveIssue \/ LiveObserve \/ ClaimHandoff \/ ClaimCheckpoint
             \/ (\E label \in Labels : AttemptCompletes(label)) \/ (\E e \in Edges : OperatorCommands(e)))
    <3>1. proposer' = proposer
      BY <2>2 DEF Next, RuntimeStep, Environment, Deliver, Claim, Tick, StartMutation,
        SettleWithoutWrite,
        WriteStatus, ReadBack, Drained, ReadFails, WriteRefused, WriteRejected, WriteLost, WriteUnanswered,
        WriteFails, ReadBackFails, ClaimNothing, ClaimHeld, TickEnds, LiveRead, Poll, HumanEdits,
        DelayElapses, WriteLands, Crash, Restart
    <3> QED BY <3>1, <1>t DEF ThreadTyped
  <2> QED BY <2>1, <2>2
<1>1. CASE Deliver
  <2>1. CASE StartMutation \/ SettleWithoutWrite \/ WriteStatus \/ ReadBack
    BY <2>1, <1>t, <1>p DEF ThreadTyped, StartMutation, SettleWithoutWrite, WriteStatus,
      ReadBack
  <2>2. CASE Drained \/ ReadFails \/ ReadBackFails
    BY <2>2, <1>t, <1>p DEF ThreadTyped, Drained, ReadFails, ReadBackFails
  <2>3. CASE WriteRefused \/ WriteRejected \/ WriteLost \/ WriteUnanswered
    BY <2>3, <1>t, <1>p DEF ThreadTyped, WriteRefused, WriteRejected, WriteLost,
      WriteUnanswered, WriteFails
  <2> QED BY <1>1, <2>1, <2>2, <2>3 DEF Deliver
<1>2. CASE Claim
  BY <1>2, <1>t, <1>p DEF ThreadTyped, Claim, ClaimHandoff, ClaimCheckpoint, ClaimNothing,
    ClaimHeld, Claimed
<1>3. CASE TickEnds \/ LiveRead \/ LiveObserve
  BY <1>3, <1>t, <1>p DEF ThreadTyped, TickEnds, Ticked, LiveRead, LiveObserve
<1>4. CASE \E label \in Labels : AttemptCompletes(label)
  BY <1>4, <1>t, <1>p DEF ThreadTyped, AttemptCompletes, Ticked
<1>5. CASE ObserveIssue \/ Poll
  BY <1>5, <1>t, <1>p DEF ThreadTyped, ObserveIssue, Poll
<1>6. CASE Environment
  BY <1>6, <1>t, <1>p DEF ThreadTyped, Environment, OperatorCommands, HumanEdits,
    DelayElapses, WriteLands,
    Crash, Restart
<1> QED BY <1>1, <1>2, <1>3, <1>4, <1>5, <1>6 DEF Next, RuntimeStep, Tick

\* A bound is used up one by one.
LEMMA SpendWrites ==
  ASSUME SpentTyped,
         \/ Spend("faults") /\ spent.faults < MaxFaults
         \/ Spend("edits") /\ spent.edits < MaxEdits
         \/ Spend("control") /\ spent.control < MaxControl
         \/ Spend("crashes") /\ spent.crashes < MaxCrashes
  PROVE  SpentTyped'
<1>1. /\ spent.edits \in 0 .. MaxEdits /\ spent.faults \in 0 .. MaxFaults
      /\ spent.control \in 0 .. MaxControl /\ spent.crashes \in 0 .. MaxCrashes
      /\ MaxEdits \in Nat /\ MaxFaults \in Nat /\ MaxControl \in Nat /\ MaxCrashes \in Nat
      /\ spent = [edits |-> spent.edits, faults |-> spent.faults, control |-> spent.control,
                  crashes |-> spent.crashes]
  BY FaultAssumption DEF SpentTyped
<1>2. CASE Spend("faults") /\ spent.faults < MaxFaults
  <2>1. spent' = [edits |-> spent.edits, faults |-> spent.faults + 1, control |-> spent.control,
                  crashes |-> spent.crashes]
    BY <1>1, <1>2 DEF Spend
  <2> QED BY <1>1, <1>2, <2>1 DEF SpentTyped
<1>3. CASE Spend("edits") /\ spent.edits < MaxEdits
  <2>1. spent' = [edits |-> spent.edits + 1, faults |-> spent.faults, control |-> spent.control,
                  crashes |-> spent.crashes]
    BY <1>1, <1>3 DEF Spend
  <2> QED BY <1>1, <1>3, <2>1 DEF SpentTyped
<1>4. CASE Spend("control") /\ spent.control < MaxControl
  <2>1. spent' = [edits |-> spent.edits, faults |-> spent.faults, control |-> spent.control + 1,
                  crashes |-> spent.crashes]
    BY <1>1, <1>4 DEF Spend
  <2> QED BY <1>1, <1>4, <2>1 DEF SpentTyped
<1>5. CASE Spend("crashes") /\ spent.crashes < MaxCrashes
  <2>1. spent' = [edits |-> spent.edits, faults |-> spent.faults, control |-> spent.control,
                  crashes |-> spent.crashes + 1]
    BY <1>1, <1>5 DEF Spend
  <2> QED BY <1>1, <1>5, <2>1 DEF SpentTyped
<1> QED BY <1>2, <1>3, <1>4, <1>5

\* No bound is exceeded.
LEMMA SpentStep ==
  ASSUME LinearInv, Next
  PROVE  SpentTyped'
<1>t. SpentTyped
  BY TypeParts DEF LinearInv
<1>1. \/ UNCHANGED spent
      \/ Spend("faults") /\ spent.faults < MaxFaults
      \/ Spend("edits") /\ spent.edits < MaxEdits
      \/ Spend("control") /\ spent.control < MaxControl
      \/ Spend("crashes") /\ spent.crashes < MaxCrashes
  <2>1. CASE Deliver
    BY <2>1 DEF Deliver, StartMutation, SettleWithoutWrite, WriteStatus, ReadBack, Drained,
      ReadFails,
      WriteRefused, WriteRejected, WriteLost, WriteUnanswered, WriteFails, ReadBackFails, MayFail
  <2>2. CASE Claim
    BY <2>2 DEF Claim, ClaimHandoff, ClaimCheckpoint, ClaimNothing, ClaimHeld, MayFail
  <2>3. CASE TickEnds \/ LiveRead \/ LiveObserve \/ ObserveIssue \/ Poll
    BY <2>3 DEF TickEnds, LiveRead, LiveObserve, ObserveIssue, Poll
  <2>4. CASE \E label \in Labels : AttemptCompletes(label)
    BY <2>4 DEF AttemptCompletes
  <2>5. CASE Environment
    BY <2>5 DEF Environment, OperatorCommands, HumanEdits, DelayElapses, WriteLands, Crash,
      Restart
  <2> QED BY <2>1, <2>2, <2>3, <2>4, <2>5 DEF Next, RuntimeStep, Tick
<1> QED BY <1>1, <1>t, SpendWrites DEF SpentTyped

-----------------------------------------------------------------------------
(* The invariant and what follows from it.                                 *)

\* The inductive invariant.
ConvergenceInv == LinearInv /\ ("readback" \notin Faults => WritesInv)

\* It holds when the issue is adopted.
LEMMA LinearStarts == Init => ConvergenceInv
<1> SUFFICES ASSUME Init PROVE ConvergenceInv
  OBVIOUS
<1>1. KernelTypeOK /\ observed \in Statuses
  BY KernelInitType DEF Init, KernelTypeOK
<1>2. remote \in Issue /\ remote.rev = 0
  BY <1>1 DEF Init, Issue
<1>3. mutations = <<>> /\ mutations \in Seq(Mutation) /\ Len(mutations) = 0 /\ DOMAIN mutations = {}
  BY DEF Init
<1>4. SpentTyped
  BY FaultAssumption DEF Init, SpentTyped
<1>5. TypeOK
  BY <1>1, <1>2, <1>3, <1>4 DEF Init, TypeOK, SpentTyped
<1>6. HoldsInv /\ WritesInv
  BY <1>3 DEF Init, HoldsInv, WritesInv, AppliedOnce
<1> QED BY <1>5, <1>6 DEF ConvergenceInv, LinearInv

\* It is inductive.
LEMMA LinearSteps == ConvergenceInv /\ [Next]_vars => ConvergenceInv'
<1> SUFFICES ASSUME ConvergenceInv, [Next]_vars PROVE ConvergenceInv'
  OBVIOUS
<1>1. LinearInv /\ Safe
  BY TypeParts DEF ConvergenceInv, LinearInv, Safe
<1>2. CASE Next
  <2>1. KernelTypeOK' /\ Safe' /\ ThreadTyped' /\ SpentTyped'
    BY <1>1, <1>2, KernelTypes, SafeStep, ThreadStep, SpentStep
  <2>2. TypeOK'
    BY <2>1 DEF Safe, TypeOK, RowsTyped, ThreadTyped, SpentTyped
  <2> QED BY <2>1, <2>2 DEF Safe, ConvergenceInv, LinearInv
<1>3. CASE UNCHANGED vars
  <2>1. UNCHANGED <<kernelVars, linearVars>>
    BY <1>3 DEF vars
  <2> QED BY <2>1 DEF kernelVars, linearVars, ConvergenceInv, LinearInv, TypeOK,
    KernelTypeOK, HoldsInv, Known,
         WritesInv, AppliedOnce
<1> QED BY <1>2, <1>3

\* It holds of every behaviour.
LEMMA ConvergenceHolds == Spec => []ConvergenceInv
BY LinearStarts, LinearSteps, PTL DEF Spec

\* Type correctness, for every graph, every bound and every set of faults: the
\* status a row desires and expects is one of Linear's, and what the runtime
\* delivers or observes is a row and an issue it has.
THEOREM LinearTyped == Spec => []TypeOK
<1>1. ConvergenceInv => TypeOK
  BY DEF ConvergenceInv, LinearInv
<1> QED BY <1>1, ConvergenceHolds, PTL

\* No mutation takes effect twice, whatever write is refused, lost or answered
\* too late and wherever the runtime dies (drain_one,
\* mark_linear_mutation_ambiguous), as long as the issue can be read back after a
\* write: drain_one treats a read-back that fails like a write that was refused,
\* and sends it again.
THEOREM NoSecondWrite ==
  ASSUME "readback" \notin Faults
  PROVE  Spec => []AppliedOnce
<1>1. ConvergenceInv => AppliedOnce
  BY DEF ConvergenceInv, WritesInv
<1> QED BY <1>1, ConvergenceHolds, PTL

\* With the outbox, the polls, the live polls and people at the issue, the
\* execution still only takes steps of the kernel: LinearConvergence implements
\* WorkflowKernel.
THEOREM ImplementsKernel == Spec => KernelSpec
<1>1. Init => KernelInit
  BY DEF Init
<1>2. ConvergenceInv /\ [Next]_vars => [KernelNext]_kernelVars
  <2>1. ASSUME ConvergenceInv, Next PROVE [KernelNext]_kernelVars
    BY <2>1, KernelSteps DEF ConvergenceInv
  <2>2. ASSUME UNCHANGED vars PROVE UNCHANGED kernelVars
    BY <2>2 DEF vars
  <2> QED BY <2>1, <2>2
<1> QED BY <1>1, <1>2, ConvergenceHolds, PTL DEF Spec, KernelSpec

\* Therefore what was proved of the kernel alone holds in the composed system:
\* claims never raise, reviews are deliberate and agents' retries bounded.
THEOREM KernelPromisesHold ==
  Spec => [](RequestIsClaimable /\ ReviewIsDeliberate /\ RetriesAreBounded)
BY ImplementsKernel, RequestsAreClaimable, ReviewsAreDeliberate, AgentRetriesAreBounded, PTL

\* And an investigation resumes the state that failed last, in every graph whose
\* failures can be resumed.
THEOREM FailuresStayResumable ==
  ASSUME RecoveryIsShaped
  PROVE  Spec => []ResumesTheFailure
BY ImplementsKernel, FailuresAreResumed, PTL
=============================================================================
