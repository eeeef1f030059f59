------------------------ MODULE PlanningConversation ------------------------
(***************************************************************************)
(* One run planned in a Linear conversation.                               *)
(*                                                                         *)
(* People write prompts into the run's Agent Session at any time.  The     *)
(* owner of the ledger never waits for Linear: a reader thread fetches the *)
(* whole session, and the owner consumes the snapshot later, oldest prompt *)
(* first (linear_planning.receive).  There are two readers: poll, between  *)
(* attempts, and the live poll, while a runner is running.  A prompt       *)
(* becomes a command of the control service, a pause event, or nothing     *)
(* but a reply; it is handled again after a crash unless its reply was     *)
(* recorded.                                                               *)
(*                                                                         *)
(* Prompts are numbered in the order of their creation times.  A plan is   *)
(* known by its place in plans, its base by the number of messages its     *)
(* author was given; commit, digest and rendering are abstracted to that.  *)
(***************************************************************************)
EXTENDS Naturals, Sequences, SequencesExt, FiniteSetsExt, Selection

CONSTANTS
    Prompts,        \* what people may write: [says, version, by, queued]
    MaxPrompts,     \* prompts they write
    MaxEvents,      \* commands through HTTP, deaths of the process, failed or
                    \* late reads and failed attempts, together
    API,            \* the author of a message that came through HTTP
    None

ASSUME PromptsAreTyped ==
    Prompts \subseteq [says: {"answer", "approve", "pause", "resume", "stop"},
                       version: Nat, by: {"operator", "approver", "outsider"},
                       queued: {"no", "yes"}]

ASSUME BoundsAreNaturals == {MaxPrompts, MaxEvents} \subseteq Nat

ASSUME ValuesDiffer ==
    API \notin Nat /\ None \notin {"accepted", "rejected", "authorized", "completed", "failed"}

VARIABLES
    state,          \* the workflow state of the run
    attempt,        \* its attempt: none, queued, running, or lost in a crash
    context,        \* messages the running attempt was given
    messages,       \* the planning conversation: prompts, or API
    plans,          \* plans that passed their check: [base, questions]
    reviews,        \* plans displayed for review: [plan, since], the number of the
                    \* plan and the first prompt written after its display
    prompts,        \* what was written in the session
    rows,           \* per prompt: its reply, and its control command
    decisions,      \* prompts whose command moved the run
    pauses,         \* pause events, each the number of a prompt
    reads,          \* the two readers: None, or the prompts there were when the
                    \* outstanding read was launched
    pc,             \* where the owner is in receive
    inbox,          \* the snapshot's pending prompts, and those still to handle
    events          \* how many of those happened

run == <<state, attempt, context>>
plan == <<messages, plans, reviews>>
session == <<prompts, rows, decisions, pauses>>
owner == <<pc, inbox>>
vars == <<run, plan, session, reads, owner, events>>

-----------------------------------------------------------------------------
States == {"PlanQueued", "Planning", "PlanReview", "Ready", "Implementing",
           "Investigating", "Canceled"}

NoRow == [reply |-> None, command |-> None, expected |-> None]

Empty == [pending |-> {}, left |-> <<>>]

Said(p) == prompts[p].says

Participates(p) == prompts[p].by # "outsider"

Event == events < MaxEvents /\ events' = events + 1

Paused == pauses # <<>> /\ Said(Last(pauses)) = "pause"

\* The plan does not rest on the whole conversation.
NeedsRevision == plans # <<>> /\ Last(plans).base # Len(messages)

\* What lets a plan through to Ready, whoever approves it.
PlanIsReviewable == plans # <<>> /\ ~NeedsRevision /\ ~Last(plans).questions

Init ==
    /\ state = "PlanQueued" /\ attempt = "none" /\ context = 0
    /\ messages = <<>> /\ plans = <<>> /\ reviews = <<>>
    /\ prompts = <<>> /\ rows = <<>> /\ decisions = {} /\ pauses = <<>>
    /\ reads = [poll |-> None, live |-> None]
    /\ pc = "idle" /\ inbox = Empty
    /\ events = 0

-----------------------------------------------------------------------------
(***************************************************************************)
(* People.  Nobody notices when a prompt was written but a read, and the   *)
(* confirmation of a review; what people do is therefore put off until one *)
(* of these may be next.                                                   *)
(***************************************************************************)

\* present and sync have a review to display.
ReviewIsDue ==
    /\ state = "PlanReview" /\ ~Paused /\ ~NeedsRevision
    /\ \A i \in DOMAIN reviews : reviews[i].plan # Len(plans)

SomebodyReads == \E r \in DOMAIN reads : reads[r] # None

Write ==
    /\ pc = "idle" /\ Len(prompts) < MaxPrompts
    /\ SomebodyReads \/ ReviewIsDue
    /\ \E prompt \in Prompts : prompts' = Append(prompts, prompt)
    /\ rows' = Append(rows, NoRow)
    /\ UNCHANGED <<run, plan, decisions, pauses, reads, owner, events>>

\* Linear hands a queued prompt to the agent.
Unqueue ==
    /\ pc = "idle" /\ SomebodyReads
    /\ \E p \in DOMAIN prompts :
         prompts[p].queued = "yes" /\ prompts' = [prompts EXCEPT ![p].queued = "was"]
    /\ UNCHANGED <<run, plan, rows, decisions, pauses, reads, owner, events>>

-----------------------------------------------------------------------------
(***************************************************************************)
(* The readers.                                                            *)
(***************************************************************************)

Launched(r) == reads[r] = None /\ reads' = [reads EXCEPT ![r] = Len(prompts)]

\* Mutant: the reader is not free again.
StillReading(r) == UNCHANGED reads

ReaderIsFree(r) == reads' = [reads EXCEPT ![r] = None]

\* poll launches a read only for a run without an attempt.
LaunchPoll ==
    /\ pc = "idle" /\ attempt = "none" /\ state # "Canceled"
    /\ Launched("poll")
    /\ UNCHANGED <<run, plan, session, owner, events>>

\* The live poll launches one while the runner runs.
LaunchLive ==
    /\ pc = "idle" /\ attempt = "running"
    /\ Launched("live")
    /\ UNCHANGED <<run, plan, session, owner, events>>

\* The read failed, or poll finds its result more than ten seconds old.
ReadIsLost ==
    /\ pc = "idle" /\ Event
    /\ \E r \in DOMAIN reads : reads[r] # None /\ ReaderIsFree(r)
    /\ UNCHANGED <<run, plan, session, owner>>

-----------------------------------------------------------------------------
(***************************************************************************)
(* receive.                                                                *)
(***************************************************************************)

Unanswered(seen) == {p \in seen : rows[p].reply = None}

\* Mutant: the newest prompt is handled first.
NewestFirst(pending) == SetToSortSeq(pending, LAMBDA p, q : p > q)

OldestFirst(pending) == Ascending(pending)

\* The prompts a read finds that ended when n of them were written.
Snapshot(n) == {p \in 1 .. n : prompts[p].queued # "yes"}

\* The owner takes a snapshot: poll's between two attempts, the live poll's,
\* whatever its age, while a runner runs.  The read ended at some time since
\* its launch.
Consume ==
    /\ pc = "idle" /\ state # "Canceled"
    /\ \E r \in DOMAIN reads :
         /\ reads[r] # None
         /\ (attempt = "running") = (r = "live")
         /\ \E n \in reads[r] .. Len(prompts) :
              \E pending \in {Unanswered(Snapshot(n))} :
                inbox' = [pending |-> pending, left |-> OldestFirst(pending)]
         /\ ReaderIsFree(r)
    /\ pc' = "receive"
    /\ UNCHANGED <<run, plan, session, events>>

\* The prompt at hand.
Current == Head(inbox.left)

Handling(phase) == pc = phase /\ inbox.left # <<>>

\* Mutant: only answers older than the approval hold it back.
OlderAnswerIsPending(p) ==
    \E o \in inbox.pending : o < p /\ Said(o) = "answer" /\ Participates(o)

\* The snapshot holds another participant's answer, older or newer.
AnswerIsPending(p) ==
    \E o \in inbox.pending : o # p /\ Said(o) = "answer" /\ Participates(o)

\* p names the latest review, of the latest plan, and was written after that
\* review was displayed.
ApprovesTheReview(p) ==
    /\ reviews # <<>> /\ prompts[p].version = Len(reviews)
    /\ Last(reviews).plan = Len(plans) /\ p >= Last(reviews).since

MayApprove(p) ==
    /\ state = "PlanReview" /\ ~AnswerIsPending(p)
    /\ prompts[p].by = "approver"
    /\ ApprovesTheReview(p) /\ PlanIsReviewable /\ ~Paused

\* The approval's command finished before a crash.
ApprovalIsRecorded(p) == Said(p) = "approve" /\ rows[p].command = "completed"

Refused(p) ==
    \/ ~Participates(p)
    \/ Said(p) = "approve" /\ ~ApprovalIsRecorded(p) /\ ~MayApprove(p)
    \/ Said(p) \in {"pause", "resume"} /\ state = "Canceled"
    \/ Said(p) = "answer" /\ state \notin {"PlanQueued", "Planning", "PlanReview"}

\* An attempt keeps the conversation it was given: the answer stays in Linear.
Waits(p) == Said(p) = "answer" /\ attempt # "none"

\* The reply event, which ends the handling of the prompt.
Replied(status) ==
    /\ rows' = [rows EXCEPT ![Current].reply = status]
    /\ inbox' = [inbox EXCEPT !.left = Tail(@)]
    /\ pc' = "receive"

Refuse ==
    /\ Handling("receive") /\ Refused(Current)
    /\ Replied("rejected")
    /\ UNCHANGED <<run, plan, prompts, decisions, pauses, reads, events>>

RecoverApproval ==
    /\ Handling("receive") /\ Participates(Current) /\ ApprovalIsRecorded(Current)
    /\ Replied("accepted")
    /\ UNCHANGED <<run, plan, prompts, decisions, pauses, reads, events>>

Leave ==
    /\ Handling("receive") /\ ~Refused(Current) /\ Waits(Current)
    /\ inbox' = [inbox EXCEPT !.left = Tail(@)]
    /\ UNCHANGED <<run, plan, session, reads, pc, events>>

\* A pause event is keyed by its prompt: a repeated one changes nothing.
RecordPause ==
    /\ Handling("receive") /\ ~Refused(Current) /\ Said(Current) \in {"pause", "resume"}
    /\ pauses' = IF Contains(pauses, Current) THEN pauses ELSE Append(pauses, Current)
    /\ pc' = "reply"
    /\ UNCHANGED <<run, plan, prompts, rows, decisions, reads, inbox, events>>

-----------------------------------------------------------------------------
(***************************************************************************)
(* ControlService.execute for a prompt.                                    *)
(***************************************************************************)

\* The request is frozen with the state it was made in and the command begun
\* and authorized; a command that began before a crash keeps both.
Execute ==
    /\ Handling("receive") /\ ~Refused(Current) /\ ~Waits(Current)
    /\ ~ApprovalIsRecorded(Current)
    /\ Said(Current) \in {"answer", "approve", "stop"}
    /\ CASE rows[Current].command = None ->
              /\ rows' = [rows EXCEPT ![Current].command = "authorized",
                                      ![Current].expected = state]
              /\ pc' = "apply"
         [] rows[Current].command = "authorized" -> pc' = "apply" /\ rows' = rows
         [] OTHER -> pc' = "reply" /\ rows' = rows
    /\ UNCHANGED <<run, plan, prompts, decisions, pauses, reads, inbox, events>>

\* Mutant: only a decision is looked up, not a message.
DecisionIsRecorded(p) == p \in decisions

\* What the command did before a crash.
EffectIsRecorded(p) == p \in decisions \/ Contains(messages, p)

Recover ==
    /\ Handling("apply") /\ EffectIsRecorded(Current)
    /\ pc' = "finish"
    /\ UNCHANGED <<run, plan, session, reads, inbox, events>>

\* The run has moved on since the request was frozen, or it has ended (where the
\* authorization already denies it, to the same effect).
CommandFails ==
    /\ Handling("apply") /\ ~EffectIsRecorded(Current)
    /\ rows[Current].expected # state \/ state = "Canceled"
    /\ rows' = [rows EXCEPT ![Current].command = "failed"]
    /\ pc' = "reply"
    /\ UNCHANGED <<run, plan, prompts, decisions, pauses, reads, inbox, events>>

\* The one transaction of the command.  What receive checked of an approval
\* still holds, since nothing else writes in between.
Apply ==
    /\ Handling("apply") /\ ~EffectIsRecorded(Current)
    /\ rows[Current].expected = state /\ state # "Canceled"
    /\ CASE Said(Current) = "answer" ->
              /\ messages' = Append(messages, Current)
              /\ UNCHANGED <<run, decisions>>
         [] Said(Current) = "approve" ->
              /\ state' = "Ready"
              /\ decisions' = decisions \cup {Current}
              /\ UNCHANGED <<attempt, context, messages>>
         [] OTHER ->
              /\ state' = "Canceled" /\ attempt' = "none" /\ context' = 0
              /\ decisions' = decisions \cup {Current}
              /\ UNCHANGED messages
    /\ pc' = "finish"
    /\ UNCHANGED <<plans, reviews, prompts, rows, pauses, reads, inbox, events>>

Finish ==
    /\ Handling("finish")
    /\ rows' = [rows EXCEPT ![Current].command = "completed"]
    /\ pc' = "reply"
    /\ UNCHANGED <<run, plan, prompts, decisions, pauses, reads, inbox, events>>

Reply ==
    /\ Handling("reply")
    /\ Replied(IF rows[Current].command = "failed" THEN "rejected" ELSE "accepted")
    /\ UNCHANGED <<run, plan, prompts, decisions, pauses, reads, events>>

\* resume_planning, at the end of every snapshot: saved answers of a
\* participant send a plan back once no reply was given for some seconds.  A
\* snapshot that brings no reply and comes too soon changes nothing.
MayRevise ==
    /\ state = "PlanReview" /\ ~Paused /\ NeedsRevision
    /\ Last(messages) # API

RepliesAreQuiet == \A p \in inbox.pending : rows[p].reply = None

EndReceive ==
    /\ pc = "receive" /\ inbox.left = <<>>
    /\ \/ MayRevise /\ state' = "Planning" /\ attempt' = "queued" /\ UNCHANGED context
       \/ ~(MayRevise /\ RepliesAreQuiet) /\ UNCHANGED run
    /\ inbox' = Empty /\ pc' = "idle"
    /\ UNCHANGED <<plan, session, reads, events>>

-----------------------------------------------------------------------------
(***************************************************************************)
(* The rest of the owner's step.                                           *)
(***************************************************************************)

\* _claim_pickups, which a pause does not stop.  Implementation starts only
\* from an approved plan that rests on the whole conversation.
Claim ==
    /\ pc = "idle"
    /\ \/ state = "PlanQueued" /\ state' = "Planning"
       \/ state = "Ready" /\ PlanIsReviewable /\ state' = "Implementing"
    /\ attempt' = "queued"
    /\ UNCHANGED <<context, plan, session, reads, owner, events>>

\* A pause stops the dispatch.  The attempt captures the conversation.
Dispatch ==
    /\ pc = "idle" /\ attempt = "queued" /\ ~Paused
    /\ attempt' = "running" /\ context' = Len(messages)
    /\ UNCHANGED <<state, plan, session, reads, owner, events>>

EndOfAttempt ==
    /\ pc = "idle" /\ attempt = "running"
    /\ context' = 0
    /\ \/ /\ state = "Planning" /\ state' = "PlanReview" /\ attempt' = "none"
          /\ \E questions \in BOOLEAN :
               plans' = Append(plans, [base |-> context, questions |-> questions])
          /\ UNCHANGED events
       \/ /\ state = "Planning" /\ state' = "Investigating" /\ attempt' = "queued"
          /\ Event /\ UNCHANGED plans
       \/ /\ state = "Investigating" /\ state' = "Planning" /\ attempt' = "queued"
          /\ UNCHANGED <<plans, events>>
    /\ UNCHANGED <<messages, reviews, session, reads, owner>>

\* present writes one review event for each plan, sync posts and confirms its
\* activity (LinearPublication): a prompt written before the display is
\* treated alike on both sides of the event, so the two are one step.
Present ==
    /\ pc = "idle" /\ ReviewIsDue
    /\ reviews' = Append(reviews, [plan |-> Len(plans), since |-> Len(prompts) + 1])
    /\ UNCHANGED <<run, messages, plans, session, reads, owner, events>>

\* An operator's message, approval or revision through the HTTP interface.
Call ==
    /\ pc = "idle" /\ attempt \in {"none", "queued"}
    /\ Event
    /\ \/ /\ state \in {"PlanQueued", "Planning", "PlanReview", "Ready"}
          /\ messages' = Append(messages, API) /\ UNCHANGED <<state, attempt>>
       \/ /\ state = "PlanReview" /\ PlanIsReviewable /\ state' = "Ready"
          /\ UNCHANGED <<messages, attempt>>
       \/ /\ state \in {"PlanReview", "Ready"} /\ state' = "Planning" /\ attempt' = "queued"
          /\ UNCHANGED messages
    /\ UNCHANGED <<context, plans, reviews, session, reads, owner>>

\* Mutant: the owner comes back in the middle of its snapshot.
KeepInbox == UNCHANGED inbox

DropInbox == inbox' = Empty

\* The process dies: its readers and its snapshot are gone, and whether a
\* running child had effects is not known.
Crash ==
    /\ Event
    /\ pc' = "idle" /\ DropInbox
    /\ reads' = [r \in DOMAIN reads |-> None]
    /\ attempt' = IF attempt = "running" THEN "lost" ELSE attempt
    /\ UNCHANGED <<state, context, plan, session>>

-----------------------------------------------------------------------------
Receive ==
    \/ Refuse \/ RecoverApproval \/ Leave \/ RecordPause
    \/ Execute \/ Recover \/ CommandFails \/ Apply \/ Finish \/ Reply \/ EndReceive

Next ==
    \/ Write \/ Unqueue \/ LaunchPoll \/ LaunchLive \/ ReadIsLost
    \/ Consume \/ Receive
    \/ Claim \/ Dispatch \/ EndOfAttempt \/ Present \/ Call \/ Crash

\* What the owner and its readers do with the session, and with the run.
Listen == LaunchPoll \/ LaunchLive \/ Consume \/ Receive
Work == Claim \/ Dispatch \/ EndOfAttempt

\* The owner keeps stepping, reads end, and attempts end.  A step that handles
\* a snapshot goes on to claim, dispatch and watch the runner, so these are
\* strongly fair.  Nothing is assumed of people, of Linear's queue, or of
\* crashes.
Spec == Init /\ [][Next]_vars /\ WF_vars(Listen) /\ SF_vars(Work)

-----------------------------------------------------------------------------
(***************************************************************************)
(* Properties.                                                             *)
(***************************************************************************)

\* The rows are well typed, a snapshot is held only while it is handled, and
\* no plan or attempt rests on more than the conversation.
TypeOK ==
    /\ state \in States /\ attempt \in {"none", "queued", "running", "lost"}
    /\ context \in 0 .. Len(messages)
    /\ \A i \in DOMAIN messages : messages[i] \in DOMAIN prompts \cup {API}
    /\ \A i \in DOMAIN plans : plans[i] \in [base: 0 .. Len(messages), questions: BOOLEAN]
    /\ \A i \in DOMAIN reviews :
         reviews[i] \in [plan: DOMAIN plans, since: 1 .. Len(prompts) + 1]
    /\ DOMAIN rows = DOMAIN prompts
    /\ \A p \in DOMAIN rows :
         rows[p] \in [reply: {None, "accepted", "rejected"},
                      command: {None, "authorized", "completed", "failed"},
                      expected: States \cup {None}]
    /\ decisions \subseteq DOMAIN prompts
    /\ \A i \in DOMAIN pauses : pauses[i] \in DOMAIN prompts
    /\ \A r \in DOMAIN reads : reads[r] \in 0 .. Len(prompts) \cup {None}
    /\ pc \in {"idle", "receive", "apply", "finish", "reply"}
    /\ (pc = "idle") => inbox = Empty

\* An approval from Linear moves the run only when its author wrote it after
\* the very plan it starts was displayed, and when every participant's answer
\* Linear held when the session was read is in that plan or was refused
\* (ADR 0043); and implementation starts on a plan the conversation has not
\* outgrown since.
ApprovalIsInformed ==
    [][/\ pc = "apply" /\ state = "PlanReview" /\ state' = "Ready" =>
            /\ Last(reviews).since <= Current
            /\ Last(reviews).plan = Len(plans)
            /\ \A p \in inbox.pending :
                 Said(p) = "answer" /\ Participates(p) =>
                    \/ rows[p].reply = "rejected"
                    \/ \E i \in 1 .. Last(plans).base : messages[i] = p
       /\ state' = "Implementing" /\ state # "Implementing" =>
            Last(plans).base = Len(messages)]_vars

\* Through any crash, what a reply tells its author was done has been done,
\* once: the answer is one message, the approval or stop moved the run, the
\* pause or resume is recorded.
AcceptedIsApplied ==
    /\ \A i, j \in DOMAIN messages : messages[i] = messages[j] => i = j \/ messages[i] = API
    /\ \A p \in DOMAIN rows : rows[p].reply = "accepted" =>
         CASE Said(p) = "answer"               -> Contains(messages, p)
           [] Said(p) \in {"approve", "stop"}  -> p \in decisions
           [] OTHER                            -> Contains(pauses, p)

\* Of the pauses and resumes the run has taken, the one its people wrote last
\* rules, whichever reader brought them and however often a snapshot was
\* handled (prompts Linear held in its queue come late and are exempt).
LastWordHolds ==
    (pauses # <<>> /\ \A i \in DOMAIN pauses : prompts[pauses[i]].queued = "no") =>
        Paused = (Said(Max(ToSet(pauses))) = "pause")

\* What a participant wrote is dealt with: refused, done, or, for an answer,
\* in a plan; unless the run is paused, canceled or lost in a crash, Linear
\* keeps the prompt queued, or the last message came through HTTP.
Settled(p) ==
    \/ rows[p].reply = "rejected" \/ ~Participates(p) \/ prompts[p].queued = "yes"
    \/ rows[p].reply = "accepted" /\ Said(p) # "answer"
    \/ plans # <<>> /\ \E i \in 1 .. Last(plans).base : messages[i] = p

AnswersAreHeard ==
    []<>(\/ \A p \in DOMAIN prompts : Settled(p)
         \/ Paused \/ state = "Canceled" \/ attempt = "lost"
         \/ messages # <<>> /\ Last(messages) = API)

-----------------------------------------------------------------------------
(* What the documents say and the code does not do.                         *)

\* What a reply calls refused was not done.  An approval whose transition was
\* committed before a crash and whose command was not finished is refused in the
\* replay (receive recovers completed commands only).
RejectedIsUnapplied ==
    \A p \in DOMAIN rows : rows[p].reply = "rejected" =>
        p \notin decisions /\ ~Contains(messages, p)

\* "Paused in Linear. Reply resume to continue." (_dispatch_budget): a run is
\* not paused for ever once a participant wrote "resume" after everything else.
ResumeIsHeard ==
    []<>(~ /\ Paused /\ state # "Canceled" /\ attempt # "lost"
           /\ Last(prompts).says = "resume" /\ Participates(Len(prompts))
           /\ Last(prompts).queued = "no")
=============================================================================
