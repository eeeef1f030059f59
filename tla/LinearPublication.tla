-------------------------- MODULE LinearPublication --------------------------
(***************************************************************************)
(* How one run is shown in Linear.                                         *)
(*                                                                         *)
(* The runtime's step publishes a run into a native Agent Session          *)
(* (linear_agent.LinearAgentSessionWorker) and, when the session cannot be *)
(* used, into one owned comment (linear_evidence.LinearEvidenceWorker).    *)
(* Both are rows of the ledger that converge a remote object whose answers *)
(* may be lost: a session has no caller-chosen identity and is found again *)
(* by the run's marker URL; activities and the comment carry identifiers   *)
(* the ledger chose.                                                       *)
(*                                                                         *)
(* A request is two steps: the transaction that marks the row "sending",   *)
(* and the answer.  The answer may be lost whether Linear applied the      *)
(* request, never will, or applies it later; the process may die between   *)
(* the two with the same three outcomes.                                   *)
(***************************************************************************)
EXTENDS Naturals, Sequences, SequencesExt, Selection

CONSTANTS
    MaxStates,      \* workflow states one run enters
    MaxFaults,      \* lost, refused or garbled answers, failed reads,
                    \* deletions and deaths of the process, together
    MaxPolicies,    \* times an operator changes the egress policy
    None            \* no body, no row value

ASSUME BoundsAreNaturals ==
    /\ MaxStates \in Nat \ {0}
    /\ {MaxFaults, MaxPolicies} \subseteq Nat

VARIABLES
    run,            \* the facts of the run a projection is rendered from
    policy,         \* the egress policy for the destination "linear"
    session,        \* the row of linear_agent_sessions
    activities,     \* the rows of linear_agent_activities, in staging order
    evidence,       \* the row of linear_evidence
    pc,             \* where the step of the runtime is
    job,            \* what this step rendered before its first request
    linear,         \* what Linear holds
    late,           \* unanswered requests Linear may still apply
    faults, changes

rows == <<session, activities, evidence>>
bounds == <<faults, changes>>
vars == <<run, policy, rows, pc, job, linear, late, bounds>>

-----------------------------------------------------------------------------
(***************************************************************************)
(* What is rendered.                                                       *)
(***************************************************************************)

Policies == {"full", "metadata", "denied"}

Run == [states: 1 .. MaxStates, asked: BOOLEAN, done: BOOLEAN]

\* The comment: the facts it shows, and whether it shows more than metadata.
Body(r, p) == [run |-> r, rich |-> p = "full"]

Bodies == [run: Run, rich: BOOLEAN]

\* The links of a session: every state brings evidence of its own.
ExternalUrls(r) == r.states

\* The activities of a run, as keys: a state run has one activity for each
\* status it was seen in; an open question shows until the run completes.
AgentActivities(r) ==
    LET StateRun(i) == <<"state", i,
                         IF i < r.states \/ r.done THEN "completed" ELSE "active">>
    IN  <<<<"start">>>>
        \o [i \in 1 .. r.states |-> StateRun(i)]
        \o (IF r.asked /\ ~r.done THEN <<<<"attention", r.states>>>> ELSE <<>>)
        \o (IF r.done THEN <<<<"terminal">>>> ELSE <<>>)

Keys ==
    {<<"start">>, <<"terminal">>}
    \cup ({"state"} \X (1 .. MaxStates) \X {"active", "completed"})
    \cup ({"attention"} \X (1 .. MaxStates))

-----------------------------------------------------------------------------
(***************************************************************************)
(* Linear.                                                                 *)
(***************************************************************************)

\* The requests that change something.
Request ==
    [op: {"createSession", "updateSession"}, urls: 1 .. MaxStates]
    \cup [op: {"post"}, activity: Nat]
    \cup [op: {"createComment", "updateComment"}, body: Bodies]

\* A request refused because its identifier is taken.
Duplicate(w, q) ==
    \/ q.op = "post" /\ Contains(w.posted, q.activity)
    \/ q.op = "createComment" /\ w.comment # None

\* A request refused because its target is gone.
Missing(w, q) == q.op = "updateComment" /\ w.comment = None

\* Linear after it applied a request.
Applied(w, q) ==
    IF Duplicate(w, q) \/ Missing(w, q) THEN w ELSE
    CASE q.op = "createSession" -> [w EXCEPT !.sessions = Append(@, q.urls)]
      [] q.op = "updateSession" -> [w EXCEPT !.sessions[session.id] = q.urls]
      [] q.op = "post" -> [w EXCEPT !.posted = Append(@, q.activity)]
      [] OTHER                  -> [w EXCEPT !.comment = q.body]

\* Nobody hears of the request: Linear applied it, will later, or never does.
Unanswered(q) ==
    \/ linear' = Applied(linear, q) /\ late' = late
    \/ late' = late \cup {q} /\ linear' = linear
    \/ UNCHANGED <<linear, late>>

Fault == faults < MaxFaults /\ faults' = faults + 1

\* The answers of a request: what the client makes of Linear's reply.
Accepted(q) == ~Duplicate(linear, q) /\ ~Missing(linear, q)
               /\ linear' = Applied(linear, q) /\ UNCHANGED <<late, faults>>
Taken(q)    == Duplicate(linear, q) /\ UNCHANGED <<linear, late, faults>>
Limited     == Fault /\ UNCHANGED <<linear, late>>
Rejected(q) == \/ Fault /\ UNCHANGED <<linear, late>>
               \/ Missing(linear, q) /\ UNCHANGED <<linear, late, faults>>
\* The reply is not JSON: the client calls it final although it was applied.
Garbled(q)  == Fault /\ linear' = Applied(linear, q) /\ UNCHANGED late
Unknown(q)  == Fault /\ Unanswered(q)

\* Reads: answered, or failed.
ReadOk    == UNCHANGED <<linear, late, faults>>
ReadFails == Fault /\ UNCHANGED <<linear, late>>

-----------------------------------------------------------------------------
(***************************************************************************)
(* The session.                                                            *)
(***************************************************************************)

NoSession == [status |-> "absent", id |-> 0, desired |-> 0, applied |-> 0, wait |-> FALSE]

\* The row after staging newer links: a request of unknown outcome keeps them.
StageSession(s, urls) ==
    IF s.status = "absent"
    THEN [s EXCEPT !.status = "pending", !.desired = urls]
    ELSE IF s.desired # urls /\ s.status \notin {"fallback", "sending"}
    THEN [s EXCEPT !.status = "pending", !.desired = urls, !.wait = FALSE]
    ELSE s

ConfirmSession(s, id) ==
    [s EXCEPT !.status = "active", !.id = id, !.applied = s.desired, !.wait = FALSE]

SessionRetries(s) == [s EXCEPT !.status = "pending", !.wait = TRUE]

\* Mutant: a session given up keeps a time to retry.
SessionFallsBackForNow(s) == [s EXCEPT !.status = "fallback", !.wait = TRUE]

SessionFallsBack(s) == [s EXCEPT !.status = "fallback", !.wait = FALSE]

\* Mutant: a create that cannot be found is tried again.
ReconcileSessionAnew(s) ==
    LET matches == IF s.id # 0 THEN {s.id} ELSE DOMAIN linear.sessions
        exact   == {m \in matches : linear.sessions[m] = s.desired}
    IN  CASE Cardinality(matches) = 1 /\ exact # {} -> ConfirmSession(s, CHOOSE m \in exact : TRUE)
          [] OTHER -> SessionRetries(s)

\* A request of unknown outcome is settled by reading the session by its id,
\* or every session of the issue that carries the run's marker.
ReconcileSession(s) ==
    LET matches == IF s.id # 0 THEN {s.id} ELSE DOMAIN linear.sessions
        exact   == {m \in matches : linear.sessions[m] = s.desired}
    IN  CASE Cardinality(matches) = 1 /\ exact # {} -> ConfirmSession(s, CHOOSE m \in exact : TRUE)
          [] s.id # 0 /\ exact = {} -> SessionRetries(s)
          [] OTHER -> SessionFallsBack(s)

SessionRequest ==
    [op |-> IF session.id = 0 THEN "createSession" ELSE "updateSession",
     urls |-> session.desired]

\* Where sync continues with this row: only an active session goes on, and
\* only a fallback stages the comment.
AfterSession(s) ==
    CASE s.status = "active"   -> "session"
      [] s.status = "fallback" -> "stage"
      [] OTHER                 -> "comment"

SettleSession(s) ==
    /\ session' = IF s.status = "active" THEN StageSession(s, ExternalUrls(job.run)) ELSE s
    /\ pc' = AfterSession(s)

-----------------------------------------------------------------------------
(***************************************************************************)
(* The activities.                                                         *)
(***************************************************************************)

Staged(key) == \E i \in DOMAIN activities : activities[i].key = key

\* Keys not staged yet, in the order the projection lists them.
StageActivities(r) ==
    LET listed == AgentActivities(r)
        fresh  == Select(listed, {i \in DOMAIN listed : ~Staged(listed[i])})
    IN  activities \o [i \in DOMAIN fresh |->
                         [key |-> fresh[i], status |-> "pending", wait |-> FALSE]]

Unconfirmed == {i \in DOMAIN activities :
                  activities[i].status \in {"pending", "sending", "ambiguous"}}

\* Mutant: an activity that waits for its retry is passed over.
FirstReadyActivity ==
    LET ready == {i \in Unconfirmed : ~activities[i].wait}
    IN  IF ready = {} THEN 0 ELSE CHOOSE i \in ready : \A j \in ready : i <= j

\* The first activity in staging order that is not confirmed; 0 for none.
NextActivity ==
    IF Unconfirmed = {} THEN 0
    ELSE CHOOSE i \in Unconfirmed : \A j \in Unconfirmed : i <= j

SetActivity(i, status, wait) ==
    activities' = [activities EXCEPT ![i].status = status, ![i].wait = wait]

\* Mutant: an activity fails and its session goes on.
FailActivityAlone(i) == SetActivity(i, "failed", FALSE) /\ session' = session

\* An activity Linear refuses ends the native projection of the run.
FailActivity(i) ==
    /\ SetActivity(i, "failed", FALSE)
    /\ session' = SessionFallsBack(session)

-----------------------------------------------------------------------------
(***************************************************************************)
(* The comment.                                                            *)
(***************************************************************************)

NoEvidence == [status |-> "absent", desired |-> None, applied |-> None, wait |-> FALSE]

\* The row after staging a body: a changed digest makes it pending at once.
StageEvidence(e, body) ==
    IF e.desired = body THEN e
    ELSE [e EXCEPT !.status = "pending", !.desired = body, !.wait = FALSE]

ConfirmEvidence(e) ==
    [e EXCEPT !.status = "confirmed", !.applied = e.desired, !.wait = FALSE]

EvidenceIs(status) ==
    evidence' = [evidence EXCEPT !.status = status,
                                 !.wait = status \in {"pending", "ambiguous"}]

\* The policy refuses the row: nothing at all, or not these bytes.
EvidenceIsBlocked ==
    \/ policy = "denied"
    \/ policy = "metadata" /\ evidence.desired.rich

EvidenceIsDeliverable ==
    /\ evidence.status \in {"pending", "sending", "ambiguous"} /\ ~evidence.wait
    /\ ~EvidenceIsBlocked

CommentRequest ==
    [op |-> IF evidence.applied = None THEN "createComment" ELSE "updateComment",
     body |-> evidence.desired]

\* Mutant: a comment under the row's identifier is taken for the body.
CommentIsThere == linear.comment # None

\* What the read must find for the row to be confirmed.
CommentIsDesired == linear.comment = evidence.desired

-----------------------------------------------------------------------------
(***************************************************************************)
(* The run and its operator.                                               *)
(***************************************************************************)

EnterState ==
    /\ ~run.done /\ run.states < MaxStates
    /\ run' = [run EXCEPT !.states = @ + 1, !.asked = FALSE]

Ask == ~run.done /\ ~run.asked /\ run' = [run EXCEPT !.asked = TRUE]

Complete == ~run.done /\ run' = [run EXCEPT !.done = TRUE, !.asked = FALSE]

\* A step reads the run only where it starts, so facts recorded during a step
\* are those recorded after it.
Progress ==
    /\ pc = "idle"
    /\ EnterState \/ Ask \/ Complete
    /\ UNCHANGED <<policy, rows, pc, job, linear, late, bounds>>

\* The policy is read again before every request.
ChangePolicy ==
    /\ pc \in {"idle", "session", "activities", "comment"}
    /\ changes < MaxPolicies
    /\ changes' = changes + 1
    /\ policy' \in Policies \ {policy}
    /\ UNCHANGED <<run, rows, pc, job, linear, late, faults>>

-----------------------------------------------------------------------------
(***************************************************************************)
(* LinearAgentSessionWorker.sync.                                          *)
(***************************************************************************)

\* The step renders the run and stages the session's links.
StartSync ==
    /\ pc = "idle"
    /\ CASE policy = "denied"   -> pc' = "comment" /\ UNCHANGED <<job, session>>
         [] policy = "metadata" -> pc' = "stage" /\ job' = Body(run, policy) /\ UNCHANGED session
         [] OTHER ->
              /\ pc' = "session"
              /\ job' = Body(run, policy)
              /\ session' = StageSession(session, ExternalUrls(run))
    /\ UNCHANGED <<run, policy, activities, evidence, linear, late, bounds>>

\* _drain_session up to its request.
DrainSession ==
    /\ pc = "session"
    /\ \/ policy # "full" /\ pc' = "comment" /\ UNCHANGED <<session, activities>>
       \/ /\ policy = "full"
          /\ \/ session.status = "fallback" /\ pc' = "stage" /\ UNCHANGED <<session, activities>>
             \/ session.status = "sending" /\ pc' = "sessionRead" /\ UNCHANGED <<session, activities>>
             \/ /\ session.status \in {"pending", "active"}
                /\ session.applied = session.desired
                /\ activities' = StageActivities(job.run)
                /\ pc' = "activities" /\ UNCHANGED session
             \/ /\ session.status = "pending" /\ session.applied # session.desired /\ session.wait
                /\ pc' = "comment" /\ UNCHANGED <<session, activities>>
             \/ /\ session.status = "pending" /\ session.applied # session.desired /\ ~session.wait
                /\ session' = [session EXCEPT !.status = "sending"]
                /\ pc' = "sessionCall" /\ UNCHANGED activities
    /\ UNCHANGED <<run, policy, evidence, job, linear, late, bounds>>

AnswerSession ==
    /\ pc = "sessionCall"
    /\ LET q == SessionRequest IN
       \/ /\ Accepted(q)
          /\ SettleSession(ConfirmSession(session,
                 IF session.id = 0 THEN Len(linear'.sessions) ELSE session.id))
       \/ Limited /\ SettleSession(SessionRetries(session))
       \/ (Rejected(q) \/ Garbled(q)) /\ SettleSession(SessionFallsBack(session))
       \/ Unknown(q) /\ pc' = "sessionRead" /\ UNCHANGED session
    /\ UNCHANGED <<run, policy, activities, evidence, job, changes>>

ReadSession ==
    /\ pc = "sessionRead"
    /\ \/ ReadOk /\ SettleSession(ReconcileSession(session))
       \/ ReadFails /\ SettleSession(SessionFallsBack(session))
    /\ UNCHANGED <<run, policy, activities, evidence, job, changes>>

\* The loop over the unconfirmed activities, up to a request.
DrainActivity ==
    /\ pc = "activities"
    /\ \E i \in {NextActivity} :
         \/ (i = 0 \/ policy # "full") /\ pc' = "comment" /\ UNCHANGED activities
         \/ /\ i # 0 /\ policy = "full"
            /\ \/ activities[i].wait /\ pc' = "comment" /\ UNCHANGED activities
               \/ /\ ~activities[i].wait /\ activities[i].status # "pending"
                  /\ pc' = "activityRead" /\ UNCHANGED activities
               \/ /\ ~activities[i].wait /\ activities[i].status = "pending"
                  /\ SetActivity(i, "sending", FALSE) /\ pc' = "activityCall"
    /\ UNCHANGED <<run, policy, session, evidence, job, linear, late, bounds>>

\* An activity of unknown outcome is read before it is sent again.
ReadActivity ==
    /\ pc = "activityRead"
    /\ \E i \in {NextActivity} :
         \/ /\ ReadOk /\ Contains(linear.posted, i)
            /\ SetActivity(i, "confirmed", FALSE) /\ pc' = "activities" /\ UNCHANGED session
         \/ /\ ReadOk /\ ~Contains(linear.posted, i)
            /\ SetActivity(i, "sending", FALSE) /\ pc' = "activityCall" /\ UNCHANGED session
         \/ ReadFails /\ pc' = "comment" /\ UNCHANGED <<session, activities>>
         \/ ReadFails /\ FailActivity(i) /\ pc' = "stage"
    /\ UNCHANGED <<run, policy, evidence, job, changes>>

AnswerActivity ==
    /\ pc = "activityCall"
    /\ \E i \in {NextActivity} : LET q == [op |-> "post", activity |-> i] IN
         \/ /\ Accepted(q)
            /\ SetActivity(i, "confirmed", FALSE) /\ pc' = "activities" /\ UNCHANGED session
         \/ Limited /\ SetActivity(i, "pending", TRUE) /\ pc' = "comment" /\ UNCHANGED session
         \/ (Rejected(q) \/ Garbled(q)) /\ FailActivity(i) /\ pc' = "stage"
         \/ (Unknown(q) \/ Taken(q)) /\ pc' = "activityCheck" /\ UNCHANGED <<session, activities>>
    /\ UNCHANGED <<run, policy, evidence, job, changes>>

\* After an unknown answer or a duplicate: read at once, else leave it ambiguous.
CheckActivity ==
    /\ pc = "activityCheck"
    /\ \E i \in {NextActivity} :
         \/ /\ ReadOk /\ Contains(linear.posted, i)
            /\ SetActivity(i, "confirmed", FALSE) /\ pc' = "activities"
         \/ /\ ReadFails \/ (ReadOk /\ ~Contains(linear.posted, i))
            /\ SetActivity(i, "ambiguous", TRUE) /\ pc' = "comment"
    /\ UNCHANGED <<run, policy, session, evidence, job, changes>>

-----------------------------------------------------------------------------
(***************************************************************************)
(* The rest of Runtime._sync_linear_evidence.                              *)
(***************************************************************************)

StageComment ==
    /\ pc = "stage"
    /\ evidence' = StageEvidence(evidence, job)
    /\ pc' = "comment"
    /\ UNCHANGED <<run, policy, session, activities, job, linear, late, bounds>>

\* LinearEvidenceWorker.drain_one up to its request.
DrainComment ==
    /\ pc = "comment"
    /\ job' = None
    /\ \/ ~EvidenceIsDeliverable /\ pc' = "idle" /\ UNCHANGED evidence
       \/ /\ EvidenceIsDeliverable
          /\ \/ evidence.status # "pending" /\ pc' = "commentRead" /\ UNCHANGED evidence
             \/ evidence.status = "pending" /\ EvidenceIs("sending") /\ pc' = "commentCall"
    /\ UNCHANGED <<run, policy, session, activities, linear, late, bounds>>

ReadComment ==
    /\ pc = "commentRead"
    /\ \/ ReadFails /\ EvidenceIs("ambiguous") /\ pc' = "idle"
       \/ /\ ReadOk
          /\ \/ CommentIsDesired /\ evidence' = ConfirmEvidence(evidence) /\ pc' = "idle"
             \/ /\ ~CommentIsDesired /\ linear.comment = None /\ evidence.applied # None
                /\ EvidenceIs("failed") /\ pc' = "idle"
             \/ /\ ~CommentIsDesired /\ (linear.comment # None \/ evidence.applied = None)
                /\ EvidenceIs("sending") /\ pc' = "commentCall"
    /\ UNCHANGED <<run, policy, session, activities, job, changes>>

AnswerComment ==
    /\ pc = "commentCall"
    /\ LET q == CommentRequest IN
       \/ Accepted(q) /\ evidence' = ConfirmEvidence(evidence)
       \/ Limited /\ EvidenceIs("pending")
       \/ (Rejected(q) \/ Garbled(q)) /\ EvidenceIs("failed")
       \/ (Unknown(q) \/ Taken(q)) /\ EvidenceIs("ambiguous")
    /\ pc' = "idle"
    /\ UNCHANGED <<run, policy, session, activities, job, changes>>

-----------------------------------------------------------------------------
(***************************************************************************)
(* Time, Linear and crashes.                                               *)
(***************************************************************************)

\* The thirty seconds of every retry that waits have passed.
RetriesAreDue ==
    /\ session.wait \/ evidence.wait \/ \E i \in DOMAIN activities : activities[i].wait
    /\ session' = [session EXCEPT !.wait = FALSE]
    /\ evidence' = [evidence EXCEPT !.wait = FALSE]
    /\ activities' = [i \in DOMAIN activities |-> [activities[i] EXCEPT !.wait = FALSE]]
    /\ UNCHANGED <<run, policy, pc, job, linear, late, bounds>>

LateRequestLands ==
    \E q \in late :
        /\ linear' = Applied(linear, q)
        /\ late' = late \ {q}
        /\ UNCHANGED <<run, policy, rows, pc, job, bounds>>

\* Somebody deletes the run's comment in Linear.
DeleteComment ==
    /\ linear.comment # None
    /\ Fault
    /\ linear' = [linear EXCEPT !.comment = None]
    /\ UNCHANGED <<run, policy, rows, pc, job, late, changes>>

Crash ==
    /\ pc # "idle"
    /\ Fault
    /\ pc' = "idle" /\ job' = None
    /\ CASE pc = "sessionCall"  -> Unanswered(SessionRequest)
         [] pc = "activityCall" -> Unanswered([op |-> "post", activity |-> NextActivity])
         [] pc = "commentCall"  -> Unanswered(CommentRequest)
         [] OTHER               -> UNCHANGED <<linear, late>>
    /\ UNCHANGED <<run, policy, rows, changes>>

-----------------------------------------------------------------------------
Init ==
    /\ run = [states |-> 1, asked |-> FALSE, done |-> FALSE]
    /\ policy = "full"
    /\ session = NoSession /\ activities = <<>> /\ evidence = NoEvidence
    /\ pc = "idle" /\ job = None
    /\ linear = [sessions |-> <<>>, posted |-> <<>>, comment |-> None]
    /\ late = {}
    /\ faults = 0 /\ changes = 0

\* One step of the runtime's publication.
Publish ==
    \/ StartSync \/ DrainSession \/ AnswerSession \/ ReadSession
    \/ DrainActivity \/ ReadActivity \/ AnswerActivity \/ CheckActivity
    \/ StageComment \/ DrainComment \/ ReadComment \/ AnswerComment

Next ==
    \/ Publish \/ RetriesAreDue
    \/ Progress \/ ChangePolicy \/ LateRequestLands \/ DeleteComment \/ Crash

\* The runtime keeps stepping and the clock keeps running; nothing is assumed
\* of the run, the operator, Linear's late effects or crashes.
Spec == Init /\ [][Next]_vars /\ WF_vars(Publish) /\ WF_vars(RetriesAreDue)

-----------------------------------------------------------------------------
(***************************************************************************)
(* The promise it implements.                                              *)
(***************************************************************************)

StagedKeys == [i \in DOMAIN activities |-> activities[i].key]

ShownKeys == [i \in DOMAIN linear.posted |-> StagedKeys[linear.posted[i]]]

Confirmed == {i \in DOMAIN activities : activities[i].status = "confirmed"}

Promise == INSTANCE SessionPromise WITH
  Terminal <- <<"terminal">>,
  sessions <- Len(linear.sessions), shown <- ShownKeys,
  staged <- StagedKeys, known <- Confirmed, givenUp <- session.status = "fallback"

-----------------------------------------------------------------------------
(***************************************************************************)
(* Properties.                                                             *)
(***************************************************************************)

\* Every row, and every place of the step, has a value the code can store;
\* a row that waits for nothing carries no retry time.
TypeOK ==
    /\ run \in Run /\ policy \in Policies
    /\ session \in [status: {"absent", "pending", "sending", "active", "fallback"},
                    id: 0 .. 1, desired: 0 .. MaxStates, applied: 0 .. MaxStates, wait: BOOLEAN]
    /\ session.status \in {"active", "fallback"} => ~session.wait
    /\ \A i \in DOMAIN activities :
         activities[i] \in [key: Keys, wait: BOOLEAN,
                            status: {"pending", "sending", "ambiguous", "confirmed", "failed"}]
    /\ evidence \in [status: {"absent", "pending", "sending", "ambiguous", "confirmed", "failed"},
                     desired: Bodies \cup {None}, applied: Bodies \cup {None}, wait: BOOLEAN]
    /\ pc \in {"idle", "session", "sessionCall", "sessionRead", "activities", "activityRead",
               "activityCall", "activityCheck", "stage", "comment", "commentRead", "commentCall"}
    /\ job \in Bodies \cup {None}
    /\ linear.comment \in Bodies \cup {None}
    /\ \A q \in late : q \in Request

\* However requests are lost, repeated or late, and wherever the process
\* dies, Linear never holds two sessions with the run's marker (ADR 0022: a
\* create that cannot be identified is never sent again).
OneSession == Len(linear.sessions) <= 1

\* Rows and Linear together do what SessionPromise says and nothing else: a
\* session is created once (OneSession follows), shows each activity once and
\* in the order of the staging, is known to show only what it shows, and is
\* not used again once the row fell back to the comment (ADR 0022, ADR 0032).
KeepsSessionPromise == Promise!Spec

\* What the session shows is the beginning of the staging order, each
\* activity once: a lost or late post never lets a later activity pass it, and
\* the terminal response is never followed (ADR 0032).
ActivitiesInOrder ==
    /\ \A i \in DOMAIN linear.posted : linear.posted[i] = i
    /\ \A i \in DOMAIN activities : activities[i].key = <<"terminal">> => i = Len(activities)

\* A row becomes confirmed only in a state in which Linear shows what it
\* asks for: the links of the session, the activity, the body of the comment.
ConfirmedIsShown ==
    [][/\ session'.status = "active" /\ session # session' =>
            linear'.sessions[session'.id] = session'.applied
       /\ \A i \in DOMAIN activities :
            activities'[i].status = "confirmed" => Contains(linear'.posted, i)
       /\ evidence'.status = "confirmed" /\ evidence.status # "confirmed" =>
            linear'.comment = evidence'.desired]_vars

SummaryIsShown ==
    \/ \E i \in DOMAIN linear.posted : activities[linear.posted[i]].key = <<"terminal">>
    \/ linear.comment # None /\ linear.comment.run.done
    \* confirmed, and deleted since
    \/ evidence.status = "confirmed" /\ evidence.applied.run.done

\* The create of the comment took effect, the ledger does not know it, and
\* the comment shows another body than the one now desired.
CommentIsUnclaimed ==
    /\ linear.comment # None /\ evidence.applied = None
    /\ linear.comment # evidence.desired

\* The summary of a completed run reaches Linear, as the session's terminal
\* activity or in the comment, unless the policy denies it or a row says that
\* delivery failed; the one other exception is the unclaimed comment, of which
\* CommentConverges tells.
SummaryArrives ==
    run.done ~> (\/ SummaryIsShown \/ policy = "denied"
                 \/ evidence.status = "failed" \/ CommentIsUnclaimed)

\* "Converge one persisted comment ID without blind mutation retries"
\* (LinearEvidenceWorker): the comment of a completed run comes to show the
\* body the ledger desires, or its row fails.
CommentConverges ==
    run.done /\ evidence.status \in {"pending", "sending", "ambiguous"}
    ~> (\/ linear.comment = evidence.desired \/ policy # "full"
        \/ evidence.status \in {"confirmed", "failed"})
=============================================================================
