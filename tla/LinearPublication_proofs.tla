----------------------- MODULE LinearPublication_proofs -----------------------
(***************************************************************************)
(* What the publication of a run in Linear keeps for every number of       *)
(* states, faults and policy changes: type correctness, OneSession,        *)
(* ActivitiesInOrder, ConfirmedIsShown, and the promise of SessionPromise. *)
(*                                                                         *)
(* None of them is inductive.  That there is one session rests on there    *)
(* being either a session or a create under way, and on the row never      *)
(* coming back to a state in which it may create another (SessionOnce).    *)
(* That activities are posted in order rests on how far the rows are       *)
(* confirmed and on where each late post belongs (PostedInOrder); that     *)
(* nothing follows the terminal response rests on the run being over and   *)
(* all of it staged (TerminalIsLast); the promise, besides, on no late     *)
(* post being without a session or a row (SessionFirst).                   *)
(***************************************************************************)
EXTENDS LinearPublication, Selection_proofs

\* The places of a step that has rendered the run and staged no comment yet.
Unstaged == {"session", "sessionCall", "sessionRead", "activities", "activityRead",
             "activityCall", "activityCheck", "stage"}

\* The run, the policy and what the step rendered: as long as it stages, that is
\* the run as it is, for the run goes on only between two steps.
RunTyped ==
    /\ run \in Run /\ policy \in Policies
    /\ pc \in Unstaged \cup {"idle", "comment", "commentRead", "commentCall"}
    /\ job \in Bodies \cup {None}
    /\ pc \in Unstaged => job \in Bodies /\ job.run = run

\* What Linear holds, and what it may still apply.
LinearTyped ==
    /\ linear \in [sessions: Seq(1 .. MaxStates), posted: Seq(Nat),
                   comment: Bodies \cup {None}]
    /\ late \subseteq Request

\* The row of the comment.
EvidenceRow == [status: {"absent", "pending", "sending", "ambiguous", "confirmed", "failed"},
                desired: Bodies \cup {None}, applied: Bodies \cup {None}, wait: BOOLEAN]

\* A row that exists asks for a body.
EvidenceTyped ==
    /\ evidence \in EvidenceRow
    /\ evidence.status # "absent" => evidence.desired \in Bodies
    /\ pc \in {"commentCall", "commentRead"} => evidence.status # "absent"

\* The places of a step that goes through the activities.
OnActivities == {"activities", "activityRead", "activityCall", "activityCheck"}

\* The row of the session.
SessionRow == [status: {"absent", "pending", "sending", "active", "fallback"},
               id: 0 .. 1, desired: 0 .. MaxStates, applied: 0 .. MaxStates, wait: BOOLEAN]

\* The row of the session, and what is known of it where the step stands.
SessionTyped ==
    /\ session \in SessionRow
    /\ session.status # "absent" => session.desired # 0
    /\ session.status = "absent" => session.id = 0
    /\ session.status = "active" => session.id = 1
    /\ session.status \in {"active", "fallback"} => ~session.wait
    /\ pc \in {"sessionCall", "sessionRead"} => session.status = "sending"
    /\ pc \in {"session"} \cup OnActivities => session.status # "absent"

\* The creates that may still land.
Creates == {q \in late : q.op = "createSession"}

\* The row may create a session, now or by a step of its own.
MayCreate ==
    session.id = 0 /\ (session.status \in {"absent", "pending"} \/ pc = "sessionCall")

\* There is at most one session, or one create that may still make one; and
\* while the row may create one there is neither.
SessionOnce ==
    /\ Len(linear.sessions) <= 1
    /\ session.id # 0 => Len(linear.sessions) = 1
    /\ MayCreate => Len(linear.sessions) = 0 /\ Creates = {}
    /\ Creates # {} => Len(linear.sessions) = 0
    /\ \A q, r \in Creates : q = r

\* A row of the activities.
ActivityRow == [key: Keys, wait: BOOLEAN,
                status: {"pending", "sending", "ambiguous", "confirmed", "failed"}]

\* The rows of the activities.
ActivitiesTyped == activities \in Seq(ActivityRow)

\* What was posted is the beginning of the staging order and reaches as far as
\* what is confirmed; the next post, and every late one, is in it or the next.
PostedInOrder ==
    /\ \A i \in DOMAIN linear.posted : linear.posted[i] = i
    /\ \A i \in DOMAIN activities :
         /\ activities[i].status = "confirmed" => i <= Len(linear.posted)
         /\ activities[i].status = "failed" => session.status = "fallback"
    /\ \A q \in late : q.op = "post" => q.activity \in 1 .. Len(linear.posted) + 1
    /\ pc \in OnActivities => session.status # "fallback"
    /\ pc \in OnActivities \ {"activities"} => NextActivity # 0

\* The terminal response is the last activity, of a run that is over and has
\* nothing more to stage.
TerminalIsLast ==
    \A i \in DOMAIN activities :
      activities[i].key = <<"terminal">> =>
        /\ i = Len(activities) /\ run.done
        /\ \A k \in DOMAIN AgentActivities(run) : Staged(AgentActivities(run)[k])

\* The inductive invariant.
PublicationInv ==
    /\ RunTyped /\ LinearTyped /\ EvidenceTyped
    /\ SessionTyped /\ SessionOnce
    /\ ActivitiesTyped /\ PostedInOrder /\ TerminalIsLast

-----------------------------------------------------------------------------
(* What the operators return.                                              *)

\* What is rendered of a run is a body, and names that run.
LEMMA BodyTyped ==
  ASSUME NEW r \in Run, NEW p
  PROVE  Body(r, p) \in Bodies /\ Body(r, p).run = r
BY DEF Body, Bodies

\* What neither part holds the concatenation does not hold.
LEMMA ConcatWithout ==
  ASSUME NEW T, NEW s \in Seq(T), NEW t \in Seq(T), NEW x,
         \A i \in DOMAIN s : s[i] # x, \A i \in DOMAIN t : t[i] # x
  PROVE  s \o t \in Seq(T) /\ \A i \in DOMAIN (s \o t) : (s \o t)[i] # x
<1>1. Len(s) \in Nat /\ DOMAIN s = 1 .. Len(s) /\ Len(t) \in Nat /\ DOMAIN t = 1 .. Len(t)
  OBVIOUS
<1>2. SUFFICES ASSUME NEW i \in DOMAIN (s \o t)
               PROVE  (s \o t)[i] # x
  BY ConcatAt
<1>3. i \in 1 .. Len(s) \/ i \in Len(s) + 1 .. Len(s) + Len(t)
  BY <1>1, ConcatAt
<1>4. CASE i \in 1 .. Len(s)
  BY <1>1, <1>4, ConcatAt
<1>5. CASE i \in Len(s) + 1 .. Len(s) + Len(t)
  BY <1>1, <1>5, ConcatAt
<1> QED
  BY <1>3, <1>4, <1>5

\* What only a last part of at most one element holds is last.
LEMMA ConcatLast ==
  ASSUME NEW T, NEW s \in Seq(T), NEW t \in Seq(T), NEW x,
         \A i \in DOMAIN s : s[i] # x, Len(t) <= 1
  PROVE  /\ s \o t \in Seq(T)
         /\ \A i \in DOMAIN (s \o t) :
              (s \o t)[i] = x => i = Len(s \o t) /\ Len(t) = 1
<1>1. Len(s) \in Nat /\ DOMAIN s = 1 .. Len(s) /\ Len(t) \in Nat /\ DOMAIN t = 1 .. Len(t)
  OBVIOUS
<1>2. SUFFICES ASSUME NEW i \in DOMAIN (s \o t), (s \o t)[i] = x
               PROVE  i = Len(s \o t) /\ Len(t) = 1
  BY ConcatAt
<1>3. i \in 1 .. Len(s) \/ i \in Len(s) + 1 .. Len(s) + Len(t)
  BY <1>1, ConcatAt
<1>4. ~ (i \in 1 .. Len(s))
  BY <1>1, <1>2, ConcatAt
<1>5. Len(s \o t) = Len(s) + Len(t)
  BY ConcatAt
<1> QED
  BY <1>1, <1>3, <1>4, <1>5

\* The projection lists keys, the terminal response last and only of a run that
\* is over.
LEMMA AgentActivitiesAre ==
  ASSUME NEW r \in Run
  PROVE  /\ AgentActivities(r) \in Seq(Keys)
         /\ \A i \in DOMAIN AgentActivities(r) :
              AgentActivities(r)[i] = <<"terminal">> =>
                i = Len(AgentActivities(r)) /\ r.done
<1>1. r.states \in 1 .. MaxStates /\ r.asked \in BOOLEAN /\ r.done \in BOOLEAN
  BY DEF Run
<1> DEFINE StateRun(i) == <<"state", i,
                            IF i < r.states \/ r.done THEN "completed" ELSE "active">>
           A == <<<<"start">>>>
           B == [i \in 1 .. r.states |-> StateRun(i)]
           C == IF r.asked /\ ~r.done THEN <<<<"attention", r.states>>>> ELSE <<>>
           D == IF r.done THEN <<<<"terminal">>>> ELSE <<>>
<1>2. <<"start">> \in Keys /\ <<"terminal">> \in Keys /\ <<"attention", r.states>> \in Keys
  BY <1>1 DEF Keys
<1>3. \A i \in 1 .. r.states : StateRun(i) \in Keys
  BY <1>1, BoundsAreNaturals DEF Keys
<1>4. \A i \in 1 .. r.states : StateRun(i) # <<"terminal">>
  OBVIOUS
<1>5. <<"start">> # <<"terminal">> /\ <<"attention", r.states>> # <<"terminal">>
  OBVIOUS
<1> HIDE DEF StateRun
<1>6. A \in Seq(Keys) /\ Len(A) = 1 /\ \A i \in DOMAIN A : A[i] # <<"terminal">>
  BY <1>2, <1>5
<1>7. B \in Seq(Keys) /\ \A i \in DOMAIN B : B[i] # <<"terminal">>
  <2>1. r.states \in Nat
    BY <1>1, BoundsAreNaturals
  <2>2. B \in Seq(Keys)
    BY <1>3, <2>1
  <2> QED
    BY <1>4, <2>1, <2>2
<1>8. C \in Seq(Keys) /\ \A i \in DOMAIN C : C[i] # <<"terminal">>
  BY <1>2, <1>5
<1>9. D \in Seq(Keys) /\ Len(D) <= 1 /\ (Len(D) = 1 => r.done)
  BY <1>1, <1>2
<1>10. AgentActivities(r) = A \o B \o C \o D
  BY DEF AgentActivities, StateRun
<1> HIDE DEF A, B, C, D
<1>11. A \o B \in Seq(Keys) /\ \A i \in DOMAIN (A \o B) : (A \o B)[i] # <<"terminal">>
  BY <1>6, <1>7, ConcatWithout
<1> DEFINE F == A \o B
<1>12. F \in Seq(Keys) /\ \A i \in DOMAIN F : F[i] # <<"terminal">>
  BY <1>11
<1> HIDE DEF F
<1>13. F \o C \in Seq(Keys) /\ \A i \in DOMAIN (F \o C) : (F \o C)[i] # <<"terminal">>
  BY <1>8, <1>12, ConcatWithout
<1> DEFINE G == F \o C
<1>14. G \in Seq(Keys) /\ \A i \in DOMAIN G : G[i] # <<"terminal">>
  BY <1>13
<1>15. AgentActivities(r) = G \o D
  BY <1>10 DEF F
<1> HIDE DEF G
<1>16. /\ G \o D \in Seq(Keys)
       /\ \A i \in DOMAIN (G \o D) :
            (G \o D)[i] = <<"terminal">> => i = Len(G \o D) /\ r.done
  <2>1. G \o D \in Seq(Keys) /\ \A i \in DOMAIN (G \o D) :
           (G \o D)[i] = <<"terminal">> => i = Len(G \o D) /\ Len(D) = 1
    BY <1>9, <1>14, ConcatLast
  <2> QED
    BY <1>9, <2>1
<1> QED
  BY <1>15, <1>16

-----------------------------------------------------------------------------
(* Linear.                                                                 *)

\* The fields of each kind of request.
LEMMA RequestIs ==
  ASSUME NEW q \in Request
  PROVE  \/ q.op \in {"createSession", "updateSession"} /\ q.urls \in 1 .. MaxStates
         \/ q.op = "post" /\ q.activity \in Nat
         \/ q.op \in {"createComment", "updateComment"} /\ q.body \in Bodies
BY DEF Request

\* What one request changes.
LEMMA AppliedIs ==
  ASSUME LinearTyped, NEW q \in Request
  PROVE  /\ Applied(linear, q) \in [sessions: Seq(1 .. MaxStates), posted: Seq(Nat),
                                    comment: Bodies \cup {None}]
         /\ q.op \notin {"createSession", "updateSession"} =>
              Applied(linear, q).sessions = linear.sessions
         /\ q.op = "createSession" =>
              Applied(linear, q).sessions = Append(linear.sessions, q.urls)
         /\ q.op = "updateSession" =>
              Applied(linear, q).sessions = [linear.sessions EXCEPT ![session.id] = q.urls]
         /\ q.op # "post" => Applied(linear, q).posted = linear.posted
         /\ q.op = "post" =>
              Applied(linear, q).posted = IF Contains(linear.posted, q.activity)
                                          THEN linear.posted
                                          ELSE Append(linear.posted, q.activity)
         /\ q.op \notin {"createComment", "updateComment"} =>
              Applied(linear, q).comment = linear.comment
         /\ q.op \in {"createComment", "updateComment"} =>
              /\ ~Duplicate(linear, q) /\ ~Missing(linear, q) =>
                   Applied(linear, q).comment = q.body
              /\ Duplicate(linear, q) \/ Missing(linear, q) =>
                   Applied(linear, q) = linear
<1> DEFINE World == [sessions: Seq(1 .. MaxStates), posted: Seq(Nat),
                     comment: Bodies \cup {None}]
<1>1. linear \in World
  BY DEF LinearTyped
<1>2. CASE q.op = "createSession"
  <2>1. q.urls \in 1 .. MaxStates
    BY <1>2, RequestIs
  <2>2. Applied(linear, q) = [linear EXCEPT !.sessions = Append(linear.sessions, q.urls)]
    BY <1>2 DEF Applied, Duplicate, Missing
  <2>3. Append(linear.sessions, q.urls) \in Seq(1 .. MaxStates)
    BY <1>1, <2>1
  <2> QED
    BY <1>1, <1>2, <2>2, <2>3
<1>3. CASE q.op = "updateSession"
  <2>1. q.urls \in 1 .. MaxStates
    BY <1>3, RequestIs
  <2> DEFINE s == [linear.sessions EXCEPT ![session.id] = q.urls]
  <2>2. Applied(linear, q) = [linear EXCEPT !.sessions = s]
    BY <1>1, <1>3 DEF Applied, Duplicate, Missing
  <2>3. s \in Seq(1 .. MaxStates)
    BY <1>1, <2>1, SeqExcept
  <2> HIDE DEF s
  <2>4. /\ Applied(linear, q) \in World /\ Applied(linear, q).sessions = s
        /\ Applied(linear, q).posted = linear.posted
        /\ Applied(linear, q).comment = linear.comment
    BY <1>1, <2>2, <2>3
  <2> QED
    BY <1>3, <2>4 DEF s
<1>4. CASE q.op = "post"
  <2>1. q.activity \in Nat
    BY <1>4, RequestIs
  <2>2. Applied(linear, q) = IF Contains(linear.posted, q.activity) THEN linear
                             ELSE [linear EXCEPT !.posted = Append(linear.posted, q.activity)]
    <3>1. ~Missing(linear, q) /\ (Duplicate(linear, q) <=> Contains(linear.posted, q.activity))
      BY <1>4 DEF Duplicate, Missing
    <3>2. CASE Contains(linear.posted, q.activity)
      BY <3>1, <3>2 DEF Applied
    <3>3. CASE ~Contains(linear.posted, q.activity)
      BY <1>4, <3>1, <3>3 DEF Applied
    <3> QED
      BY <3>2, <3>3
  <2>3. Append(linear.posted, q.activity) \in Seq(Nat)
    BY <1>1, <2>1
  <2> QED
    BY <1>1, <1>4, <2>2, <2>3
<1>5. CASE q.op \in {"createComment", "updateComment"}
  <2>1. q.body \in Bodies
    BY <1>5, RequestIs
  <2>2. Applied(linear, q) = IF Duplicate(linear, q) \/ Missing(linear, q) THEN linear
                             ELSE [linear EXCEPT !.comment = q.body]
    BY <1>5 DEF Applied
  <2> QED
    BY <1>1, <1>5, <2>1, <2>2
<1> QED
  BY <1>2, <1>3, <1>4, <1>5, RequestIs

\* A request is on its way when the step waits for its answer.
Outgoing(q) ==
    \/ pc = "sessionCall" /\ q = SessionRequest
    \/ pc = "activityCall" /\ q = [op |-> "post", activity |-> NextActivity]
    \/ pc = "commentCall" /\ q = CommentRequest

\* The next activity is the first that is not confirmed.
LEMMA NextActivityIs ==
  ASSUME ActivitiesTyped, NextActivity # 0
  PROVE  /\ NextActivity \in DOMAIN activities /\ NextActivity \in Unconfirmed
         /\ \A j \in Unconfirmed : NextActivity <= j
<1>1. Unconfirmed \subseteq Nat /\ Unconfirmed # {}
  BY DEF ActivitiesTyped, Unconfirmed, NextActivity
<1>2. \E m \in Unconfirmed : \A j \in Unconfirmed : m <= j
  BY <1>1, LeastIn
<1>3. NextActivity \in Unconfirmed /\ \A j \in Unconfirmed : NextActivity <= j
  BY <1>1, <1>2 DEF NextActivity
<1> QED
  BY <1>3 DEF Unconfirmed

\* What is on its way is a request.
LEMMA OutgoingTyped ==
  ASSUME PublicationInv, NEW q, Outgoing(q)
  PROVE  q \in Request
<1>1. CASE pc = "sessionCall" /\ q = SessionRequest
  <2>1. session.desired \in 1 .. MaxStates
    BY <1>1, BoundsAreNaturals DEF PublicationInv, SessionTyped, SessionRow
  <2> QED
    BY <1>1, <2>1 DEF SessionRequest, Request
<1>2. CASE pc = "activityCall" /\ q = [op |-> "post", activity |-> NextActivity]
  <2>1. NextActivity # 0
    BY <1>2 DEF PublicationInv, PostedInOrder, OnActivities
  <2>2. NextActivity \in Nat
    BY <2>1, NextActivityIs DEF PublicationInv, ActivitiesTyped
  <2> QED
    BY <1>2, <2>2 DEF Request
<1>3. CASE pc = "commentCall" /\ q = CommentRequest
  <2>1. evidence.desired \in Bodies
    BY <1>3 DEF PublicationInv, EvidenceTyped
  <2> QED
    BY <1>3, <2>1 DEF CommentRequest, Request
<1> QED
  BY <1>1, <1>2, <1>3 DEF Outgoing

\* Linear and the unanswered requests stay as they are.
LinearLeft == UNCHANGED <<linear, late>>

\* Linear applies the request at once.
LinearApplies(q) == linear' = Applied(linear, q) /\ late' = late

\* Linear may apply the request later.
LinearKeeps(q) == late' = late \cup {q} /\ linear' = linear

\* Linear applies a request nobody waits for any more.
LinearLands(q) == linear' = Applied(linear, q) /\ late' = late \ {q}

\* Somebody deletes the comment.
CommentGoes == linear' = [linear EXCEPT !.comment = None] /\ late' = late

\* No step changes Linear otherwise, and a step that sends a request moves on.
LEMMA LinearChanges ==
  ASSUME PublicationInv, Next
  PROVE  \/ LinearLeft
         \/ \E q \in Request :
              Outgoing(q) /\ pc' # pc /\ (LinearApplies(q) \/ LinearKeeps(q))
         \/ \E q \in late : LinearLands(q)
         \/ CommentGoes
<1>1. ASSUME NEW q, Outgoing(q),
             \/ Accepted(q) \/ Taken(q) \/ Limited \/ Rejected(q) \/ Garbled(q)
             \/ Unknown(q) \/ Unanswered(q)
      PROVE  LinearLeft \/ LinearApplies(q) \/ LinearKeeps(q)
  BY <1>1 DEF Accepted, Taken, Limited, Rejected, Garbled, Unknown, Unanswered,
              LinearLeft, LinearApplies, LinearKeeps
<1>2. CASE AnswerSession
  <2>1. pc = "sessionCall" /\ pc' # pc
    BY <1>2 DEF AnswerSession, SettleSession, AfterSession
  <2> QED
    BY <1>1, <1>2, <2>1, OutgoingTyped DEF AnswerSession, Outgoing
<1>3. CASE AnswerActivity
  <2>1. pc = "activityCall" /\ pc' # pc
    BY <1>3 DEF AnswerActivity
  <2> QED
    BY <1>1, <1>3, <2>1, OutgoingTyped DEF AnswerActivity, Outgoing
<1>4. CASE AnswerComment
  <2>1. pc = "commentCall" /\ pc' # pc
    BY <1>4 DEF AnswerComment
  <2> QED
    BY <1>1, <1>4, <2>1, OutgoingTyped DEF AnswerComment, Outgoing
<1>5. CASE Crash
  <2>1. pc' # pc
    BY <1>5 DEF Crash
  <2> QED
    BY <1>1, <1>5, <2>1, OutgoingTyped DEF Crash, Outgoing, LinearLeft
<1>6. CASE ReadSession \/ ReadActivity \/ CheckActivity \/ ReadComment
  BY <1>6 DEF ReadSession, ReadActivity, CheckActivity, ReadComment, ReadOk, ReadFails,
              LinearLeft
<1>7. CASE \/ StartSync \/ DrainSession \/ DrainActivity \/ StageComment \/ DrainComment
           \/ RetriesAreDue \/ Progress \/ ChangePolicy
  BY <1>7 DEF StartSync, DrainSession, DrainActivity, StageComment, DrainComment,
              RetriesAreDue, Progress, ChangePolicy, LinearLeft
<1>8. CASE LateRequestLands
  BY <1>8 DEF LateRequestLands, LinearLands
<1>9. CASE DeleteComment
  BY <1>9 DEF DeleteComment, CommentGoes
<1> QED
  BY <1>2, <1>3, <1>4, <1>5, <1>6, <1>7, <1>8, <1>9 DEF Next, Publish

\* LinearTyped is kept.
LEMMA LinearTypedStep ==
  ASSUME PublicationInv, Next
  PROVE  LinearTyped'
<1>0. LinearTyped
  BY DEF PublicationInv
<1>1. CASE LinearLeft
  BY <1>0, <1>1 DEF LinearLeft, LinearTyped
<1>2. ASSUME NEW q \in Request, LinearApplies(q) \/ LinearKeeps(q)
      PROVE  LinearTyped'
  BY <1>0, <1>2, AppliedIs DEF LinearApplies, LinearKeeps, LinearTyped
<1>3. ASSUME NEW q \in late, LinearLands(q)
      PROVE  LinearTyped'
  BY <1>0, <1>3, AppliedIs DEF LinearLands, LinearTyped
<1>4. CASE CommentGoes
  BY <1>0, <1>4 DEF CommentGoes, LinearTyped
<1> QED
  BY <1>1, <1>2, <1>3, <1>4, LinearChanges

-----------------------------------------------------------------------------
(* The run and the comment.                                                *)

\* RunTyped is kept.
LEMMA RunTypedStep ==
  ASSUME PublicationInv, Next
  PROVE  RunTyped'
<1>0. RunTyped
  BY DEF PublicationInv
<1> USE DEF Unstaged
<1>1. CASE Progress
  <2>1. run \in Run /\ run.states \in 1 .. MaxStates
    BY <1>0 DEF RunTyped, Run
  <2>2. ASSUME EnterState
        PROVE  run' \in Run
    <3>1. run.states + 1 \in 1 .. MaxStates
      BY <2>1, <2>2, BoundsAreNaturals DEF EnterState
    <3>2. \A r \in Run, n \in 1 .. MaxStates :
            [r EXCEPT !.states = n, !.asked = FALSE] \in Run
      BY DEF Run
    <3> QED
      BY <2>1, <2>2, <3>1, <3>2 DEF EnterState
  <2>3. ASSUME Ask \/ Complete
        PROVE  run' \in Run
    BY <2>1, <2>3 DEF Ask, Complete, Run
  <2>4. run' \in Run
    BY <1>1, <2>2, <2>3 DEF Progress
  <2> QED
    BY <1>0, <1>1, <2>4 DEF RunTyped, Progress
<1>2. CASE ChangePolicy
  BY <1>0, <1>2 DEF RunTyped, ChangePolicy, Policies
<1>3. CASE StartSync
  BY <1>0, <1>3, BodyTyped DEF RunTyped, StartSync
<1>4. CASE AnswerSession
  BY <1>0, <1>4 DEF RunTyped, AnswerSession, SettleSession, AfterSession
<1>5. CASE ReadSession
  BY <1>0, <1>5 DEF RunTyped, ReadSession, SettleSession, AfterSession
<1>6. CASE DrainSession
  BY <1>0, <1>6 DEF RunTyped, DrainSession
<1>7. CASE DrainActivity \/ ReadActivity \/ AnswerActivity \/ CheckActivity
  BY <1>0, <1>7 DEF RunTyped, DrainActivity, ReadActivity, AnswerActivity, CheckActivity
<1>8. CASE StageComment \/ DrainComment \/ ReadComment \/ AnswerComment
  BY <1>0, <1>8 DEF RunTyped, StageComment, DrainComment, ReadComment, AnswerComment
<1>9. CASE RetriesAreDue \/ LateRequestLands \/ DeleteComment \/ Crash
  BY <1>0, <1>9 DEF RunTyped, RetriesAreDue, LateRequestLands, DeleteComment, Crash
<1> QED
  BY <1>1, <1>2, <1>3, <1>4, <1>5, <1>6, <1>7, <1>8, <1>9 DEF Next, Publish

\* EvidenceTyped is kept.
LEMMA EvidenceTypedStep ==
  ASSUME PublicationInv, Next
  PROVE  EvidenceTyped'
<1>0. EvidenceTyped /\ RunTyped
  BY DEF PublicationInv
<1>1. CASE StageComment
  <2>1. job \in Bodies
    BY <1>0, <1>1 DEF StageComment, RunTyped, Unstaged
  <2>2. \A body \in Bodies :
          /\ [evidence EXCEPT !.status = "pending", !.desired = body, !.wait = FALSE]
               \in EvidenceRow
          /\ [evidence EXCEPT !.status = "pending", !.desired = body, !.wait = FALSE].desired = body
    BY <1>0 DEF EvidenceTyped, EvidenceRow
  <2> QED
    BY <1>0, <1>1, <2>1, <2>2 DEF StageComment, StageEvidence, EvidenceTyped
<1>2. ASSUME NEW status \in {"pending", "sending", "ambiguous", "failed"}, EvidenceIs(status),
             evidence.status # "absent"
      PROVE  EvidenceTyped'
  <2>1. (status \in {"pending", "ambiguous"}) \in BOOLEAN
    OBVIOUS
  <2>2. \A e \in EvidenceRow, w \in BOOLEAN :
          /\ [e EXCEPT !.status = status, !.wait = w] \in EvidenceRow
          /\ [e EXCEPT !.status = status, !.wait = w].status = status
          /\ [e EXCEPT !.status = status, !.wait = w].desired = e.desired
    BY <1>2 DEF EvidenceRow
  <2>3. PICK w \in BOOLEAN : evidence' = [evidence EXCEPT !.status = status, !.wait = w]
    BY <1>2, <2>1 DEF EvidenceIs
  <2> QED
    BY <1>0, <1>2, <2>2, <2>3 DEF EvidenceTyped
<1>3. ASSUME evidence' = ConfirmEvidence(evidence), evidence.status # "absent"
      PROVE  EvidenceTyped'
  BY <1>0, <1>3 DEF ConfirmEvidence, EvidenceTyped, EvidenceRow
<1>4. CASE DrainComment
  BY <1>0, <1>2, <1>4 DEF DrainComment, EvidenceIsDeliverable, EvidenceTyped
<1>5. CASE ReadComment
  BY <1>0, <1>2, <1>3, <1>5 DEF ReadComment, EvidenceTyped
<1>6. CASE AnswerComment
  BY <1>0, <1>2, <1>3, <1>6 DEF AnswerComment, EvidenceTyped
<1>7. CASE RetriesAreDue
  BY <1>0, <1>7 DEF RetriesAreDue, EvidenceTyped, EvidenceRow
<1>8. CASE evidence' = evidence /\ (pc' \in {"commentCall", "commentRead"} => pc' = pc)
  BY <1>0, <1>8 DEF EvidenceTyped
<1>9. CASE \/ Progress \/ ChangePolicy \/ StartSync \/ DrainSession \/ DrainActivity \/ ReadActivity
           \/ AnswerActivity \/ CheckActivity \/ LateRequestLands \/ DeleteComment \/ Crash
  BY <1>8, <1>9 DEF Progress, ChangePolicy, StartSync, DrainSession, DrainActivity,
    ReadActivity,
            AnswerActivity, CheckActivity, LateRequestLands, DeleteComment, Crash, rows
<1>10. CASE AnswerSession \/ ReadSession
  BY <1>8, <1>10 DEF AnswerSession, ReadSession, SettleSession, AfterSession
<1> QED
  BY <1>1, <1>4, <1>5, <1>6, <1>7, <1>9, <1>10 DEF Next, Publish

-----------------------------------------------------------------------------
(* The session.                                                            *)

\* The fields of a session's row.
LEMMA SessionRowIs ==
  ASSUME NEW s \in SessionRow
  PROVE  /\ s.id \in 0 .. 1 /\ s.desired \in 0 .. MaxStates /\ s.applied \in 0 .. MaxStates
         /\ s.wait \in BOOLEAN
         /\ s.status \in {"absent", "pending", "sending", "active", "fallback"}
BY DEF SessionRow

\* Staging leaves the row, or makes it pending for the new links.
LEMMA StageSessionIs ==
  ASSUME NEW s \in SessionRow, NEW urls \in 1 .. MaxStates
  PROVE  \/ StageSession(s, urls) = s /\ s.status # "absent"
         \/ /\ s.status \notin {"sending", "fallback"}
            /\ StageSession(s, urls) \in SessionRow
            /\ StageSession(s, urls).status = "pending"
            /\ StageSession(s, urls).id = s.id
            /\ StageSession(s, urls).desired = urls
            /\ StageSession(s, urls).applied = s.applied
<1>0. urls \in 0 .. MaxStates
  BY BoundsAreNaturals
<1>1. /\ [s EXCEPT !.status = "pending", !.desired = urls] \in SessionRow
      /\ [s EXCEPT !.status = "pending", !.desired = urls, !.wait = FALSE] \in SessionRow
  BY <1>0 DEF SessionRow
<1>2. CASE s.status = "absent"
  BY <1>1, <1>2 DEF StageSession, SessionRow
<1>3. CASE s.status # "absent" /\ s.desired # urls /\ s.status \notin {"fallback", "sending"}
  BY <1>1, <1>3 DEF StageSession, SessionRow
<1>4. CASE s.status # "absent" /\ ~ (s.desired # urls /\ s.status \notin {"fallback", "sending"})
  BY <1>4 DEF StageSession
<1> QED
  BY <1>2, <1>3, <1>4

\* The row after its session is confirmed.
LEMMA ConfirmSessionIs ==
  ASSUME NEW s \in SessionRow, NEW id \in 0 .. 1
  PROVE  /\ ConfirmSession(s, id) \in SessionRow
         /\ ConfirmSession(s, id).status = "active" /\ ConfirmSession(s, id).id = id
         /\ ConfirmSession(s, id).desired = s.desired /\ ~ConfirmSession(s, id).wait
         /\ ConfirmSession(s, id).applied = s.desired
BY DEF ConfirmSession, SessionRow

\* The row after an error.
LEMMA SessionErrorIs ==
  ASSUME NEW s \in SessionRow
  PROVE  /\ SessionRetries(s) \in SessionRow /\ SessionFallsBack(s) \in SessionRow
         /\ SessionRetries(s).status = "pending" /\ SessionFallsBack(s).status = "fallback"
         /\ SessionRetries(s).id = s.id /\ SessionFallsBack(s).id = s.id
         /\ SessionRetries(s).desired = s.desired /\ SessionFallsBack(s).desired = s.desired
         /\ SessionRetries(s).applied = s.applied /\ SessionFallsBack(s).applied = s.applied
         /\ ~SessionFallsBack(s).wait
BY DEF SessionRetries, SessionFallsBack, SessionRow

\* A row whose request of unknown outcome is reconciled: found and confirmed,
\* free to retry only when its session is known, or given up.
LEMMA ReconcileSessionIs ==
  ASSUME NEW s \in SessionRow, LinearTyped, Len(linear.sessions) <= 1
  PROVE  \/ /\ Len(linear.sessions) = 1 \/ s.id = 1
            /\ ReconcileSession(s) = ConfirmSession(s, 1)
            /\ linear.sessions[1] = s.desired
         \/ s.id # 0 /\ ReconcileSession(s) = SessionRetries(s)
         \/ ReconcileSession(s) = SessionFallsBack(s)
<1> DEFINE matches == IF s.id # 0 THEN {s.id} ELSE DOMAIN linear.sessions
           exact == {m \in matches : linear.sessions[m] = s.desired}
<1>1. linear.sessions \in Seq(1 .. MaxStates) /\ Len(linear.sessions) \in 0 .. 1
  <2>1. linear.sessions \in Seq(1 .. MaxStates)
    BY DEF LinearTyped
  <2>2. Len(linear.sessions) \in Nat
    BY <2>1
  <2>3. \A n \in Nat : n <= 1 => n \in 0 .. 1
    OBVIOUS
  <2>4. Len(linear.sessions) \in 0 .. 1
    BY <2>2, <2>3
  <2> QED
    BY <2>1, <2>4
<1>2. matches \subseteq {1} /\ (1 \in matches => Len(linear.sessions) = 1 \/ s.id = 1)
  BY <1>1, SessionRowIs
<1>3. ReconcileSession(s) =
        CASE Cardinality(matches) = 1 /\ exact # {} -> ConfirmSession(s, CHOOSE m \in exact : TRUE)
          [] s.id # 0 /\ exact = {} -> SessionRetries(s)
          [] OTHER -> SessionFallsBack(s)
  BY DEF ReconcileSession
<1>4. exact # {} => exact = {1} /\ 1 \in matches /\ linear.sessions[1] = s.desired
  BY <1>2
<1> HIDE DEF exact, matches
<1>5. CASE Cardinality(matches) = 1 /\ exact # {}
  <2>1. (CHOOSE m \in exact : TRUE) = 1
    BY <1>4, <1>5
  <2>2. ReconcileSession(s) = ConfirmSession(s, CHOOSE m \in exact : TRUE)
    BY <1>3, <1>5
  <2> QED
    BY <1>2, <1>4, <1>5, <2>1, <2>2
<1>6. CASE s.id # 0 /\ exact = {}
  BY <1>3, <1>6
<1>7. CASE ~ (Cardinality(matches) = 1 /\ exact # {}) /\ ~ (s.id # 0 /\ exact = {})
  BY <1>3, <1>7
<1> QED
  BY <1>5, <1>6, <1>7

\* The row an answer or a reading leaves: confirmed, with the one session there
\* is; free to retry, without a session only if nothing was sent; or given up.
SettledAs(s) ==
    /\ s \in SessionRow /\ s.desired = session.desired
    /\ \/ /\ s.status = "active" /\ s.id = 1 /\ ~s.wait /\ s.applied = s.desired
          /\ Len(linear'.sessions) = 1 /\ linear'.sessions[1] = s.desired
       \/ /\ s.status = "pending" /\ s.id = session.id /\ s.applied = session.applied
          /\ s.id = 0 => pc = "sessionCall" /\ LinearLeft
       \/ s.status = "fallback" /\ s.id = session.id /\ s.applied = session.applied /\ ~s.wait

\* An answer or a reading settles the row, or the outcome stays unknown and is
\* read.
LEMMA SessionAnswered ==
  ASSUME PublicationInv, AnswerSession \/ ReadSession
  PROVE  \/ pc = "sessionCall" /\ pc' = "sessionRead" /\ session' = session
         \/ \E s : SettledAs(s) /\ SettleSession(s)
<1>0. /\ LinearTyped /\ SessionTyped /\ SessionOnce /\ session \in SessionRow
      /\ session.id \in 0 .. 1 /\ session.desired \in 0 .. MaxStates
  BY SessionRowIs DEF PublicationInv, SessionTyped
<1>1. CASE AnswerSession
  <2> DEFINE q == SessionRequest
  <2>1. pc = "sessionCall" /\ q \in Request /\ q.urls = session.desired
    BY <1>1, OutgoingTyped DEF AnswerSession, Outgoing, SessionRequest
  <2>2. ASSUME NEW s \in {SessionRetries(session), SessionFallsBack(session)},
               s = SessionRetries(session) => LinearLeft
        PROVE  SettledAs(s)
    BY <1>0, <2>1, <2>2, SessionErrorIs DEF SettledAs
  <2>3. ASSUME Accepted(q)
        PROVE  SettledAs(ConfirmSession(session,
                   IF session.id = 0 THEN Len(linear'.sessions) ELSE session.id))
    <3>1. linear' = Applied(linear, q)
      BY <2>3 DEF Accepted
    <3>2. CASE session.id = 0
      <4>1. Len(linear.sessions) = 0 /\ linear.sessions \in Seq(1 .. MaxStates)
        BY <1>0, <2>1, <3>2 DEF SessionOnce, MayCreate, LinearTyped
      <4>2. linear'.sessions = Append(linear.sessions, session.desired)
        BY <1>0, <2>1, <3>1, <3>2, AppliedIs DEF SessionRequest
      <4>3. session.desired \in 1 .. MaxStates
        BY <1>0, <2>1 DEF SessionTyped
      <4>4. Len(linear'.sessions) = 1 /\ linear'.sessions[1] = session.desired
        BY <4>1, <4>2, <4>3
      <4> QED
        BY <1>0, <3>2, <4>4, ConfirmSessionIs DEF SettledAs
    <3>3. CASE session.id = 1
      <4>1. Len(linear.sessions) = 1 /\ linear.sessions \in Seq(1 .. MaxStates)
        BY <1>0, <2>1, <3>3 DEF SessionOnce, LinearTyped
      <4>2. linear'.sessions = [linear.sessions EXCEPT ![1] = session.desired]
        BY <1>0, <2>1, <3>1, <3>3, AppliedIs DEF SessionRequest
      <4>3. session.desired \in 1 .. MaxStates
        BY <1>0, <2>1 DEF SessionTyped
      <4>4. Len(linear'.sessions) = 1
        BY <4>1, <4>2, <4>3, SeqExcept
      <4>5. linear'.sessions[1] = session.desired
        BY <4>1, <4>2
      <4> QED
        BY <1>0, <3>3, <4>4, <4>5, ConfirmSessionIs DEF SettledAs
    <3> QED
      BY <1>0, <3>2, <3>3
  <2> HIDE DEF q
  <2>4. \/ /\ Accepted(q)
           /\ SettleSession(ConfirmSession(session,
                  IF session.id = 0 THEN Len(linear'.sessions) ELSE session.id))
        \/ Limited /\ SettleSession(SessionRetries(session))
        \/ (Rejected(q) \/ Garbled(q)) /\ SettleSession(SessionFallsBack(session))
        \/ Unknown(q) /\ pc' = "sessionRead" /\ UNCHANGED session
    BY <1>1 DEF AnswerSession, q
  <2>5. Limited => LinearLeft
    BY DEF Limited, LinearLeft
  <2>6. SessionFallsBack(session) = SessionRetries(session) => FALSE
    BY <1>0, SessionErrorIs
  <2>7. CASE Accepted(q) /\ SettleSession(ConfirmSession(session,
                  IF session.id = 0 THEN Len(linear'.sessions) ELSE session.id))
    BY <2>3, <2>7
  <2>8. CASE Limited /\ SettleSession(SessionRetries(session))
    BY <2>2, <2>5, <2>8
  <2>9. CASE SettleSession(SessionFallsBack(session))
    BY <2>2, <2>6, <2>9
  <2> QED
    BY <2>1, <2>4, <2>7, <2>8, <2>9
<1>2. CASE ReadSession
  <2>1. pc = "sessionRead" /\ linear' = linear /\ Len(linear.sessions) <= 1
    BY <1>0, <1>2 DEF ReadSession, ReadOk, ReadFails, SessionOnce
  <2>2. \/ SettleSession(ReconcileSession(session))
        \/ SettleSession(SessionFallsBack(session))
    BY <1>2 DEF ReadSession
  <2>3. SettledAs(SessionFallsBack(session))
    BY <1>0, SessionErrorIs DEF SettledAs
  <2>4. SettledAs(ReconcileSession(session))
    <3>1. CASE /\ Len(linear.sessions) = 1 \/ session.id = 1
               /\ ReconcileSession(session) = ConfirmSession(session, 1)
               /\ linear.sessions[1] = session.desired
      <4>1. Len(linear.sessions) = 1
        BY <1>0, <3>1 DEF SessionOnce
      <4> QED
        BY <1>0, <2>1, <3>1, <4>1, ConfirmSessionIs DEF SettledAs
    <3>2. CASE session.id # 0 /\ ReconcileSession(session) = SessionRetries(session)
      BY <1>0, <3>2, SessionErrorIs DEF SettledAs
    <3>3. CASE ReconcileSession(session) = SessionFallsBack(session)
      BY <2>3, <3>3
    <3> QED
      BY <1>0, <2>1, <3>1, <3>2, <3>3, ReconcileSessionIs
  <2> QED
    BY <2>2, <2>3, <2>4
<1> QED
  BY <1>1, <1>2

\* Where a settled row goes: as it is, or, confirmed, to newer links.
LEMMA SettledGoes ==
  ASSUME PublicationInv, pc \in {"sessionCall", "sessionRead"},
         NEW s, SettledAs(s), SettleSession(s)
  PROVE  /\ \/ session' = s
            \/ /\ s.status = "active" /\ session' \in SessionRow /\ session'.status = "pending"
               /\ session'.id = 1 /\ session'.desired # 0
         /\ pc' \in {"session", "stage", "comment"}
         /\ pc' = "session" => s.status = "active"
         /\ pc' = "stage" => s.status = "fallback"
<1>1. job.run = run /\ ExternalUrls(job.run) \in 1 .. MaxStates
  BY DEF PublicationInv, RunTyped, Unstaged, Run, ExternalUrls
<1>2. s \in SessionRow
  BY DEF SettledAs
<1>3. /\ pc' \in {"session", "stage", "comment"}
      /\ pc' = "session" => s.status = "active"
      /\ pc' = "stage" => s.status = "fallback"
  BY DEF SettleSession, AfterSession
<1>4. CASE s.status # "active"
  BY <1>3, <1>4 DEF SettleSession
<1>5. CASE s.status = "active"
  <2>1. session' = StageSession(s, ExternalUrls(job.run)) /\ s.id = 1
    BY <1>5 DEF SettleSession, SettledAs
  <2>2. ExternalUrls(job.run) # 0
    BY <1>1, BoundsAreNaturals
  <2> QED
    BY <1>1, <1>2, <1>3, <1>5, <2>1, <2>2, StageSessionIs
<1> QED
  BY <1>4, <1>5

\* What a step may do to the session's row.
SessionMoves ==
    \/ /\ session' = session /\ pc' \notin {"session", "sessionCall", "sessionRead"}
       /\ pc' \in OnActivities => pc \in {"session"} \cup OnActivities
    \/ session' = session /\ pc' = pc
    \/ session' = session /\ session.status = "sending" /\ pc' = "sessionRead"
    \/ /\ pc = "idle" /\ pc' = "session"
       /\ \E urls \in 1 .. MaxStates : session' = StageSession(session, urls)
    \/ /\ pc = "session" /\ session.status = "pending" /\ pc' = "sessionCall"
       /\ session' = [session EXCEPT !.status = "sending"]
    \/ /\ pc \in {"sessionCall", "sessionRead"}
       /\ \E s : SettledAs(s) /\ SettleSession(s)
    \/ /\ pc \in OnActivities
       /\ session' = SessionFallsBack(session) /\ pc' = "stage"
    \/ session' = [session EXCEPT !.wait = FALSE] /\ pc' = pc

\* No step does anything else to the session's row.
LEMMA SessionMovesIs ==
  ASSUME PublicationInv, Next
  PROVE  SessionMoves
<1>0. RunTyped /\ SessionTyped
  BY DEF PublicationInv
<1>1. CASE StartSync
  <2>1. ExternalUrls(run) \in 1 .. MaxStates
    BY <1>0 DEF RunTyped, Run, ExternalUrls
  <2> QED
    BY <1>1, <2>1 DEF StartSync, SessionMoves, OnActivities
<1>2. CASE DrainSession
  BY <1>2 DEF DrainSession, SessionMoves, OnActivities
<1>3. CASE AnswerSession \/ ReadSession
  <2>1. pc \in {"sessionCall", "sessionRead"}
    BY <1>3 DEF AnswerSession, ReadSession
  <2>2. pc = "sessionCall" => session.status = "sending"
    BY <1>0 DEF SessionTyped
  <2>3. CASE pc = "sessionCall" /\ pc' = "sessionRead" /\ session' = session
    BY <2>2, <2>3 DEF SessionMoves, OnActivities
  <2>4. CASE \E s : SettledAs(s) /\ SettleSession(s)
    BY <2>1, <2>4 DEF SessionMoves, OnActivities
  <2> QED
    BY <1>3, <2>3, <2>4, SessionAnswered
<1>4. CASE DrainActivity
  BY <1>4 DEF DrainActivity, SessionMoves, OnActivities
<1>5. CASE ReadActivity
  BY <1>5 DEF ReadActivity, FailActivity, SessionMoves, OnActivities
<1>6. CASE AnswerActivity
  BY <1>6 DEF AnswerActivity, FailActivity, SessionMoves, OnActivities
<1>7. CASE CheckActivity
  BY <1>7 DEF CheckActivity, SessionMoves, OnActivities
<1>8. CASE StageComment \/ DrainComment \/ ReadComment \/ AnswerComment
  BY <1>8 DEF StageComment, DrainComment, ReadComment, AnswerComment, SessionMoves,
    OnActivities
<1>9. CASE RetriesAreDue
  BY <1>9 DEF RetriesAreDue, SessionMoves, OnActivities
<1>10. CASE Progress \/ ChangePolicy \/ LateRequestLands \/ DeleteComment \/ Crash
  BY <1>10 DEF Progress, ChangePolicy, LateRequestLands, DeleteComment, Crash, rows,
    SessionMoves, OnActivities
<1> QED
  BY <1>1, <1>2, <1>3, <1>4, <1>5, <1>6, <1>7, <1>8, <1>9, <1>10 DEF Next, Publish

\* SessionTyped is kept.
LEMMA SessionTypedStep ==
  ASSUME PublicationInv, Next
  PROVE  SessionTyped'
<1>0. SessionTyped /\ SessionMoves
  BY SessionMovesIs DEF PublicationInv
<1>1. CASE /\ session' = session /\ pc' \notin {"session", "sessionCall", "sessionRead"}
           /\ pc' \in OnActivities => pc \in {"session"} \cup OnActivities
  BY <1>0, <1>1 DEF SessionTyped
<1>2. CASE session' = session /\ pc' = pc
  BY <1>0, <1>2 DEF SessionTyped, OnActivities
<1>3. CASE session' = session /\ session.status = "sending" /\ pc' = "sessionRead"
  BY <1>0, <1>3 DEF SessionTyped, OnActivities
<1>4. ASSUME NEW urls \in 1 .. MaxStates, session' = StageSession(session, urls),
             pc' = "session"
      PROVE  SessionTyped'
  <2>1. urls # 0
    BY BoundsAreNaturals
  <2>2. session \in SessionRow
    BY <1>0 DEF SessionTyped, OnActivities
  <2>3. CASE StageSession(session, urls) = session /\ session.status # "absent"
    BY <1>0, <1>4, <2>3 DEF SessionTyped, OnActivities
  <2>4. CASE /\ session.status \notin {"sending", "fallback"}
             /\ StageSession(session, urls) \in SessionRow
             /\ StageSession(session, urls).status = "pending"
             /\ StageSession(session, urls).id = session.id
             /\ StageSession(session, urls).desired = urls
    BY <1>0, <1>4, <2>1, <2>4 DEF SessionTyped, OnActivities
  <2> QED
    BY <2>2, <2>3, <2>4, StageSessionIs
<1>5. CASE /\ pc = "session" /\ session.status = "pending" /\ pc' = "sessionCall"
           /\ session' = [session EXCEPT !.status = "sending"]
  <2>1. \A s \in SessionRow :
          /\ [s EXCEPT !.status = "sending"] \in SessionRow
          /\ [s EXCEPT !.status = "sending"].status = "sending"
          /\ [s EXCEPT !.status = "sending"].desired = s.desired
    BY DEF SessionRow
  <2> QED
    BY <1>0, <1>5, <2>1 DEF SessionTyped, OnActivities
<1>6. ASSUME pc \in {"sessionCall", "sessionRead"}, NEW s, SettledAs(s), SettleSession(s)
      PROVE  SessionTyped'
  <2>1. /\ s \in SessionRow /\ s.desired # 0
        /\ s.status \in {"active", "pending", "fallback"}
        /\ s.status = "active" => s.id = 1
        /\ s.status \in {"active", "fallback"} => ~s.wait
    BY <1>0, <1>6 DEF SettledAs, SessionTyped
  <2>2. pc' \in {"session", "stage", "comment"}
    BY <1>6, SettledGoes
  <2>3. CASE session' = s
    BY <2>1, <2>2, <2>3 DEF SessionTyped, OnActivities
  <2>4. CASE /\ s.status = "active" /\ session' \in SessionRow /\ session'.status = "pending"
             /\ session'.id = 1 /\ session'.desired # 0
    BY <2>2, <2>4 DEF SessionTyped, OnActivities
  <2> QED
    BY <1>6, <2>3, <2>4, SettledGoes
<1>7. CASE /\ pc \in OnActivities
           /\ session' = SessionFallsBack(session) /\ pc' = "stage"
  <2>1. session \in SessionRow
    BY <1>0 DEF SessionTyped, OnActivities
  <2>2. session.desired # 0
    BY <1>0, <1>7 DEF SessionTyped
  <2> QED
    BY <1>0, <1>7, <2>1, <2>2, SessionErrorIs DEF SessionTyped, OnActivities
<1>8. CASE session' = [session EXCEPT !.wait = FALSE] /\ pc' = pc
  <2>1. \A s \in SessionRow :
          /\ [s EXCEPT !.wait = FALSE] \in SessionRow
          /\ [s EXCEPT !.wait = FALSE].status = s.status
          /\ [s EXCEPT !.wait = FALSE].desired = s.desired
          /\ [s EXCEPT !.wait = FALSE].id = s.id
          /\ ~[s EXCEPT !.wait = FALSE].wait
    BY DEF SessionRow
  <2> QED
    BY <1>0, <1>8, <2>1 DEF SessionTyped, OnActivities
<1> QED
  BY <1>0, <1>1, <1>2, <1>3, <1>4, <1>5, <1>6, <1>7, <1>8 DEF SessionMoves

\* A row that may create a session could already do so.
LEMMA MayCreateStep ==
  ASSUME PublicationInv, Next, MayCreate'
  PROVE  MayCreate
<1>0. SessionTyped /\ SessionMoves /\ session \in SessionRow
  BY SessionMovesIs DEF PublicationInv, SessionTyped
<1>1. CASE session' = session /\ pc' \notin {"session", "sessionCall", "sessionRead"}
  BY <1>1 DEF MayCreate
<1>2. CASE session' = session /\ pc' = pc
  BY <1>2 DEF MayCreate
<1>3. CASE session' = session /\ session.status = "sending" /\ pc' = "sessionRead"
  BY <1>3 DEF MayCreate
<1>4. ASSUME NEW urls \in 1 .. MaxStates, session' = StageSession(session, urls),
             pc' = "session"
      PROVE  MayCreate
  BY <1>0, <1>4, StageSessionIs, SessionRowIs DEF MayCreate, SessionTyped
<1>5. CASE /\ pc = "session" /\ session.status = "pending" /\ pc' = "sessionCall"
           /\ session' = [session EXCEPT !.status = "sending"]
  <2>1. session'.id = session.id
    BY <1>0, <1>5 DEF SessionRow
  <2> QED
    BY <1>5, <2>1 DEF MayCreate
<1>6. ASSUME pc \in {"sessionCall", "sessionRead"}, NEW s, SettledAs(s), SettleSession(s)
      PROVE  MayCreate
  BY <1>6, SettledGoes DEF MayCreate, SettledAs
<1>7. CASE session' = SessionFallsBack(session) /\ pc' = "stage"
  BY <1>0, <1>7, SessionErrorIs DEF MayCreate
<1>8. CASE session' = [session EXCEPT !.wait = FALSE] /\ pc' = pc
  <2>1. session'.id = session.id /\ session'.status = session.status
    BY <1>0, <1>8 DEF SessionRow
  <2> QED
    BY <1>8, <2>1 DEF MayCreate
<1> QED
  BY <1>0, <1>1, <1>2, <1>3, <1>4, <1>5, <1>6, <1>7, <1>8 DEF SessionMoves

\* A row that learns the session's identity learns it of a session there is.
LEMMA SessionIdStep ==
  ASSUME PublicationInv, Next, session'.id # 0
  PROVE  session.id # 0 \/ Len(linear'.sessions) = 1
<1>0. SessionTyped /\ SessionMoves /\ session \in SessionRow
  BY SessionMovesIs DEF PublicationInv, SessionTyped
<1>1. CASE session' = session
  BY <1>1
<1>2. ASSUME NEW urls \in 1 .. MaxStates, session' = StageSession(session, urls)
      PROVE  session.id # 0
  BY <1>0, <1>2, StageSessionIs
<1>3. CASE session' = [session EXCEPT !.status = "sending"]
  BY <1>0, <1>3 DEF SessionRow
<1>4. ASSUME pc \in {"sessionCall", "sessionRead"}, NEW s, SettledAs(s), SettleSession(s)
      PROVE  session.id # 0 \/ Len(linear'.sessions) = 1
  BY <1>4, SettledGoes DEF SettledAs
<1>5. CASE session' = SessionFallsBack(session)
  BY <1>0, <1>5, SessionErrorIs
<1>6. CASE session' = [session EXCEPT !.wait = FALSE]
  BY <1>0, <1>6 DEF SessionRow
<1> QED
  BY <1>0, <1>1, <1>2, <1>3, <1>4, <1>5, <1>6 DEF SessionMoves

\* The sessions and the creates stay as many as they are.
CreateLeft == Len(linear'.sessions) = Len(linear.sessions) /\ Creates' = Creates

\* The row's only create is applied, or may still be; the row creates no other.
CreateSent ==
    /\ MayCreate /\ ~MayCreate'
    /\ \/ Len(linear'.sessions) = 1 /\ Creates' = {}
       \/ Len(linear'.sessions) = 0 /\ \E q : Creates' = {q}

\* A create nobody waits for any more is applied.
CreateLands == Creates # {} /\ Len(linear'.sessions) = 1 /\ Creates' = {}

\* No step does anything else to the sessions and the creates.
LEMMA SessionsChange ==
  ASSUME PublicationInv, Next
  PROVE  CreateLeft \/ CreateSent \/ CreateLands
<1>0. /\ LinearTyped /\ SessionTyped /\ SessionOnce /\ session \in SessionRow
      /\ session.id \in 0 .. 1 /\ linear.sessions \in Seq(1 .. MaxStates)
  BY SessionRowIs DEF PublicationInv, SessionTyped, LinearTyped
<1>1. CASE LinearLeft \/ CommentGoes
  BY <1>0, <1>1 DEF LinearLeft, CommentGoes, CreateLeft, Creates, LinearTyped
<1>2. ASSUME NEW q \in Request, q.op # "createSession"
      PROVE  Len(Applied(linear, q).sessions) = Len(linear.sessions)
  <2>1. CASE q.op = "updateSession"
    <3>1. q.urls \in 1 .. MaxStates
      BY <2>1, RequestIs
    <3>2. Applied(linear, q).sessions = [linear.sessions EXCEPT ![session.id] = q.urls]
      BY <1>0, <2>1, AppliedIs
    <3> QED
      BY <1>0, <3>1, <3>2, SeqExcept
  <2>2. CASE q.op # "updateSession"
    BY <1>0, <1>2, <2>2, AppliedIs
  <2> QED
    BY <2>1, <2>2
<1>3. ASSUME NEW q \in Request, Outgoing(q), pc' # pc, LinearApplies(q) \/ LinearKeeps(q)
      PROVE  CreateLeft \/ CreateSent \/ CreateLands
  <2>1. CASE q.op # "createSession"
    BY <1>2, <1>3, <2>1 DEF LinearApplies, LinearKeeps, CreateLeft, Creates
  <2>2. CASE q.op = "createSession"
    <3>1. pc = "sessionCall" /\ session.id = 0 /\ session.status = "sending"
      BY <1>0, <1>3, <2>2 DEF Outgoing, SessionRequest, CommentRequest, SessionTyped
    <3>2. MayCreate /\ Len(linear.sessions) = 0 /\ Creates = {}
      BY <1>0, <3>1 DEF MayCreate, SessionOnce
    <3>3. LinearLeft \/ ~MayCreate'
      <4>1. SessionMoves
        BY SessionMovesIs
      <4>2. CASE session' = session /\ pc' # "sessionCall"
        BY <3>1, <4>2 DEF MayCreate
      <4>3. ASSUME NEW s, SettledAs(s), SettleSession(s)
            PROVE  LinearLeft \/ ~MayCreate'
        BY <3>1, <4>3, SettledGoes DEF MayCreate, SettledAs
      <4>4. CASE session' = SessionFallsBack(session) /\ pc' = "stage"
        BY <1>0, <4>4, SessionErrorIs DEF MayCreate
      <4> QED
        BY <1>3, <3>1, <4>1, <4>2, <4>3, <4>4 DEF SessionMoves
    <3>4. CASE LinearApplies(q)
      <4>1. q.urls \in 1 .. MaxStates
        BY <2>2, RequestIs
      <4>2. linear'.sessions = Append(linear.sessions, q.urls)
        BY <1>0, <2>2, <3>4, AppliedIs DEF LinearApplies
      <4>3. Len(linear'.sessions) = 1
        BY <1>0, <3>2, <4>1, <4>2
      <4>4. Creates' = {}
        BY <3>2, <3>4 DEF LinearApplies, Creates
      <4>5. ~LinearLeft
        BY <3>2, <4>3 DEF LinearLeft
      <4> QED
        BY <3>2, <3>3, <4>3, <4>4, <4>5 DEF CreateSent
    <3>5. CASE LinearKeeps(q)
      <4>1. Creates' = {q} /\ linear' = linear
        BY <2>2, <3>2, <3>5 DEF LinearKeeps, Creates
      <4>2. ~LinearLeft
        BY <3>2, <4>1 DEF LinearLeft, Creates
      <4> QED
        BY <3>2, <3>3, <4>1, <4>2 DEF CreateSent
    <3> QED
      BY <1>3, <3>4, <3>5
  <2> QED
    BY <2>1, <2>2
<1>4. ASSUME NEW q \in late, LinearLands(q)
      PROVE  CreateLeft \/ CreateSent \/ CreateLands
  <2>1. q \in Request
    BY <1>0 DEF LinearTyped
  <2>2. CASE q.op # "createSession"
    BY <1>2, <1>4, <2>1, <2>2 DEF LinearLands, CreateLeft, Creates
  <2>3. CASE q.op = "createSession"
    <3>1. q \in Creates /\ Creates = {q} /\ Len(linear.sessions) = 0
      BY <1>0, <2>3 DEF SessionOnce, Creates
    <3>2. q.urls \in 1 .. MaxStates
      BY <2>1, <2>3, RequestIs
    <3>3. linear'.sessions = Append(linear.sessions, q.urls)
      BY <1>0, <1>4, <2>1, <2>3, AppliedIs DEF LinearLands
    <3>4. Len(linear'.sessions) = 1
      BY <1>0, <3>1, <3>2, <3>3
    <3>5. Creates' = {}
      BY <1>4, <3>1 DEF LinearLands, Creates
    <3> QED
      BY <3>1, <3>4, <3>5 DEF CreateLands
  <2> QED
    BY <2>2, <2>3
<1> QED
  BY <1>1, <1>3, <1>4, LinearChanges

\* SessionOnce is kept.
LEMMA SessionOnceStep ==
  ASSUME PublicationInv, Next
  PROVE  SessionOnce'
<1>0. SessionOnce /\ LinearTyped
  BY DEF PublicationInv
<1>1. Len(linear.sessions) \in Nat
  BY <1>0 DEF LinearTyped
<1>2. session'.id # 0 => session.id # 0 \/ Len(linear'.sessions) = 1
  BY SessionIdStep
<1>3. MayCreate' => MayCreate
  BY MayCreateStep
<1>4. MayCreate => session.id = 0
  BY DEF MayCreate
<1>5. CASE CreateLeft
  BY <1>0, <1>1, <1>2, <1>3, <1>5 DEF SessionOnce, CreateLeft
<1>6. CASE CreateSent
  <2>1. session.id = 0 /\ ~MayCreate'
    BY <1>4, <1>6 DEF CreateSent
  <2>2. session'.id # 0 => Len(linear'.sessions) = 1
    BY <1>2, <2>1
  <2>3. CASE Len(linear'.sessions) = 1 /\ Creates' = {}
    BY <2>1, <2>2, <2>3 DEF SessionOnce
  <2>4. ASSUME Len(linear'.sessions) = 0, NEW q, Creates' = {q}
        PROVE  SessionOnce'
    BY <2>1, <2>2, <2>4 DEF SessionOnce
  <2> QED
    BY <1>6, <2>3, <2>4 DEF CreateSent
<1>7. CASE CreateLands
  BY <1>0, <1>1, <1>2, <1>3, <1>7 DEF SessionOnce, CreateLands
<1> QED
  BY <1>5, <1>6, <1>7, SessionsChange

-----------------------------------------------------------------------------
(* The activities.                                                         *)

\* One row of the activities is set; the others, and all keys, stay.
LEMMA SetActivityIs ==
  ASSUME ActivitiesTyped, NEW i \in DOMAIN activities,
         NEW status \in {"pending", "sending", "ambiguous", "confirmed", "failed"},
         NEW w \in BOOLEAN, SetActivity(i, status, w)
  PROVE  /\ activities' \in Seq(ActivityRow) /\ Len(activities') = Len(activities)
         /\ DOMAIN activities' = DOMAIN activities
         /\ activities'[i].status = status
         /\ \A j \in DOMAIN activities :
              /\ activities'[j].key = activities[j].key
              /\ j # i => activities'[j] = activities[j]
<1>1. activities \in Seq(ActivityRow) /\ activities[i] \in ActivityRow
  BY DEF ActivitiesTyped
<1>2. \A row \in ActivityRow :
        /\ [row EXCEPT !.status = status, !.wait = w] \in ActivityRow
        /\ [row EXCEPT !.status = status, !.wait = w].status = status
        /\ [row EXCEPT !.status = status, !.wait = w].key = row.key
  BY DEF ActivityRow
<1> DEFINE row == [activities[i] EXCEPT !.status = status, !.wait = w]
<1>3. row \in ActivityRow /\ row.status = status /\ row.key = activities[i].key
  BY <1>1, <1>2
<1>4. activities' = [activities EXCEPT ![i] = row]
  BY <1>1 DEF SetActivity
<1> HIDE DEF row
<1>5. /\ activities' \in Seq(ActivityRow) /\ Len(activities') = Len(activities)
      /\ DOMAIN activities' = DOMAIN activities
  BY <1>1, <1>3, <1>4, SeqExcept
<1>6. /\ activities'[i] = row
      /\ \A j \in DOMAIN activities : j # i => activities'[j] = activities[j]
  BY <1>1, <1>4
<1> QED
  BY <1>3, <1>5, <1>6

\* Staging appends one pending row for every key not staged yet, the terminal
\* response, if it is among them, last.
LEMMA StageActivitiesAre ==
  ASSUME ActivitiesTyped, NEW r \in Run
  PROVE  /\ StageActivities(r) \in Seq(ActivityRow)
         /\ Len(StageActivities(r)) >= Len(activities)
         /\ DOMAIN activities \subseteq DOMAIN StageActivities(r)
         /\ \A j \in DOMAIN activities : StageActivities(r)[j] = activities[j]
         /\ \A j \in DOMAIN StageActivities(r) : j > Len(activities) =>
              /\ StageActivities(r)[j].status = "pending"
              /\ StageActivities(r)[j].key = <<"terminal">> =>
                   j = Len(StageActivities(r)) /\ r.done
         /\ \A k \in DOMAIN AgentActivities(r) : \E j \in DOMAIN StageActivities(r) :
              StageActivities(r)[j].key = AgentActivities(r)[k]
         /\ (\A k \in DOMAIN AgentActivities(r) : Staged(AgentActivities(r)[k])) =>
              Len(StageActivities(r)) = Len(activities)
<1> DEFINE listed == AgentActivities(r)
           positions == {i \in DOMAIN listed : ~Staged(listed[i])}
           fresh == Select(listed, positions)
           new == [i \in DOMAIN fresh |-> [key |-> fresh[i], status |-> "pending", wait |-> FALSE]]
<1>1. /\ listed \in Seq(Keys)
      /\ \A i \in DOMAIN listed : listed[i] = <<"terminal">> => i = Len(listed) /\ r.done
  BY AgentActivitiesAre
<1>2. positions \subseteq DOMAIN listed
  OBVIOUS
<1>3. StageActivities(r) = activities \o new
  BY DEF StageActivities
<1>4. \A i \in DOMAIN listed : i \in positions \/ Staged(listed[i])
  OBVIOUS
<1>5. (\A k \in DOMAIN listed : Staged(listed[k])) => positions = {}
  OBVIOUS
<1> HIDE DEF listed, positions
<1>6. /\ fresh \in Seq(Keys) /\ Len(fresh) = Cardinality(positions)
      /\ \A k \in 1 .. Len(fresh) :
           Nth(positions, k) \in positions /\ fresh[k] = listed[Nth(positions, k)]
      /\ \A k, l \in 1 .. Len(fresh) : k < l => Nth(positions, k) < Nth(positions, l)
      /\ \A i \in positions : \E k \in 1 .. Len(fresh) : Nth(positions, k) = i
  BY <1>1, <1>2, SelectIs
<1> HIDE DEF fresh
<1>7. Len(fresh) \in Nat /\ DOMAIN fresh = 1 .. Len(fresh)
  BY <1>6
<1>8. /\ new \in Seq(ActivityRow) /\ Len(new) = Len(fresh)
      /\ \A k \in 1 .. Len(fresh) : new[k].key = fresh[k] /\ new[k].status = "pending"
  <2>1. \A k \in 1 .. Len(fresh) :
          [key |-> fresh[k], status |-> "pending", wait |-> FALSE] \in ActivityRow
    BY <1>6 DEF ActivityRow
  <2> QED
    BY <1>7, <2>1
<1> HIDE DEF new
<1>9. activities \in Seq(ActivityRow) /\ Len(activities) \in Nat
      /\ DOMAIN activities = 1 .. Len(activities)
  BY DEF ActivitiesTyped
<1> DEFINE n == Len(activities)
<1>10. /\ activities \o new \in Seq(ActivityRow)
       /\ Len(activities \o new) = n + Len(fresh)
       /\ DOMAIN (activities \o new) = 1 .. n + Len(fresh)
       /\ \A i \in 1 .. n : (activities \o new)[i] = activities[i]
       /\ \A i \in n + 1 .. n + Len(fresh) :
            i - n \in 1 .. Len(fresh) /\ (activities \o new)[i] = new[i - n]
  BY <1>8, <1>9, ConcatAt
<1> DEFINE all == activities \o new
<1> HIDE DEF all, n
<1>11. /\ all \in Seq(ActivityRow) /\ Len(all) = n + Len(fresh)
       /\ DOMAIN all = 1 .. n + Len(fresh)
       /\ \A i \in 1 .. n : all[i] = activities[i]
       /\ \A i \in n + 1 .. n + Len(fresh) :
            i - n \in 1 .. Len(fresh) /\ all[i] = new[i - n]
       /\ n \in Nat /\ n = Len(activities) /\ DOMAIN activities = 1 .. n
  BY <1>9, <1>10 DEF all, n
<1>12. StageActivities(r) = all
  BY <1>3 DEF all
<1>13. ASSUME NEW j \in DOMAIN all, j > n
       PROVE  /\ all[j].status = "pending"
              /\ all[j].key = <<"terminal">> => j = Len(all) /\ r.done
  <2>1. j \in n + 1 .. n + Len(fresh) /\ j \in Nat
    BY <1>7, <1>11, <1>13
  <2>2. PICK k \in 1 .. Len(fresh) : k = j - n
    BY <1>11, <2>1
  <2>3. all[j] = new[k] /\ all[j].key = fresh[k] /\ all[j].status = "pending"
    BY <1>8, <1>11, <2>1, <2>2
  <2>4. ASSUME fresh[k] = <<"terminal">>
        PROVE  k = Len(fresh) /\ r.done
    <3>1. Nth(positions, k) \in DOMAIN listed /\ listed[Nth(positions, k)] = <<"terminal">>
      BY <1>2, <1>6, <2>4
    <3>2. Nth(positions, k) = Len(listed) /\ r.done
      BY <1>1, <3>1
    <3>3. ASSUME k < Len(fresh) PROVE FALSE
      <4>1. Len(fresh) \in 1 .. Len(fresh)
        BY <1>7, <3>3
      <4>2. Nth(positions, k) < Nth(positions, Len(fresh))
        BY <1>6, <3>3, <4>1
      <4>3. Nth(positions, Len(fresh)) \in 1 .. Len(listed) /\ Len(listed) \in Nat
        BY <1>1, <1>2, <1>6, <4>1
      <4> QED
        BY <3>2, <4>2, <4>3
    <3>4. k = Len(fresh)
      <4>1. k \in Nat /\ k <= Len(fresh)
        BY <1>7, <2>2
      <4>2. ~ (k < Len(fresh))
        BY <3>3
      <4>3. \A a, b \in Nat : a <= b /\ ~ (a < b) => a = b
        OBVIOUS
      <4>4. Len(fresh) \in Nat
        BY <1>7
      <4> QED
        BY <4>1, <4>2, <4>3, <4>4
    <3> QED
      BY <3>2, <3>4
  <2>5. ASSUME all[j].key = <<"terminal">>
        PROVE  j = Len(all) /\ r.done
    <3>1. k = Len(fresh) /\ r.done
      BY <2>3, <2>4, <2>5
    <3>2. j = n + k
      BY <1>11, <2>1, <2>2
    <3>3. j = Len(all)
      BY <1>11, <3>1, <3>2
    <3> QED
      BY <3>1, <3>3
  <2> QED
    BY <2>3, <2>5
<1>14. ASSUME NEW k \in DOMAIN listed
       PROVE  \E j \in DOMAIN all : all[j].key = listed[k]
  <2>1. CASE Staged(listed[k])
    <3>1. PICK j \in DOMAIN activities : activities[j].key = listed[k]
      BY <2>1 DEF Staged
    <3>2. j \in DOMAIN all /\ all[j] = activities[j]
      BY <1>7, <1>11
    <3> QED
      BY <3>1, <3>2
  <2>2. CASE k \in positions
    <3>1. PICK l \in 1 .. Len(fresh) : Nth(positions, l) = k
      BY <1>6, <2>2
    <3>2. fresh[l] = listed[k]
      BY <1>6, <3>1
    <3>3. n + l \in n + 1 .. n + Len(fresh) /\ (n + l) - n = l /\ n + l \in DOMAIN all
      BY <1>7, <1>11
    <3>4. all[n + l] = new[l]
      BY <1>11, <3>3
    <3> QED
      BY <1>8, <3>2, <3>3, <3>4
  <2> QED
    BY <1>4, <2>1, <2>2
<1>15. (\A k \in DOMAIN listed : Staged(listed[k])) => Len(all) = n
  BY <1>5, <1>6, <1>11, FS_EmptySet
<1>16. Len(all) >= n /\ DOMAIN activities \subseteq DOMAIN all
  BY <1>7, <1>11
<1> QED
  BY <1>11, <1>12, <1>13, <1>14, <1>15, <1>16 DEF listed

\* The clock sets no key and no status.
LEMMA ActivitiesDue ==
  ASSUME ActivitiesTyped, RetriesAreDue
  PROVE  /\ activities' \in Seq(ActivityRow) /\ Len(activities') = Len(activities)
         /\ DOMAIN activities' = DOMAIN activities
         /\ \A j \in DOMAIN activities :
              /\ activities'[j].key = activities[j].key
              /\ activities'[j].status = activities[j].status
<1>1. activities \in Seq(ActivityRow) /\ Len(activities) \in Nat
      /\ DOMAIN activities = 1 .. Len(activities)
  BY DEF ActivitiesTyped
<1>2. \A row \in ActivityRow :
        /\ [row EXCEPT !.wait = FALSE] \in ActivityRow
        /\ [row EXCEPT !.wait = FALSE].status = row.status
        /\ [row EXCEPT !.wait = FALSE].key = row.key
  BY DEF ActivityRow
<1>3. activities' = [i \in DOMAIN activities |-> [activities[i] EXCEPT !.wait = FALSE]]
  BY DEF RetriesAreDue
<1>4. \A j \in 1 .. Len(activities) : activities[j] \in ActivityRow
  BY <1>1
<1>5. \A j \in 1 .. Len(activities) :
        /\ activities'[j] \in ActivityRow /\ activities'[j].key = activities[j].key
        /\ activities'[j].status = activities[j].status
  BY <1>1, <1>2, <1>3, <1>4
<1>6. activities' = [j \in 1 .. Len(activities) |-> activities'[j]]
  BY <1>1, <1>3
<1>7. activities' \in Seq(ActivityRow) /\ Len(activities') = Len(activities)
  BY <1>1, <1>5, <1>6
<1> QED
  BY <1>1, <1>5, <1>7

\* The statuses of an activity's row.
ActivityStatuses == {"pending", "sending", "ambiguous", "confirmed", "failed"}

\* The first row that is not confirmed is set: confirmed only if it is posted,
\* failed together with its session, which no other status touches.
ActivityIsSet(i, status) ==
    /\ pc \in OnActivities /\ i = NextActivity /\ i # 0
    /\ \E w \in BOOLEAN : SetActivity(i, status, w)
    /\ status = "confirmed" => Contains(linear'.posted, i)
    /\ session' = IF status = "failed" THEN SessionFallsBack(session) ELSE session
    /\ pc' \in OnActivities \ {"activities"} => status \in {"sending", "ambiguous"}

\* What a step may do to the rows of the activities: nothing, stage those not
\* staged yet, set the first that is not confirmed, or make retries due.
ActivityMoves ==
    \/ activities' = activities /\ (pc' \in OnActivities \ {"activities"} =>
                                      NextActivity # 0 \/ pc' = pc)
    \/ activities' = StageActivities(job.run) /\ pc = "session" /\ pc' = "activities"
    \/ \E status \in ActivityStatuses : ActivityIsSet(NextActivity, status)
    \/ RetriesAreDue

\* No step does anything else to the rows of the activities.
LEMMA ActivityMovesIs ==
  ASSUME PublicationInv, Next
  PROVE  ActivityMoves
<1>0. PostedInOrder /\ LinearTyped /\ ActivitiesTyped
  BY DEF PublicationInv
<1>1. ASSUME NEW status \in ActivityStatuses, ActivityIsSet(NextActivity, status)
      PROVE  ActivityMoves
  BY <1>1 DEF ActivityMoves
<1>2. CASE DrainSession
  BY <1>2 DEF DrainSession, ActivityMoves, OnActivities
<1>3. CASE DrainActivity
  <2>1. CASE activities' = activities /\ pc' = "comment"
    BY <2>1 DEF ActivityMoves, OnActivities
  <2>2. CASE activities' = activities /\ NextActivity # 0
    BY <2>2 DEF ActivityMoves
  <2>3. CASE NextActivity # 0 /\ SetActivity(NextActivity, "sending", FALSE)
    BY <1>1, <1>3, <2>3 DEF ActivityIsSet, ActivityStatuses, DrainActivity, OnActivities
  <2> QED
    BY <1>3, <2>1, <2>2, <2>3 DEF DrainActivity
<1>4. CASE ReadActivity
  <2>1. pc = "activityRead" /\ NextActivity # 0
    BY <1>0, <1>4 DEF ReadActivity, PostedInOrder, OnActivities
  <2>2. CASE /\ ReadOk /\ Contains(linear.posted, NextActivity)
             /\ SetActivity(NextActivity, "confirmed", FALSE) /\ pc' = "activities"
             /\ session' = session
    <3>1. linear' = linear
      BY <2>2 DEF ReadOk
    <3> QED
      BY <1>1, <2>1, <2>2, <3>1 DEF ActivityIsSet, ActivityStatuses, OnActivities
  <2>3. CASE /\ SetActivity(NextActivity, "sending", FALSE) /\ pc' = "activityCall"
             /\ session' = session
    BY <1>1, <2>1, <2>3 DEF ActivityIsSet, ActivityStatuses, OnActivities
  <2>4. CASE activities' = activities /\ pc' = "comment"
    BY <2>4 DEF ActivityMoves, OnActivities
  <2>5. CASE FailActivity(NextActivity) /\ pc' = "stage"
    BY <1>1, <2>1, <2>5 DEF FailActivity, ActivityIsSet, ActivityStatuses, OnActivities
  <2> QED
    BY <1>4, <2>2, <2>3, <2>4, <2>5 DEF ReadActivity
<1>5. CASE AnswerActivity
  <2>1. pc = "activityCall" /\ NextActivity # 0
    BY <1>0, <1>5 DEF AnswerActivity, PostedInOrder, OnActivities
  <2> DEFINE q == [op |-> "post", activity |-> NextActivity]
  <2>2. CASE /\ Accepted(q) /\ SetActivity(NextActivity, "confirmed", FALSE)
             /\ pc' = "activities" /\ session' = session
    <3>1. q \in Request /\ q.op = "post" /\ q.activity = NextActivity
      BY <2>1, OutgoingTyped DEF Outgoing
    <3>2. ~Contains(linear.posted, NextActivity) /\ linear' = Applied(linear, q)
      BY <2>2 DEF Accepted, Duplicate
    <3> HIDE DEF q
    <3>3. linear'.posted = Append(linear.posted, NextActivity)
      BY <1>0, <3>1, <3>2, AppliedIs
    <3>4. linear.posted \in Seq(Nat) /\ NextActivity \in Nat
      BY <1>0, <3>1, RequestIs DEF LinearTyped
    <3>5. Contains(linear'.posted, NextActivity)
      <4>1. /\ Len(linear'.posted) \in 1 .. Len(linear'.posted)
            /\ linear'.posted[Len(linear'.posted)] = NextActivity
        BY <3>3, <3>4
      <4> QED
        BY <4>1, ContainsIs
    <3> QED
      BY <1>1, <2>1, <2>2, <3>5 DEF ActivityIsSet, ActivityStatuses, OnActivities
  <2>3. CASE /\ SetActivity(NextActivity, "pending", TRUE) /\ pc' = "comment"
             /\ session' = session
    BY <1>1, <2>1, <2>3 DEF ActivityIsSet, ActivityStatuses, OnActivities
  <2>4. CASE FailActivity(NextActivity) /\ pc' = "stage"
    BY <1>1, <2>1, <2>4 DEF FailActivity, ActivityIsSet, ActivityStatuses, OnActivities
  <2>5. CASE activities' = activities /\ pc' = "activityCheck"
    BY <2>1, <2>5 DEF ActivityMoves
  <2> QED
    BY <1>5, <2>2, <2>3, <2>4, <2>5 DEF AnswerActivity
<1>6. CASE CheckActivity
  <2>1. pc = "activityCheck" /\ NextActivity # 0
    BY <1>0, <1>6 DEF CheckActivity, PostedInOrder, OnActivities
  <2>2. CASE /\ ReadOk /\ Contains(linear.posted, NextActivity)
             /\ SetActivity(NextActivity, "confirmed", FALSE) /\ pc' = "activities"
             /\ session' = session
    <3>1. linear' = linear
      BY <2>2 DEF ReadOk
    <3> QED
      BY <1>1, <2>1, <2>2, <3>1 DEF ActivityIsSet, ActivityStatuses, OnActivities
  <2>3. CASE /\ SetActivity(NextActivity, "ambiguous", TRUE) /\ pc' = "comment"
             /\ session' = session
    BY <1>1, <2>1, <2>3 DEF ActivityIsSet, ActivityStatuses, OnActivities
  <2> QED
    BY <1>6, <2>2, <2>3 DEF CheckActivity
<1>7. CASE StartSync \/ StageComment \/ DrainComment \/ ReadComment \/ AnswerComment
  BY <1>7 DEF StartSync, StageComment, DrainComment, ReadComment, AnswerComment,
    ActivityMoves,
              OnActivities
<1>8. CASE AnswerSession \/ ReadSession
  BY <1>8 DEF AnswerSession, ReadSession, SettleSession, AfterSession, ActivityMoves,
    OnActivities
<1>9. CASE RetriesAreDue
  BY <1>9 DEF ActivityMoves
<1>10. CASE Progress \/ ChangePolicy \/ LateRequestLands \/ DeleteComment \/ Crash
  BY <1>10 DEF Progress, ChangePolicy, LateRequestLands, DeleteComment, Crash, rows,
    ActivityMoves,
               OnActivities
<1> QED
  BY <1>2, <1>3, <1>4, <1>5, <1>6, <1>7, <1>8, <1>9, <1>10 DEF Next, Publish

\* A session given up stays given up.
LEMMA FallbackIsFinal ==
  ASSUME PublicationInv, Next, session.status = "fallback"
  PROVE  session'.status = "fallback"
<1>0. SessionTyped /\ SessionMoves /\ session \in SessionRow
  BY SessionMovesIs DEF PublicationInv, SessionTyped
<1>1. ASSUME NEW urls \in 1 .. MaxStates, session' = StageSession(session, urls)
      PROVE  session'.status = "fallback"
  BY <1>0, <1>1, StageSessionIs
<1>2. CASE session' = SessionFallsBack(session)
  BY <1>0, <1>2, SessionErrorIs
<1>3. CASE session' = [session EXCEPT !.wait = FALSE]
  BY <1>0, <1>3 DEF SessionRow
<1> QED
  BY <1>0, <1>1, <1>2, <1>3 DEF SessionMoves, SessionTyped

\* While the step goes through the activities the session is not given up.
LEMMA OnActivitiesStep ==
  ASSUME PublicationInv, Next, pc' \in OnActivities
  PROVE  session'.status # "fallback"
<1>0. PostedInOrder /\ session \in SessionRow
  BY DEF PublicationInv, SessionTyped
<1>1. CASE DrainSession
  BY <1>1 DEF DrainSession, OnActivities
<1>2. CASE DrainActivity
  BY <1>0, <1>2 DEF DrainActivity, PostedInOrder, OnActivities
<1>3. CASE ReadActivity \/ AnswerActivity \/ CheckActivity
  BY <1>0, <1>3 DEF ReadActivity, AnswerActivity, CheckActivity, PostedInOrder, OnActivities
<1>4. CASE RetriesAreDue
  <2>1. session'.status = session.status /\ pc' = pc
    BY <1>0, <1>4 DEF RetriesAreDue, SessionRow
  <2> QED
    BY <1>0, <2>1 DEF PostedInOrder
<1>5. CASE StartSync \/ StageComment \/ DrainComment \/ ReadComment \/ AnswerComment
  BY <1>5 DEF StartSync, StageComment, DrainComment, ReadComment, AnswerComment,
    OnActivities
<1>6. CASE AnswerSession \/ ReadSession
  BY <1>6 DEF AnswerSession, ReadSession, SettleSession, AfterSession, OnActivities
<1>7. CASE Progress \/ ChangePolicy \/ LateRequestLands \/ DeleteComment \/ Crash
  BY <1>0, <1>7 DEF Progress, ChangePolicy, LateRequestLands, DeleteComment, Crash, rows,
                    PostedInOrder, OnActivities
<1> QED
  BY <1>1, <1>2, <1>3, <1>4, <1>5, <1>6, <1>7 DEF Next, Publish

\* ActivitiesTyped is kept.
LEMMA ActivitiesTypedStep ==
  ASSUME PublicationInv, Next
  PROVE  ActivitiesTyped'
<1>0. ActivitiesTyped /\ RunTyped /\ ActivityMoves
  BY ActivityMovesIs DEF PublicationInv
<1>1. CASE activities' = activities
  BY <1>0, <1>1 DEF ActivitiesTyped
<1>2. CASE activities' = StageActivities(job.run) /\ pc = "session"
  <2>1. job.run \in Run
    BY <1>0, <1>2 DEF RunTyped, Unstaged
  <2> QED
    BY <1>0, <1>2, <2>1, StageActivitiesAre DEF ActivitiesTyped
<1>3. ASSUME NEW i, NEW status \in ActivityStatuses, ActivityIsSet(i, status)
      PROVE  ActivitiesTyped'
  <2>1. i \in DOMAIN activities
    BY <1>0, <1>3, NextActivityIs DEF ActivityIsSet
  <2> QED
    BY <1>0, <1>3, <2>1, SetActivityIs DEF ActivityIsSet, ActivityStatuses, ActivitiesTyped
<1>4. CASE RetriesAreDue
  BY <1>0, <1>4, ActivitiesDue DEF ActivitiesTyped
<1> QED
  BY <1>0, <1>1, <1>2, <1>3, <1>4 DEF ActivityMoves

\* The next activity to be posted is at most one beyond what was posted: all
\* rows before it are confirmed.
LEMMA NextIsWithinReach ==
  ASSUME PublicationInv, pc \in OnActivities, NextActivity # 0
  PROVE  NextActivity \in 1 .. Len(linear.posted) + 1
<1>0. /\ activities \in Seq(ActivityRow) /\ PostedInOrder
      /\ linear.posted \in Seq(Nat) /\ Len(linear.posted) \in Nat
  BY DEF PublicationInv, ActivitiesTyped, LinearTyped
<1> DEFINE i == NextActivity
<1>1. i \in DOMAIN activities /\ i \in 1 .. Len(activities) /\ \A j \in Unconfirmed : i <= j
  BY <1>0, NextActivityIs DEF ActivitiesTyped
<1> HIDE DEF i
<1>2. CASE i = 1
  BY <1>0, <1>2 DEF i
<1>3. CASE i # 1
  <2> DEFINE j == i - 1
  <2>1. j \in 1 .. Len(activities) /\ j < i /\ j + 1 = i /\ j \in DOMAIN activities
    BY <1>0, <1>1, <1>3
  <2>2. j \notin Unconfirmed
    BY <1>0, <1>1, <2>1
  <2>3. activities[j] \in ActivityRow
    BY <1>0, <2>1
  <2> HIDE DEF j
  <2>4. activities[j].status \in {"confirmed", "failed"}
    BY <2>1, <2>2, <2>3 DEF Unconfirmed, ActivityRow
  <2>5. activities[j].status # "failed"
    BY <1>0, <2>1 DEF PostedInOrder
  <2>6. j <= Len(linear.posted)
    BY <1>0, <2>1, <2>4, <2>5 DEF PostedInOrder
  <2>7. i \in 1 .. Len(linear.posted) + 1
    BY <1>0, <1>1, <2>1, <2>6
  <2> QED
    BY <2>7 DEF i
<1> QED
  BY <1>2, <1>3

\* The i-th post is the i-th activity.
Ordered(posted) == \A i \in DOMAIN posted : posted[i] = i

\* A post within reach that is not there yet is the next.
LEMMA AppendInOrder ==
  ASSUME NEW posted \in Seq(Nat), Ordered(posted), NEW a \in 1 .. Len(posted) + 1,
         NEW p, p = IF Contains(posted, a) THEN posted ELSE Append(posted, a)
  PROVE  Ordered(p) /\ Len(p) >= Len(posted) /\ p \in Seq(Nat)
<1>0. Len(posted) \in Nat /\ DOMAIN posted = 1 .. Len(posted) /\ a \in Nat
  OBVIOUS
<1>1. CASE Contains(posted, a)
  BY <1>0, <1>1
<1>2. CASE ~Contains(posted, a)
  <2>1. a \notin 1 .. Len(posted)
    BY <1>0, <1>2, ContainsIs DEF Ordered
  <2>2. a = Len(posted) + 1
    BY <1>0, <2>1
  <2>3. p = Append(posted, a)
    BY <1>2
  <2>4. /\ p \in Seq(Nat) /\ Len(p) = Len(posted) + 1 /\ DOMAIN p = 1 .. Len(posted) + 1
        /\ \A i \in 1 .. Len(posted) : p[i] = posted[i]
        /\ p[Len(posted) + 1] = a
    BY <1>0, <2>3
  <2>5. \A i \in 1 .. Len(posted) + 1 : i \in 1 .. Len(posted) \/ i = Len(posted) + 1
    BY <1>0
  <2>6. Ordered(p)
    BY <1>0, <2>2, <2>4, <2>5 DEF Ordered
  <2> QED
    BY <1>0, <2>4, <2>6
<1> QED
  BY <1>1, <1>2

\* A step posts in order or nothing, and leaves no late post out of reach.
LEMMA PostedChange ==
  ASSUME PublicationInv, Next
  PROVE  /\ Ordered(linear'.posted)
         /\ Len(linear'.posted) \in Nat /\ Len(linear'.posted) >= Len(linear.posted)
         /\ \A q \in late' : q.op = "post" => q.activity \in 1 .. Len(linear'.posted) + 1
<1>0. /\ LinearTyped /\ PostedInOrder /\ linear.posted \in Seq(Nat) /\ Len(linear.posted) \in Nat
      /\ late \subseteq Request
  BY DEF PublicationInv, LinearTyped
<1>1. Ordered(linear.posted)
  BY <1>0 DEF PostedInOrder, Ordered
<1>2. \A q \in late : q.op = "post" => q.activity \in 1 .. Len(linear.posted) + 1
  BY <1>0 DEF PostedInOrder
<1>3. \A n \in Nat : n >= Len(linear.posted) =>
        1 .. Len(linear.posted) + 1 \subseteq 1 .. n + 1
  BY <1>0
<1>4. ASSUME NEW q \in Request, q.op = "post" => q.activity \in 1 .. Len(linear.posted) + 1
      PROVE  /\ Ordered(Applied(linear, q).posted)
             /\ Len(Applied(linear, q).posted) \in Nat
             /\ Len(Applied(linear, q).posted) >= Len(linear.posted)
  <2>1. CASE q.op = "post"
    <3>1. Applied(linear, q).posted = IF Contains(linear.posted, q.activity) THEN linear.posted
                                      ELSE Append(linear.posted, q.activity)
      BY <1>0, <2>1, AppliedIs
    <3>2. /\ Ordered(Applied(linear, q).posted) /\ Applied(linear, q).posted \in Seq(Nat)
          /\ Len(Applied(linear, q).posted) >= Len(linear.posted)
      BY <1>0, <1>1, <1>4, <2>1, <3>1, AppendInOrder
    <3> QED
      BY <3>2
  <2>2. CASE q.op # "post"
    <3>1. Applied(linear, q).posted = linear.posted
      BY <1>0, <2>2, AppliedIs
    <3>2. Len(linear.posted) >= Len(linear.posted)
      BY <1>0
    <3> QED
      BY <1>0, <1>1, <3>1, <3>2
  <2> QED
    BY <2>1, <2>2
<1>5. CASE LinearLeft \/ CommentGoes
  <2>1. linear'.posted = linear.posted /\ late' = late
    BY <1>0, <1>5 DEF LinearLeft, CommentGoes, LinearTyped
  <2> QED
    BY <1>0, <1>1, <1>2, <2>1
<1>6. ASSUME NEW q \in Request, Outgoing(q), LinearApplies(q) \/ LinearKeeps(q)
      PROVE  /\ Ordered(linear'.posted)
             /\ Len(linear'.posted) \in Nat /\ Len(linear'.posted) >= Len(linear.posted)
             /\ \A p \in late' : p.op = "post" => p.activity \in 1 .. Len(linear'.posted) + 1
  <2>1. q.op = "post" => q.activity \in 1 .. Len(linear.posted) + 1
    <3>1. ASSUME q.op = "post"
          PROVE  pc = "activityCall" /\ q.activity = NextActivity
      BY <1>6, <3>1 DEF Outgoing, SessionRequest, CommentRequest
    <3> QED
      BY <1>0, <3>1, NextIsWithinReach DEF PostedInOrder, OnActivities
  <2>2. CASE LinearApplies(q)
    BY <1>2, <1>3, <1>4, <2>1, <2>2 DEF LinearApplies
  <2>3. CASE LinearKeeps(q)
    BY <1>0, <1>1, <1>2, <2>1, <2>3 DEF LinearKeeps
  <2> QED
    BY <1>6, <2>2, <2>3
<1>7. ASSUME NEW q \in late, LinearLands(q)
      PROVE  /\ Ordered(linear'.posted)
             /\ Len(linear'.posted) \in Nat /\ Len(linear'.posted) >= Len(linear.posted)
             /\ \A p \in late' : p.op = "post" => p.activity \in 1 .. Len(linear'.posted) + 1
  BY <1>0, <1>2, <1>3, <1>4, <1>7 DEF LinearLands
<1> QED
  BY <1>5, <1>6, <1>7, LinearChanges

\* Rows confirmed are posted, and rows failed end the session.
LEMMA RowsArePosted ==
  ASSUME PublicationInv, Next
  PROVE  \A i \in DOMAIN activities' :
           /\ activities'[i].status = "confirmed" => i <= Len(linear'.posted)
           /\ activities'[i].status = "failed" => session'.status = "fallback"
<1>0. /\ PostedInOrder /\ ActivityMoves /\ ActivitiesTyped /\ RunTyped
      /\ linear.posted \in Seq(Nat) /\ Len(linear.posted) \in Nat /\ session \in SessionRow
      /\ DOMAIN activities = 1 .. Len(activities)
  BY ActivityMovesIs DEF PublicationInv, ActivitiesTyped, LinearTyped, SessionTyped
<1>1. Len(linear'.posted) \in Nat /\ Len(linear'.posted) >= Len(linear.posted)
  BY PostedChange
<1>2. ASSUME NEW i \in DOMAIN activities, NEW status, status = activities[i].status
      PROVE  /\ status = "confirmed" => i <= Len(linear'.posted)
             /\ status = "failed" => session'.status = "fallback"
  <2>1. i \in Nat
    BY <1>0
  <2>2. status = "confirmed" => i <= Len(linear.posted)
    BY <1>0, <1>2 DEF PostedInOrder
  <2>3. status = "failed" => session.status = "fallback"
    BY <1>0, <1>2 DEF PostedInOrder
  <2>4. i <= Len(linear.posted) => i <= Len(linear'.posted)
    BY <1>0, <1>1, <2>1
  <2> QED
    BY <2>2, <2>3, <2>4, FallbackIsFinal
<1>3. CASE activities' = activities
  BY <1>2, <1>3
<1>4. CASE activities' = StageActivities(job.run) /\ pc = "session"
  <2>1. job.run \in Run
    BY <1>0, <1>4 DEF RunTyped, Unstaged
  <2>2. /\ \A j \in DOMAIN activities : activities'[j] = activities[j]
        /\ \A j \in DOMAIN activities' : j > Len(activities) => activities'[j].status = "pending"
    BY <1>0, <1>4, <2>1, StageActivitiesAre
  <2>3. activities' \in Seq(ActivityRow)
    BY ActivitiesTypedStep DEF ActivitiesTyped
  <2>4. \A j \in DOMAIN activities' : j \in DOMAIN activities \/ j > Len(activities)
    <3>1. DOMAIN activities' = 1 .. Len(activities') /\ Len(activities) \in Nat
      BY <1>0, <2>3 DEF ActivitiesTyped
    <3> QED
      BY <1>0, <3>1
  <2> QED
    BY <1>2, <2>2, <2>4
<1>5. ASSUME NEW i, NEW status \in ActivityStatuses, ActivityIsSet(i, status)
      PROVE  \A j \in DOMAIN activities' :
               /\ activities'[j].status = "confirmed" => j <= Len(linear'.posted)
               /\ activities'[j].status = "failed" => session'.status = "fallback"
  <2>1. i \in DOMAIN activities
    BY <1>0, <1>5, NextActivityIs DEF ActivityIsSet
  <2>2. /\ DOMAIN activities' = DOMAIN activities /\ activities'[i].status = status
        /\ \A j \in DOMAIN activities : j # i => activities'[j] = activities[j]
    BY <1>0, <1>5, <2>1, SetActivityIs DEF ActivityIsSet, ActivityStatuses
  <2>3. status = "confirmed" => i <= Len(linear'.posted)
    <3>1. SUFFICES ASSUME status = "confirmed" PROVE i <= Len(linear'.posted)
      OBVIOUS
    <3>2. PICK k \in 1 .. Len(linear'.posted) : linear'.posted[k] = i
      BY <1>5, <3>1, ContainsIs DEF ActivityIsSet
    <3>3. linear'.posted \in Seq(Nat)
      BY LinearTypedStep DEF LinearTyped
    <3>4. k = i
      BY <3>2, <3>3, PostedChange DEF Ordered
    <3> QED
      BY <1>1, <3>2, <3>4
  <2>4. status = "failed" => session'.status = "fallback"
    BY <1>0, <1>5, SessionErrorIs DEF ActivityIsSet
  <2> QED
    BY <1>2, <2>2, <2>3, <2>4
<1>6. CASE RetriesAreDue
  BY <1>0, <1>2, <1>6, ActivitiesDue
<1> QED
  BY <1>0, <1>3, <1>4, <1>5, <1>6 DEF ActivityMoves

\* The step stands at an activity only while one is not confirmed.
LEMMA NextActivityStep ==
  ASSUME PublicationInv, Next, pc' \in OnActivities \ {"activities"}
  PROVE  NextActivity' # 0
<1>0. PostedInOrder /\ ActivityMoves /\ ActivitiesTyped /\ ActivitiesTyped'
  BY ActivityMovesIs, ActivitiesTypedStep DEF PublicationInv
<1>1. CASE activities' = activities /\ (NextActivity # 0 \/ pc' = pc)
  <2>1. NextActivity # 0
    BY <1>0, <1>1 DEF PostedInOrder
  <2> QED
    BY <1>1, <2>1 DEF NextActivity, Unconfirmed
<1>2. ASSUME NEW i, NEW status \in ActivityStatuses, ActivityIsSet(i, status)
      PROVE  NextActivity' # 0
  <2>1. i \in DOMAIN activities
    BY <1>0, <1>2, NextActivityIs DEF ActivityIsSet
  <2>2. DOMAIN activities' = DOMAIN activities /\ activities'[i].status = status
    BY <1>0, <1>2, <2>1, SetActivityIs DEF ActivityIsSet, ActivityStatuses
  <2>3. i \in DOMAIN activities' /\ activities'[i].status \in {"pending", "sending", "ambiguous"}
    BY <1>2, <2>1, <2>2 DEF ActivityIsSet
  <2>4. i \in Unconfirmed' /\ Unconfirmed' \subseteq Nat \ {0} /\ Unconfirmed' # {}
    BY <1>0, <2>3 DEF Unconfirmed, ActivitiesTyped
  <2>5. \E m \in Unconfirmed' : \A j \in Unconfirmed' : m <= j
    BY <2>4, LeastIn
  <2>6. NextActivity' \in Unconfirmed'
    BY <2>4, <2>5 DEF NextActivity
  <2> QED
    BY <2>4, <2>6
<1>3. CASE RetriesAreDue
  <2>1. pc' = pc
    BY <1>3 DEF RetriesAreDue
  <2>2. Unconfirmed' = Unconfirmed
    BY <1>0, <1>3, ActivitiesDue DEF Unconfirmed
  <2>3. NextActivity # 0
    BY <1>0, <2>1 DEF PostedInOrder
  <2> QED
    BY <2>2, <2>3 DEF NextActivity
<1> QED
  BY <1>0, <1>1, <1>2, <1>3 DEF ActivityMoves

\* PostedInOrder is kept.
LEMMA PostedInOrderStep ==
  ASSUME PublicationInv, Next
  PROVE  PostedInOrder'
<1>1. /\ \A i \in DOMAIN linear'.posted : linear'.posted[i] = i
      /\ \A q \in late' : q.op = "post" => q.activity \in 1 .. Len(linear'.posted) + 1
  BY PostedChange DEF Ordered
<1> QED
  BY <1>1, RowsArePosted, OnActivitiesStep, NextActivityStep DEF PostedInOrder

\* A step changes the facts of a run only while the run goes on.
LEMMA RunStays ==
  ASSUME Next
  PROVE  run' = run \/ (~run.done /\ activities' = activities)
<1>1. CASE Progress
  BY <1>1 DEF Progress, EnterState, Ask, Complete, rows
<1>2. CASE AnswerSession \/ ReadSession
  BY <1>2 DEF AnswerSession, ReadSession
<1>3. CASE \/ ChangePolicy \/ StartSync \/ DrainSession \/ DrainActivity \/ ReadActivity
           \/ AnswerActivity \/ CheckActivity
  BY <1>3 DEF ChangePolicy, StartSync, DrainSession, DrainActivity, ReadActivity,
              AnswerActivity, CheckActivity
<1>4. CASE \/ StageComment \/ DrainComment \/ ReadComment \/ AnswerComment
           \/ RetriesAreDue \/ LateRequestLands \/ DeleteComment \/ Crash
  BY <1>4 DEF StageComment, DrainComment, ReadComment, AnswerComment, RetriesAreDue,
              LateRequestLands, DeleteComment, Crash
<1> QED
  BY <1>1, <1>2, <1>3, <1>4 DEF Next, Publish

\* TerminalIsLast is kept: after the terminal response the run does not go on,
\* and all it has to show is staged.
LEMMA TerminalIsLastStep ==
  ASSUME PublicationInv, Next
  PROVE  TerminalIsLast'
<1>0. /\ TerminalIsLast /\ ActivityMoves /\ ActivitiesTyped /\ RunTyped
      /\ DOMAIN activities = 1 .. Len(activities) /\ Len(activities) \in Nat
  BY ActivityMovesIs DEF PublicationInv, ActivitiesTyped
<1>1. ASSUME DOMAIN activities' = DOMAIN activities, Len(activities') = Len(activities),
             \A j \in DOMAIN activities : activities'[j].key = activities[j].key,
             run' = run
      PROVE  TerminalIsLast'
  BY <1>0, <1>1 DEF TerminalIsLast, Staged
<1>2. CASE activities' = activities
  <2>1. CASE run' = run
    BY <1>1, <1>2, <2>1
  <2>2. CASE ~run.done
    BY <1>0, <1>2, <2>2 DEF TerminalIsLast
  <2> QED
    BY <2>1, <2>2, RunStays
<1>3. CASE activities' = StageActivities(job.run) /\ pc = "session" /\ pc' = "activities"
  <2>1. job.run = run /\ run \in Run
    BY <1>0, <1>3 DEF RunTyped, Unstaged
  <2>2. PICK new : new = StageActivities(run)
    OBVIOUS
  <2>3. /\ new \in Seq(ActivityRow)
        /\ \A j \in DOMAIN activities : new[j] = activities[j]
        /\ \A j \in DOMAIN new : j > Len(activities) =>
             (new[j].key = <<"terminal">> => j = Len(new) /\ run.done)
        /\ \A k \in DOMAIN AgentActivities(run) : \E j \in DOMAIN new :
             new[j].key = AgentActivities(run)[k]
        /\ (\A k \in DOMAIN AgentActivities(run) : Staged(AgentActivities(run)[k])) =>
             Len(new) = Len(activities)
    BY <1>0, <2>1, <2>2, StageActivitiesAre
  <2>4. activities' = new
    BY <1>3, <2>1, <2>2
  <2>5. run' = run
    <3>1. CASE DrainSession
      BY <3>1 DEF DrainSession
    <3>2. CASE Progress
      BY <1>3, <3>2 DEF Progress
    <3>3. pc # "idle"
      BY <1>3
    <3>4. ASSUME Next, ~Progress PROVE run' = run
      BY <3>4 DEF Next, Publish, ChangePolicy, StartSync, DrainSession, AnswerSession,
        ReadSession,
                  DrainActivity, ReadActivity, AnswerActivity, CheckActivity, StageComment,
                  DrainComment, ReadComment, AnswerComment, RetriesAreDue, LateRequestLands,
                  DeleteComment, Crash
    <3> QED
      BY <3>2, <3>4
  <2>6. ASSUME NEW i \in DOMAIN new, new[i].key = <<"terminal">>
        PROVE  i = Len(new) /\ run.done
    <3>1. CASE i \in DOMAIN activities
      <4>1. activities[i].key = <<"terminal">>
        BY <2>3, <2>6, <3>1
      <4>2. /\ i = Len(activities) /\ run.done
            /\ \A k \in DOMAIN AgentActivities(run) : Staged(AgentActivities(run)[k])
        BY <1>0, <3>1, <4>1 DEF TerminalIsLast
      <4> QED
        BY <2>3, <4>2
    <3>2. CASE i \notin DOMAIN activities
      <4>1. i > Len(activities)
        <5>1. i \in Nat /\ i >= 1
          BY <2>3
        <5> QED
          BY <1>0, <3>2, <5>1
      <4> QED
        BY <2>3, <2>6, <4>1
    <3> QED
      BY <3>1, <3>2
  <2> QED
    BY <2>3, <2>4, <2>5, <2>6 DEF TerminalIsLast, Staged
<1>4. ASSUME NEW i, NEW status \in ActivityStatuses, ActivityIsSet(i, status)
      PROVE  TerminalIsLast'
  <2>1. i \in DOMAIN activities
    BY <1>0, <1>4, NextActivityIs DEF ActivityIsSet
  <2>2. /\ DOMAIN activities' = DOMAIN activities /\ Len(activities') = Len(activities)
        /\ \A j \in DOMAIN activities : activities'[j].key = activities[j].key
    BY <1>0, <1>4, <2>1, SetActivityIs DEF ActivityIsSet, ActivityStatuses
  <2>3. CASE run' = run
    BY <1>1, <2>2, <2>3
  <2>4. CASE ~run.done
    BY <1>0, <2>2, <2>4 DEF TerminalIsLast
  <2> QED
    BY <2>3, <2>4, RunStays
<1>5. CASE RetriesAreDue
  <2>1. run' = run
    BY <1>5 DEF RetriesAreDue
  <2> QED
    BY <1>0, <1>1, <1>5, <2>1, ActivitiesDue
<1> QED
  BY <1>0, <1>2, <1>3, <1>4, <1>5 DEF ActivityMoves

-----------------------------------------------------------------------------
(* The specification.                                                      *)

\* The invariant holds at the start,
LEMMA PublicationStarts ==
  ASSUME Init
  PROVE  PublicationInv
<1>1. RunTyped
  BY BoundsAreNaturals DEF Init, RunTyped, Run, Policies, Unstaged
<1>2. LinearTyped
  BY DEF Init, LinearTyped
<1>3. EvidenceTyped
  BY DEF Init, EvidenceTyped, EvidenceRow, NoEvidence
<1>4. SessionTyped
  BY BoundsAreNaturals DEF Init, SessionTyped, SessionRow, NoSession, OnActivities
<1>5. SessionOnce
  BY DEF Init, SessionOnce, NoSession, MayCreate, Creates
<1>6. ActivitiesTyped
  BY DEF Init, ActivitiesTyped
<1>7. PostedInOrder
  BY DEF Init, PostedInOrder, OnActivities
<1>8. TerminalIsLast
  BY DEF Init, TerminalIsLast
<1> QED
  BY <1>1, <1>2, <1>3, <1>4, <1>5, <1>6, <1>7, <1>8 DEF PublicationInv

\* when nothing moves,
LEMMA PublicationStays ==
  ASSUME PublicationInv, UNCHANGED vars
  PROVE  PublicationInv'
BY DEF PublicationInv, vars, rows, bounds, RunTyped, LinearTyped, EvidenceTyped,
  SessionTyped,
       SessionOnce, MayCreate, Creates, ActivitiesTyped, PostedInOrder, TerminalIsLast,
       NextActivity, Unconfirmed, Staged

\* after every step,
LEMMA PublicationGoesOn ==
  ASSUME PublicationInv, Next
  PROVE  PublicationInv'
BY RunTypedStep, LinearTypedStep, EvidenceTypedStep, SessionTypedStep, SessionOnceStep,
   ActivitiesTypedStep, PostedInOrderStep, TerminalIsLastStep DEF PublicationInv

\* and so for ever.
LEMMA PublicationHolds == Spec => []PublicationInv
<1>1. Init => PublicationInv
  BY PublicationStarts
<1>2. PublicationInv /\ [Next]_vars => PublicationInv'
  BY PublicationStays, PublicationGoesOn
<1> QED
  BY <1>1, <1>2, PTL DEF Spec

\* Every row, every place of the step and every request has a value the code can
\* store or send (SQLiteLedger's tables, LinearGraphQLClient), for every number of
\* states, faults and policy changes.
THEOREM PublicationTyped == Spec => []TypeOK
<1>1. PublicationInv => TypeOK
  <2> SUFFICES ASSUME PublicationInv PROVE TypeOK
    OBVIOUS
  <2>1. /\ run \in Run /\ policy \in Policies /\ job \in Bodies \cup {None}
        /\ pc \in {"idle", "session", "sessionCall", "sessionRead", "activities", "activityRead",
                  "activityCall", "activityCheck", "stage", "comment", "commentRead",
                  "commentCall"}
    BY DEF PublicationInv, RunTyped, Unstaged
  <2>2. session \in SessionRow /\ (session.status \in {"active", "fallback"} => ~session.wait)
    BY DEF PublicationInv, SessionTyped
  <2>3. \A i \in DOMAIN activities : activities[i] \in ActivityRow
    BY DEF PublicationInv, ActivitiesTyped
  <2>4. evidence \in EvidenceRow
    BY DEF PublicationInv, EvidenceTyped
  <2>5. linear.comment \in Bodies \cup {None} /\ \A q \in late : q \in Request
    BY DEF PublicationInv, LinearTyped
  <2> QED
    BY <2>1, <2>2, <2>3, <2>4, <2>5 DEF TypeOK, SessionRow, ActivityRow, EvidenceRow
<1> QED
  BY <1>1, PublicationHolds, PTL

\* However creates are lost, repeated or late, and wherever the process dies,
\* Linear never holds two sessions with the run's marker
\* (LinearAgentSessionWorker._drain_session and _reconcile_session).
THEOREM NeverTwoSessions == Spec => []OneSession
<1>1. PublicationInv => OneSession
  BY DEF PublicationInv, SessionOnce, OneSession
<1> QED
  BY <1>1, PublicationHolds, PTL

\* The session shows the beginning of the staging order, each activity once, and
\* nothing after the terminal response (_stage_activity, _drain_activity).
THEOREM ActivitiesKeepOrder == Spec => []ActivitiesInOrder
<1>1. PublicationInv => ActivitiesInOrder
  BY DEF PublicationInv, PostedInOrder, TerminalIsLast, ActivitiesInOrder
<1> QED
  BY <1>1, PublicationHolds, PTL

-----------------------------------------------------------------------------
(* What a step confirms.                                                   *)

\* A session is confirmed with the links Linear shows.
LEMMA SessionIsShown ==
  ASSUME PublicationInv, Next, session'.status = "active", session # session'
  PROVE  linear'.sessions[session'.id] = session'.applied
<1>0. SessionTyped /\ SessionMoves /\ session \in SessionRow
  BY SessionMovesIs DEF PublicationInv, SessionTyped
<1>1. ASSUME NEW urls \in 1 .. MaxStates, session' = StageSession(session, urls)
      PROVE  FALSE
  BY <1>0, <1>1, StageSessionIs
<1>2. CASE session' = [session EXCEPT !.status = "sending"]
  BY <1>0, <1>2 DEF SessionRow
<1>3. ASSUME pc \in {"sessionCall", "sessionRead"}, NEW s, SettledAs(s), SettleSession(s)
      PROVE  linear'.sessions[session'.id] = session'.applied
  BY <1>3, SettledGoes DEF SettledAs
<1>4. CASE session' = SessionFallsBack(session)
  BY <1>0, <1>4, SessionErrorIs
<1>5. CASE session' = [session EXCEPT !.wait = FALSE]
  <2>1. session'.status = session.status
    BY <1>0, <1>5 DEF SessionRow
  <2>2. session.wait = FALSE
    BY <1>0, <2>1, SessionRowIs DEF SessionTyped
  <2>3. session' = session
    BY <1>0, <1>5, <2>2 DEF SessionRow
  <2> QED
    BY <2>3
<1> QED
  BY <1>0, <1>1, <1>2, <1>3, <1>4, <1>5 DEF SessionMoves

\* An activity is confirmed only if Linear shows it.
LEMMA ActivitiesAreShown ==
  ASSUME PublicationInv, Next, NEW i \in DOMAIN activities, activities'[i].status = "confirmed"
  PROVE  Contains(linear'.posted, i)
<1>0. /\ ActivityMoves /\ ActivitiesTyped /\ RunTyped
      /\ DOMAIN activities = 1 .. Len(activities)
  BY ActivityMovesIs DEF PublicationInv, ActivitiesTyped
<1>1. i \in DOMAIN activities'
  <2>1. CASE activities' = activities
    BY <2>1
  <2>2. CASE activities' = StageActivities(job.run) /\ pc = "session"
    <3>1. job.run \in Run
      BY <1>0, <2>2 DEF RunTyped, Unstaged
    <3> QED
      BY <1>0, <2>2, <3>1, StageActivitiesAre
  <2>3. ASSUME NEW k, NEW status \in ActivityStatuses, ActivityIsSet(k, status)
        PROVE  i \in DOMAIN activities'
    <3>1. k \in DOMAIN activities
      BY <1>0, <2>3, NextActivityIs DEF ActivityIsSet
    <3> QED
      BY <1>0, <2>3, <3>1, SetActivityIs DEF ActivityIsSet, ActivityStatuses
  <2>4. CASE RetriesAreDue
    BY <1>0, <2>4, ActivitiesDue
  <2> QED
    BY <1>0, <2>1, <2>2, <2>3, <2>4 DEF ActivityMoves
<1>2. i <= Len(linear'.posted)
  BY <1>1, RowsArePosted
<1>3. i \in 1 .. Len(linear'.posted) /\ linear'.posted \in Seq(Nat)
  BY <1>0, <1>2, LinearTypedStep, PostedChange DEF LinearTyped
<1>4. linear'.posted[i] = i
  BY <1>3, PostedChange DEF Ordered
<1> QED
  BY <1>3, <1>4, ContainsIs

\* The comment is confirmed with the body Linear shows.
LEMMA CommentIsShown ==
  ASSUME PublicationInv, Next, evidence'.status = "confirmed", evidence.status # "confirmed"
  PROVE  linear'.comment = evidence'.desired
<1>0. EvidenceTyped /\ evidence \in EvidenceRow /\ LinearTyped
  BY DEF PublicationInv, EvidenceTyped
<1>1. ASSUME NEW status, status # "confirmed", EvidenceIs(status)
      PROVE  FALSE
  BY <1>0, <1>1 DEF EvidenceIs, EvidenceRow
<1>2. ASSUME evidence' = ConfirmEvidence(evidence)
      PROVE  evidence'.desired = evidence.desired
  BY <1>0, <1>2 DEF ConfirmEvidence, EvidenceRow
<1>3. CASE StageComment
  BY <1>0, <1>3 DEF StageComment, StageEvidence, EvidenceRow
<1>4. CASE DrainComment
  BY <1>1, <1>4 DEF DrainComment
<1>5. CASE ReadComment
  <2>1. evidence' = ConfirmEvidence(evidence) /\ CommentIsDesired /\ linear' = linear
    BY <1>1, <1>5 DEF ReadComment, ReadOk
  <2> QED
    BY <1>2, <2>1 DEF CommentIsDesired
<1>6. CASE AnswerComment
  <2> DEFINE q == CommentRequest
  <2>1. q \in Request /\ q.op \in {"createComment", "updateComment"} /\ q.body = evidence.desired
    BY <1>6, OutgoingTyped DEF AnswerComment, Outgoing, CommentRequest
  <2>2. evidence' = ConfirmEvidence(evidence) /\ Accepted(q)
    BY <1>1, <1>6 DEF AnswerComment
  <2> HIDE DEF q
  <2>3. linear'.comment = q.body
    BY <1>0, <2>1, <2>2, AppliedIs DEF Accepted
  <2> QED
    BY <1>2, <2>1, <2>2, <2>3
<1>7. CASE RetriesAreDue
  BY <1>0, <1>7 DEF RetriesAreDue, EvidenceRow
<1>8. CASE evidence' = evidence
  BY <1>8
<1>9. CASE \/ Progress \/ ChangePolicy \/ StartSync \/ DrainSession \/ DrainActivity \/ ReadActivity
           \/ AnswerActivity \/ CheckActivity \/ LateRequestLands \/ DeleteComment \/ Crash
           \/ AnswerSession \/ ReadSession
  BY <1>8, <1>9 DEF Progress, ChangePolicy, StartSync, DrainSession, DrainActivity,
    ReadActivity,
            AnswerActivity, CheckActivity, LateRequestLands, DeleteComment, Crash, rows,
            AnswerSession, ReadSession
<1> QED
  BY <1>3, <1>4, <1>5, <1>6, <1>7, <1>9 DEF Next, Publish

\* A row becomes confirmed only in a state in which Linear shows what the row asks
\* for (_confirm_session, _confirm_activity, confirm_linear_evidence).
THEOREM ShownWhenConfirmed == Spec => ConfirmedIsShown
<1> DEFINE Shown ==
      /\ session'.status = "active" /\ session # session' =>
           linear'.sessions[session'.id] = session'.applied
      /\ \A i \in DOMAIN activities :
           activities'[i].status = "confirmed" => Contains(linear'.posted, i)
      /\ evidence'.status = "confirmed" /\ evidence.status # "confirmed" =>
           linear'.comment = evidence'.desired
<1>1. PublicationInv /\ [Next]_vars => [Shown]_vars
  BY SessionIsShown, ActivitiesAreShown, CommentIsShown
<1> HIDE DEF Shown
<1>2. Spec => [][Shown]_vars
  BY <1>1, PublicationHolds, PTL DEF Spec
<1> QED
  BY <1>2 DEF Shown, ConfirmedIsShown

-----------------------------------------------------------------------------
(* The promise.                                                            *)

\* What the promise rests on besides: no two activities have one key; what
\* Linear shows, or may come to show, is staged, and of a session there is; the
\* step posts only to a session it knows, the one it confirmed links of.
Distinct(acts) == \A i, j \in DOMAIN acts : acts[i].key = acts[j].key => i = j

SessionFirst ==
    /\ Distinct(activities)
    /\ Len(linear.posted) <= Len(activities)
    /\ \A q \in late : q.op = "post" =>
         q.activity \in DOMAIN activities /\ Len(linear.sessions) = 1
    /\ pc \in OnActivities \/ session.applied # 0 => session.id # 0

\* Two sequences without repetitions and without a common element.
LEMMA ConcatDistinct ==
  ASSUME NEW T, NEW s \in Seq(T), NEW t \in Seq(T),
         \A i, j \in DOMAIN s : s[i] = s[j] => i = j,
         \A i, j \in DOMAIN t : t[i] = t[j] => i = j,
         \A i \in DOMAIN s, j \in DOMAIN t : s[i] # t[j]
  PROVE  /\ s \o t \in Seq(T)
         /\ \A i, j \in DOMAIN (s \o t) : (s \o t)[i] = (s \o t)[j] => i = j
         /\ \A i \in DOMAIN (s \o t) :
              \/ \E k \in DOMAIN s : (s \o t)[i] = s[k]
              \/ \E k \in DOMAIN t : (s \o t)[i] = t[k]
<1> DEFINE n == Len(s)
           m == Len(t)
           u == s \o t
<1>1. n \in Nat /\ m \in Nat /\ DOMAIN s = 1 .. n /\ DOMAIN t = 1 .. m
  OBVIOUS
<1>2. /\ u \in Seq(T) /\ DOMAIN u = 1 .. n + m
      /\ \A i \in 1 .. n : u[i] = s[i]
      /\ \A i \in n + 1 .. n + m : i - n \in 1 .. m /\ u[i] = t[i - n]
  BY <1>1, ConcatAt
<1> HIDE DEF n, m, u
<1>3. \A i \in 1 .. n + m : i \in 1 .. n \/ i \in n + 1 .. n + m
  BY <1>1
<1>4. ASSUME NEW i \in DOMAIN u, NEW j \in DOMAIN u, u[i] = u[j]
      PROVE  i = j
  <2>1. CASE i \in 1 .. n /\ j \in 1 .. n
    BY <1>1, <1>2, <1>4, <2>1
  <2>2. CASE i \in n + 1 .. n + m /\ j \in n + 1 .. n + m
    <3>1. PICK k \in DOMAIN t : k = i - n /\ u[i] = t[k]
      BY <1>1, <1>2, <2>2
    <3>2. PICK l \in DOMAIN t : l = j - n /\ u[j] = t[l]
      BY <1>1, <1>2, <2>2
    <3>3. k = l
      BY <1>4, <3>1, <3>2
    <3>4. i \in Int /\ j \in Int
      BY <1>1, <2>2
    <3> QED
      BY <1>1, <3>1, <3>2, <3>3, <3>4
  <2>3. ~ (i \in 1 .. n /\ j \in n + 1 .. n + m)
    BY <1>1, <1>2, <1>4
  <2>4. ASSUME j \in 1 .. n, i \in n + 1 .. n + m
        PROVE  FALSE
    <3>1. PICK k \in DOMAIN t : u[i] = t[k]
      BY <1>1, <1>2, <2>4
    <3>2. j \in DOMAIN s /\ u[j] = s[j]
      BY <1>1, <1>2, <2>4
    <3> QED
      BY <1>4, <3>1, <3>2
  <2> QED
    BY <1>2, <1>3, <2>1, <2>2, <2>3, <2>4
<1>5. ASSUME NEW i \in DOMAIN u
      PROVE  (\E k \in DOMAIN s : u[i] = s[k]) \/ (\E k \in DOMAIN t : u[i] = t[k])
  BY <1>1, <1>2, <1>3
<1> QED
  BY <1>2, <1>4, <1>5 DEF u

\* The projection lists no activity twice.
LEMMA AgentActivitiesDiffer ==
  ASSUME NEW r \in Run
  PROVE  \A i, j \in DOMAIN AgentActivities(r) :
           AgentActivities(r)[i] = AgentActivities(r)[j] => i = j
<1>1. r.states \in 1 .. MaxStates /\ r.states \in Nat /\ r.asked \in BOOLEAN /\ r.done \in BOOLEAN
  BY BoundsAreNaturals DEF Run
<1> DEFINE StateRun(i) == <<"state", i,
                            IF i < r.states \/ r.done THEN "completed" ELSE "active">>
           A == <<<<"start">>>>
           B == [i \in 1 .. r.states |-> StateRun(i)]
           C == IF r.asked /\ ~r.done THEN <<<<"attention", r.states>>>> ELSE <<>>
           D == IF r.done THEN <<<<"terminal">>>> ELSE <<>>
<1>2. <<"start">> \in Keys /\ <<"terminal">> \in Keys /\ <<"attention", r.states>> \in Keys
  BY <1>1 DEF Keys
<1>3. \A i \in 1 .. r.states : StateRun(i) \in Keys
  BY <1>1, BoundsAreNaturals DEF Keys
<1>4. /\ \A i, j \in 1 .. r.states : StateRun(i) = StateRun(j) => i = j
      /\ \A i \in 1 .. r.states :
           StateRun(i) \notin {<<"start">>, <<"attention", r.states>>, <<"terminal">>}
  OBVIOUS
<1>5. /\ <<"start">> # <<"terminal">> /\ <<"attention", r.states>> # <<"terminal">>
      /\ <<"start">> # <<"attention", r.states>>
  OBVIOUS
<1> HIDE DEF StateRun
<1>6. /\ A \in Seq(Keys) /\ DOMAIN A = {1} /\ A[1] = <<"start">>
  BY <1>2
<1>7. /\ B \in Seq(Keys) /\ DOMAIN B = 1 .. r.states
      /\ \A i \in DOMAIN B : B[i] = StateRun(i)
  BY <1>1, <1>3
<1>8. /\ C \in Seq(Keys) /\ DOMAIN C \subseteq {1}
      /\ \A i \in DOMAIN C : C[i] = <<"attention", r.states>>
  BY <1>2
<1>9. /\ D \in Seq(Keys) /\ DOMAIN D \subseteq {1}
      /\ \A i \in DOMAIN D : D[i] = <<"terminal">>
  BY <1>2
<1>10. AgentActivities(r) = A \o B \o C \o D
  BY DEF AgentActivities, StateRun
<1> HIDE DEF A, B, C, D
<1> DEFINE F == A \o B
<1>11. /\ F \in Seq(Keys) /\ \A i, j \in DOMAIN F : F[i] = F[j] => i = j
       /\ \A i \in DOMAIN F : F[i] \notin {<<"attention", r.states>>, <<"terminal">>}
  <2>1. \A i, j \in DOMAIN A : A[i] = A[j] => i = j
    BY <1>6
  <2>2. \A i, j \in DOMAIN B : B[i] = B[j] => i = j
    BY <1>4, <1>7
  <2>3. \A i \in DOMAIN A, j \in DOMAIN B : A[i] # B[j]
    BY <1>4, <1>6, <1>7
  <2>4. /\ F \in Seq(Keys) /\ \A i, j \in DOMAIN F : F[i] = F[j] => i = j
        /\ \A i \in DOMAIN F :
             (\E k \in DOMAIN A : F[i] = A[k]) \/ (\E k \in DOMAIN B : F[i] = B[k])
    BY <1>6, <1>7, <2>1, <2>2, <2>3, ConcatDistinct
  <2> HIDE DEF F
  <2> QED
    BY <1>4, <1>5, <1>6, <1>7, <2>4
<1>12. AgentActivities(r) = F \o C \o D
  BY <1>10
<1> HIDE DEF F
<1> DEFINE G == F \o C
<1>13. /\ G \in Seq(Keys) /\ \A i, j \in DOMAIN G : G[i] = G[j] => i = j
       /\ \A i \in DOMAIN G : G[i] # <<"terminal">>
  <2>1. \A i, j \in DOMAIN C : C[i] = C[j] => i = j
    BY <1>8
  <2>2. \A i \in DOMAIN F, j \in DOMAIN C : F[i] # C[j]
    BY <1>8, <1>11
  <2>3. /\ G \in Seq(Keys) /\ \A i, j \in DOMAIN G : G[i] = G[j] => i = j
        /\ \A i \in DOMAIN G :
             (\E k \in DOMAIN F : G[i] = F[k]) \/ (\E k \in DOMAIN C : G[i] = C[k])
    BY <1>8, <1>11, <2>1, <2>2, ConcatDistinct
  <2> HIDE DEF G
  <2> QED
    BY <1>5, <1>8, <1>11, <2>3
<1>14. AgentActivities(r) = G \o D
  BY <1>12
<1> HIDE DEF G
<1>15. \A i, j \in DOMAIN D : D[i] = D[j] => i = j
  BY <1>9
<1>16. \A i \in DOMAIN G, j \in DOMAIN D : G[i] # D[j]
  BY <1>9, <1>13
<1>17. \A i, j \in DOMAIN (G \o D) : (G \o D)[i] = (G \o D)[j] => i = j
  BY <1>9, <1>13, <1>15, <1>16, ConcatDistinct
<1> QED
  BY <1>14, <1>17

\* Staging repeats no key.
LEMMA StagingDiffers ==
  ASSUME ActivitiesTyped, Distinct(activities), NEW r \in Run
  PROVE  Distinct(StageActivities(r))
<1> DEFINE listed == AgentActivities(r)
           positions == {i \in DOMAIN listed : ~Staged(listed[i])}
           fresh == Select(listed, positions)
           new == [i \in DOMAIN fresh |-> [key |-> fresh[i], status |-> "pending", wait |-> FALSE]]
<1>1. /\ listed \in Seq(Keys) /\ \A i, j \in DOMAIN listed : listed[i] = listed[j] => i = j
  BY AgentActivitiesAre, AgentActivitiesDiffer
<1>2. positions \subseteq DOMAIN listed /\ \A i \in positions : ~Staged(listed[i])
  OBVIOUS
<1>3. StageActivities(r) = activities \o new
  BY DEF StageActivities
<1> HIDE DEF listed, positions
<1>4. /\ fresh \in Seq(Keys)
      /\ \A k \in 1 .. Len(fresh) :
           Nth(positions, k) \in positions /\ fresh[k] = listed[Nth(positions, k)]
      /\ \A k, l \in 1 .. Len(fresh) : k < l => Nth(positions, k) < Nth(positions, l)
  BY <1>1, <1>2, SelectIs
<1> HIDE DEF fresh
<1>5. Len(fresh) \in Nat /\ DOMAIN fresh = 1 .. Len(fresh)
  BY <1>4
<1>6. positions \subseteq Nat
  BY <1>1, <1>2
<1>7. ASSUME NEW k \in 1 .. Len(fresh), NEW l \in 1 .. Len(fresh), fresh[k] = fresh[l]
      PROVE  k = l
  <2>1. Nth(positions, k) = Nth(positions, l) /\ Nth(positions, k) \in Nat
    BY <1>1, <1>2, <1>4, <1>6, <1>7
  <2>2. ~ (k < l) /\ ~ (l < k)
    BY <1>4, <2>1
  <2> QED
    BY <1>5, <2>2
<1>8. /\ DOMAIN new = 1 .. Len(fresh) /\ Len(new) = Len(fresh) /\ new \in Seq(ActivityRow)
      /\ \A k \in 1 .. Len(fresh) : new[k].key = fresh[k]
  <2>1. \A k \in 1 .. Len(fresh) :
          [key |-> fresh[k], status |-> "pending", wait |-> FALSE] \in ActivityRow
    BY <1>4 DEF ActivityRow
  <2> QED
    BY <1>5, <2>1
<1> HIDE DEF new
<1>9. \A i \in DOMAIN activities, k \in DOMAIN new : activities[i].key # new[k].key
  BY <1>2, <1>4, <1>8 DEF Staged
<1>10. \A k, l \in DOMAIN new : new[k].key = new[l].key => k = l
  BY <1>7, <1>8
<1> DEFINE n == Len(activities)
           m == Len(new)
           all == activities \o new
<1>11. activities \in Seq(ActivityRow) /\ n \in Nat /\ m \in Nat
       /\ DOMAIN activities = 1 .. n /\ DOMAIN new = 1 .. m
  BY <1>8 DEF ActivitiesTyped
<1> HIDE DEF n, m, all
<1>12. /\ DOMAIN all = 1 .. n + m
       /\ \A i \in 1 .. n : all[i] = activities[i]
       /\ \A i \in n + 1 .. n + m : i - n \in 1 .. m /\ all[i] = new[i - n]
  <2>1. activities \in Seq(ActivityRow) /\ new \in Seq(ActivityRow)
    BY <1>8, <1>11
  <2> QED
    BY <2>1, ConcatAt DEF n, m, all
<1>13. \A i \in 1 .. n + m : i \in 1 .. n \/ i \in n + 1 .. n + m
  BY <1>11
<1>14. ASSUME NEW i \in DOMAIN all, NEW j \in DOMAIN all, all[i].key = all[j].key
       PROVE  i = j
  <2>1. CASE i \in 1 .. n /\ j \in 1 .. n
    BY <1>11, <1>12, <1>14, <2>1 DEF Distinct
  <2>2. CASE i \in n + 1 .. n + m /\ j \in n + 1 .. n + m
    <3>1. PICK k \in DOMAIN new : k = i - n /\ all[i] = new[k]
      BY <1>11, <1>12, <2>2
    <3>2. PICK l \in DOMAIN new : l = j - n /\ all[j] = new[l]
      BY <1>11, <1>12, <2>2
    <3>3. k = l
      BY <1>10, <1>14, <3>1, <3>2
    <3>4. i \in Int /\ j \in Int
      BY <1>11, <2>2
    <3> QED
      BY <1>11, <3>1, <3>2, <3>3, <3>4
  <2>3. ASSUME NEW a \in 1 .. n, NEW b \in n + 1 .. n + m
        PROVE  all[a].key # all[b].key
    <3>1. PICK k \in DOMAIN new : all[b] = new[k]
      BY <1>11, <1>12, <2>3
    <3>2. a \in DOMAIN activities /\ all[a] = activities[a]
      BY <1>11, <1>12, <2>3
    <3> QED
      BY <1>9, <3>1, <3>2
  <2> QED
    BY <1>12, <1>13, <1>14, <2>1, <2>2, <2>3
<1> QED
  BY <1>3, <1>14 DEF all, Distinct

\* The row keeps the identity it has, and confirms links only of a session it
\* knows.
LEMMA SessionIsKept ==
  ASSUME PublicationInv, Next
  PROVE  /\ session.id # 0 => session'.id # 0
         /\ session'.applied = session.applied \/ session'.id # 0
<1>0. SessionTyped /\ SessionMoves /\ session \in SessionRow
  BY SessionMovesIs DEF PublicationInv, SessionTyped
<1>1. CASE session' = session
  BY <1>1
<1>2. ASSUME NEW urls \in 1 .. MaxStates, session' = StageSession(session, urls)
      PROVE  session'.id = session.id /\ session'.applied = session.applied
  BY <1>0, <1>2, StageSessionIs
<1>3. CASE session' = [session EXCEPT !.status = "sending"]
  BY <1>0, <1>3 DEF SessionRow
<1>4. ASSUME pc \in {"sessionCall", "sessionRead"}, NEW s, SettledAs(s), SettleSession(s)
      PROVE  /\ session.id # 0 => session'.id # 0
             /\ session'.applied = session.applied \/ session'.id # 0
  <2>1. /\ s \in SessionRow
        /\ s.status = "active" => s.id = 1
        /\ s.status # "active" => s.id = session.id /\ s.applied = session.applied
    BY <1>4 DEF SettledAs
  <2> QED
    BY <1>4, <2>1, SettledGoes
<1>5. CASE session' = SessionFallsBack(session)
  BY <1>0, <1>5, SessionErrorIs
<1>6. CASE session' = [session EXCEPT !.wait = FALSE]
  BY <1>0, <1>6 DEF SessionRow
<1> QED
  BY <1>0, <1>1, <1>2, <1>3, <1>4, <1>5, <1>6 DEF SessionMoves

\* The step comes to the activities only with links confirmed.
LEMMA ActivitiesAfterSession ==
  ASSUME PublicationInv, Next, pc' \in OnActivities
  PROVE  /\ pc \in OnActivities \/ session.applied # 0
         /\ session'.applied = session.applied /\ session'.id = session.id
<1>0. SessionTyped /\ session \in SessionRow
  BY DEF PublicationInv, SessionTyped
<1>1. CASE DrainSession
  BY <1>0, <1>1 DEF DrainSession, OnActivities, SessionTyped
<1>2. CASE DrainActivity
  BY <1>2 DEF DrainActivity, OnActivities
<1>3. CASE ReadActivity \/ AnswerActivity \/ CheckActivity
  BY <1>3 DEF ReadActivity, AnswerActivity, CheckActivity, OnActivities
<1>4. CASE RetriesAreDue
  <2>1. session'.applied = session.applied /\ session'.id = session.id /\ pc' = pc
    BY <1>0, <1>4 DEF RetriesAreDue, SessionRow
  <2> QED
    BY <2>1
<1>5. CASE StartSync \/ StageComment \/ DrainComment \/ ReadComment \/ AnswerComment
  BY <1>5 DEF StartSync, StageComment, DrainComment, ReadComment, AnswerComment,
    OnActivities
<1>6. CASE AnswerSession \/ ReadSession
  BY <1>6 DEF AnswerSession, ReadSession, SettleSession, AfterSession, OnActivities
<1>7. CASE Progress \/ ChangePolicy \/ LateRequestLands \/ DeleteComment \/ Crash
  BY <1>7 DEF Progress, ChangePolicy, LateRequestLands, DeleteComment, Crash, rows,
              OnActivities
<1> QED
  BY <1>1, <1>2, <1>3, <1>4, <1>5, <1>6, <1>7 DEF Next, Publish

\* A post goes, at once or later, to the session, of an activity that is staged.
LEMMA PostsAreStaged ==
  ASSUME PublicationInv, SessionFirst, NEW q,
         Outgoing(q) \/ q \in late, q.op = "post"
  PROVE  /\ q.activity \in DOMAIN activities /\ Len(linear.sessions) = 1
         /\ q.activity \in 1 .. Len(linear.posted) + 1
<1>0. PostedInOrder /\ ActivitiesTyped /\ SessionOnce
  BY DEF PublicationInv
<1>1. CASE Outgoing(q)
  <2>1. pc = "activityCall" /\ q.activity = NextActivity
    BY <1>1 DEF Outgoing, SessionRequest, CommentRequest
  <2>2. pc \in OnActivities /\ NextActivity # 0
    BY <1>0, <2>1 DEF PostedInOrder, OnActivities
  <2>3. session.id # 0
    BY <2>2 DEF SessionFirst
  <2> QED
    BY <1>0, <2>1, <2>2, <2>3, NextActivityIs, NextIsWithinReach DEF SessionOnce
<1>2. CASE q \in late
  BY <1>0, <1>2 DEF SessionFirst, PostedInOrder
<1> QED
  BY <1>1, <1>2

\* The session shows the next activity.
ShowsNext ==
    /\ linear'.posted = Append(linear.posted, Len(linear.posted) + 1)
    /\ Len(linear.posted) + 1 \in DOMAIN activities
    /\ Len(linear.sessions) = 1 /\ linear'.sessions = linear.sessions

\* What Linear shows stays, or grows by the next activity.
LEMMA PostedMoves ==
  ASSUME PublicationInv, SessionFirst, Next
  PROVE  linear'.posted = linear.posted \/ ShowsNext
<1>0. /\ LinearTyped /\ linear.posted \in Seq(Nat) /\ Len(linear.posted) \in Nat
      /\ DOMAIN linear.posted = 1 .. Len(linear.posted)
      /\ \A i \in DOMAIN linear.posted : linear.posted[i] = i
      /\ late \subseteq Request
  BY DEF PublicationInv, LinearTyped, PostedInOrder
<1>1. ASSUME NEW q \in Request, Outgoing(q) \/ q \in late, linear' = Applied(linear, q)
      PROVE  linear'.posted = linear.posted \/ ShowsNext
  <2>1. CASE q.op # "post"
    BY <1>0, <1>1, <2>1, AppliedIs
  <2>2. CASE q.op = "post" /\ Contains(linear.posted, q.activity)
    BY <1>0, <1>1, <2>2, AppliedIs
  <2>3. CASE q.op = "post" /\ ~Contains(linear.posted, q.activity)
    <3>1. /\ q.activity \in DOMAIN activities /\ Len(linear.sessions) = 1
          /\ q.activity \in 1 .. Len(linear.posted) + 1
      BY <1>1, <2>3, PostsAreStaged
    <3>2. q.activity \notin 1 .. Len(linear.posted)
      BY <1>0, <2>3, ContainsIs
    <3>3. q.activity = Len(linear.posted) + 1
      BY <1>0, <3>1, <3>2
    <3>4. /\ linear'.posted = Append(linear.posted, q.activity)
          /\ linear'.sessions = linear.sessions
      BY <1>0, <1>1, <2>3, AppliedIs
    <3> QED
      BY <3>1, <3>3, <3>4 DEF ShowsNext
  <2> QED
    BY <2>1, <2>2, <2>3
<1>2. CASE LinearLeft \/ CommentGoes
  BY <1>0, <1>2 DEF LinearLeft, CommentGoes, LinearTyped
<1>3. ASSUME NEW q \in Request, Outgoing(q), LinearApplies(q) \/ LinearKeeps(q)
      PROVE  linear'.posted = linear.posted \/ ShowsNext
  BY <1>1, <1>3 DEF LinearApplies, LinearKeeps
<1>4. ASSUME NEW q \in late, LinearLands(q)
      PROVE  linear'.posted = linear.posted \/ ShowsNext
  BY <1>0, <1>1, <1>4 DEF LinearLands
<1> QED
  BY <1>2, <1>3, <1>4, LinearChanges

\* Linear's sessions: as many as before, or the first.
LEMMA SessionsMove ==
  ASSUME PublicationInv, Next
  PROVE  \/ Len(linear'.sessions) = Len(linear.sessions)
         \/ Len(linear.sessions) = 0 /\ Len(linear'.sessions) = 1
BY SessionsChange DEF PublicationInv, SessionOnce, CreateLeft, CreateSent, CreateLands

\* No row of an activity goes, and none gets another key; rows come only while
\* the session is used, and without repeating a key.
LEMMA ActivitiesStay ==
  ASSUME PublicationInv, SessionFirst, Next
  PROVE  /\ Len(activities') \in Nat /\ Len(activities') >= Len(activities)
         /\ DOMAIN activities \subseteq DOMAIN activities'
         /\ \A i \in DOMAIN activities : activities'[i].key = activities[i].key
         /\ Distinct(activities')
<1>0. /\ ActivityMoves /\ ActivitiesTyped /\ RunTyped /\ Distinct(activities)
      /\ Len(activities) \in Nat
  BY ActivityMovesIs DEF PublicationInv, SessionFirst, ActivitiesTyped
<1>1. ASSUME DOMAIN activities' = DOMAIN activities, Len(activities') = Len(activities),
             \A j \in DOMAIN activities : activities'[j].key = activities[j].key
      PROVE  /\ Len(activities') \in Nat /\ Len(activities') >= Len(activities)
             /\ DOMAIN activities \subseteq DOMAIN activities'
             /\ Distinct(activities')
  BY <1>0, <1>1 DEF Distinct
<1>2. CASE activities' = activities
  BY <1>1, <1>2
<1>3. CASE activities' = StageActivities(job.run) /\ pc = "session"
  <2>1. job.run \in Run
    BY <1>0, <1>3 DEF RunTyped, Unstaged
  <2>2. /\ Len(activities') >= Len(activities)
        /\ DOMAIN activities \subseteq DOMAIN activities'
        /\ \A i \in DOMAIN activities : activities'[i].key = activities[i].key
    BY <1>0, <1>3, <2>1, StageActivitiesAre
  <2>3. Distinct(activities')
    BY <1>0, <1>3, <2>1, StagingDiffers
  <2>4. Len(activities') \in Nat
    BY ActivitiesTypedStep DEF ActivitiesTyped
  <2> QED
    BY <2>2, <2>3, <2>4
<1>4. ASSUME NEW i, NEW status \in ActivityStatuses, ActivityIsSet(i, status)
      PROVE  /\ DOMAIN activities' = DOMAIN activities /\ Len(activities') = Len(activities)
             /\ \A j \in DOMAIN activities : activities'[j].key = activities[j].key
  <2>1. i \in DOMAIN activities
    BY <1>0, <1>4, NextActivityIs DEF ActivityIsSet
  <2> QED
    BY <1>0, <1>4, <2>1, SetActivityIs DEF ActivityIsSet, ActivityStatuses
<1>5. CASE RetriesAreDue
  BY <1>0, <1>1, <1>5, ActivitiesDue
<1> QED
  BY <1>0, <1>1, <1>2, <1>3, <1>4, <1>5 DEF ActivityMoves

\* SessionFirst holds at the start,
LEMMA SessionFirstStarts ==
  ASSUME Init
  PROVE  SessionFirst
BY DEF Init, SessionFirst, Distinct, NoSession, OnActivities

\* and after every step.
LEMMA SessionFirstStep ==
  ASSUME PublicationInv, SessionFirst, Next
  PROVE  SessionFirst'
<1>0. /\ Len(activities) \in Nat /\ Len(linear.posted) \in Nat /\ linear.posted \in Seq(Nat)
      /\ DOMAIN activities = 1 .. Len(activities)
  BY DEF PublicationInv, ActivitiesTyped, LinearTyped
<1>1. /\ Len(activities') \in Nat /\ Len(activities') >= Len(activities)
      /\ DOMAIN activities \subseteq DOMAIN activities'
      /\ Distinct(activities')
  BY ActivitiesStay
<1>2. Len(linear'.posted) <= Len(activities')
  <2>1. CASE linear'.posted = linear.posted
    BY <1>0, <1>1, <2>1 DEF SessionFirst
  <2>2. CASE ShowsNext
    <3>1. Len(linear'.posted) = Len(linear.posted) + 1
      BY <1>0, <2>2 DEF ShowsNext
    <3>2. Len(linear.posted) + 1 <= Len(activities)
      BY <1>0, <2>2 DEF ShowsNext
    <3> QED
      BY <1>0, <1>1, <3>1, <3>2
  <2> QED
    BY <2>1, <2>2, PostedMoves
<1>3. Len(linear.sessions) = 1 => Len(linear'.sessions) = 1
  BY SessionsMove
<1>4. ASSUME NEW q \in late', q.op = "post"
      PROVE  q.activity \in DOMAIN activities' /\ Len(linear'.sessions) = 1
  <2>1. q \in late \/ Outgoing(q)
    BY <1>4, LinearChanges DEF LinearLeft, LinearApplies, LinearKeeps, LinearLands, CommentGoes
  <2> QED
    BY <1>1, <1>3, <1>4, <2>1, PostsAreStaged
<1>5. ASSUME pc' \in OnActivities \/ session'.applied # 0
      PROVE  session'.id # 0
  <2>1. CASE pc' \in OnActivities
    BY <2>1, ActivitiesAfterSession DEF SessionFirst
  <2>2. CASE session'.applied # 0
    BY <2>2, SessionIsKept DEF SessionFirst
  <2> QED
    BY <1>5, <2>1, <2>2
<1> QED
  BY <1>1, <1>2, <1>4, <1>5 DEF SessionFirst

\* Linear does what the promise says: it creates the session, shows the next
\* activity, or does nothing of it.
LEMMA LinearKeepsPromise ==
  ASSUME PublicationInv, SessionFirst, Next
  PROVE  Promise!Create \/ Promise!Show \/ UNCHANGED <<Len(linear.sessions), ShownKeys>>
<1> DEFINE posted == linear.posted
           n == Len(posted)
<1>0. /\ posted \in Seq(Nat) /\ n \in Nat /\ DOMAIN posted = 1 .. n
      /\ \A i \in 1 .. n : posted[i] = i
      /\ DOMAIN activities = 1 .. Len(activities) /\ Len(activities) \in Nat
      /\ n <= Len(activities)
  BY DEF PublicationInv, LinearTyped, ActivitiesTyped, PostedInOrder, SessionFirst
<1>1. /\ DOMAIN activities \subseteq DOMAIN activities'
      /\ \A i \in DOMAIN activities : activities'[i].key = activities[i].key
  BY ActivitiesStay
<1>2. ShownKeys = [i \in 1 .. n |-> activities[i].key]
  BY <1>0 DEF ShownKeys, StagedKeys
<1>3. ASSUME linear'.posted = posted
      PROVE  ShownKeys' = ShownKeys
  <2>1. ShownKeys' = [i \in 1 .. n |-> activities'[i].key]
    <3>1. \A i \in 1 .. n : i \in DOMAIN activities'
      BY <1>0, <1>1
    <3> QED
      BY <1>0, <1>3, <3>1 DEF ShownKeys, StagedKeys
  <2>2. \A i \in 1 .. n : activities'[i].key = activities[i].key
    BY <1>0, <1>1
  <2> QED
    BY <1>2, <2>1, <2>2
<1>4. CASE linear'.posted = posted
  BY <1>3, <1>4, SessionsMove DEF Promise!Create
<1>5. CASE ShowsNext
  <2>1. /\ linear'.posted = Append(posted, n + 1) /\ n + 1 \in DOMAIN activities
        /\ Len(linear.sessions) = 1 /\ Len(linear'.sessions) = 1
    BY <1>5 DEF ShowsNext
  <2>2. /\ DOMAIN linear'.posted = 1 .. n + 1
        /\ \A i \in 1 .. n + 1 : linear'.posted[i] = i
    BY <1>0, <2>1
  <2>3. \A i \in 1 .. n + 1 : i \in DOMAIN activities
    BY <1>0, <2>1
  <2>4. ShownKeys' = [i \in 1 .. n + 1 |-> activities[i].key]
    BY <1>1, <2>2, <2>3 DEF ShownKeys, StagedKeys
  <2>5. /\ StagedKeys = [i \in 1 .. Len(activities) |-> activities[i].key]
        /\ Len(StagedKeys) = Len(activities)
    BY <1>0 DEF StagedKeys
  <2>6. Len(ShownKeys) = n /\ Len(ShownKeys) < Len(StagedKeys)
    BY <1>0, <1>2, <2>1, <2>5
  <2>7. StagedKeys[n + 1] = activities[n + 1].key
    BY <1>0, <2>1, <2>5
  <2>8. Append(ShownKeys, activities[n + 1].key) = [i \in 1 .. n + 1 |-> activities[i].key]
    <3> DEFINE T == {activities[i].key : i \in DOMAIN activities}
               s == [i \in 1 .. n |-> activities[i].key]
               t == [i \in 1 .. n + 1 |-> activities[i].key]
    <3>1. s \in Seq(T) /\ Len(s) = n /\ \A i \in 1 .. n : s[i] = activities[i].key
      BY <1>0, <2>3
    <3>2. DOMAIN t = 1 .. n + 1 /\ \A i \in 1 .. n + 1 : t[i] = activities[i].key
      OBVIOUS
    <3> DEFINE u == Append(s, activities[n + 1].key)
    <3>3. activities[n + 1].key \in T
      BY <2>1
    <3> HIDE DEF T, s, t
    <3>4. /\ u \in Seq(T) /\ DOMAIN u = 1 .. n + 1
          /\ \A i \in 1 .. n : u[i] = s[i]
          /\ u[n + 1] = activities[n + 1].key
      BY <1>0, <3>1, <3>3
    <3>5. \A i \in 1 .. n + 1 : i \in 1 .. n \/ i = n + 1
      BY <1>0
    <3>6. \A i \in 1 .. n + 1 : u[i] = t[i]
      BY <3>1, <3>2, <3>4, <3>5
    <3>7. u = [i \in 1 .. n + 1 |-> u[i]] /\ t = [i \in 1 .. n + 1 |-> t[i]]
      BY <3>4 DEF t
    <3>8. u = t
      BY <3>6, <3>7
    <3> QED
      BY <1>2, <3>8 DEF u, s, t
  <2>9. ShownKeys' = Append(ShownKeys, StagedKeys[Len(ShownKeys) + 1])
    BY <2>4, <2>6, <2>7, <2>8
  <2> QED
    BY <2>1, <2>6, <2>9 DEF Promise!Show
<1> QED
  BY <1>4, <1>5, PostedMoves

\* The rows before the next activity are confirmed while the session is used.
LEMMA ConfirmedInOrder ==
  ASSUME PublicationInv, NextActivity # 0, session.status # "fallback"
  PROVE  NextActivity \notin Confirmed /\ 1 .. NextActivity - 1 \subseteq Confirmed
<1>0. activities \in Seq(ActivityRow) /\ PostedInOrder /\ Len(activities) \in Nat
      /\ DOMAIN activities = 1 .. Len(activities)
  BY DEF PublicationInv, ActivitiesTyped
<1> DEFINE n == NextActivity
<1>1. n \in DOMAIN activities /\ n \in Unconfirmed /\ \A j \in Unconfirmed : n <= j
  BY <1>0, NextActivityIs DEF ActivitiesTyped
<1> HIDE DEF n
<1>2. n \notin Confirmed
  BY <1>1 DEF Unconfirmed, Confirmed
<1>3. ASSUME NEW j \in 1 .. n - 1
      PROVE  j \in Confirmed
  <2>1. j \in DOMAIN activities /\ j < n /\ j \in Nat /\ n \in Nat
    BY <1>0, <1>1
  <2>2. j \notin Unconfirmed
    BY <1>1, <2>1
  <2>3. activities[j] \in ActivityRow
    BY <1>0, <2>1
  <2>4. activities[j].status \in {"confirmed", "failed"}
    BY <2>1, <2>2, <2>3 DEF Unconfirmed, ActivityRow
  <2>5. activities[j].status # "failed"
    BY <1>0, <2>1 DEF PostedInOrder
  <2> QED
    BY <2>1, <2>4, <2>5 DEF Confirmed
<1> QED
  BY <1>2, <1>3 DEF n

\* The ledger does what the promise says: it stages, takes the next activity for
\* shown, gives the session up, or does nothing of it.
LEMMA LedgerKeepsPromise ==
  ASSUME PublicationInv, SessionFirst, Next
  PROVE  \/ Promise!Stage \/ Promise!Know \/ Promise!GiveUp
         \/ UNCHANGED <<StagedKeys, Confirmed, session.status = "fallback">>
<1>0. /\ ActivityMoves /\ ActivitiesTyped /\ RunTyped /\ PostedInOrder /\ TerminalIsLast'
      /\ session \in SessionRow
      /\ DOMAIN activities = 1 .. Len(activities) /\ Len(activities) \in Nat
  BY ActivityMovesIs, TerminalIsLastStep DEF PublicationInv, ActivitiesTyped, SessionTyped
<1> DEFINE gone == session.status = "fallback"
           quiet == Promise!GiveUp \/ UNCHANGED <<StagedKeys, Confirmed, gone>>
<1>1. ASSUME StagedKeys' = StagedKeys, Confirmed' = Confirmed
      PROVE  quiet
  <2>1. gone => gone'
    BY FallbackIsFinal
  <2>2. gone \in BOOLEAN /\ gone' \in BOOLEAN
    OBVIOUS
  <2>3. CASE gone' = gone
    BY <1>1, <2>3
  <2>4. CASE ~gone /\ gone'
    <3>1. gone' = TRUE
      BY <2>4
    <3> QED
      BY <1>1, <2>4, <3>1 DEF Promise!GiveUp
  <2> QED
    BY <2>1, <2>2, <2>3, <2>4
<1>2. ASSUME DOMAIN activities' = DOMAIN activities,
             \A j \in DOMAIN activities : activities'[j].key = activities[j].key
      PROVE  StagedKeys' = StagedKeys
  BY <1>2 DEF StagedKeys
<1>3. CASE activities' = activities
  BY <1>1, <1>2, <1>3 DEF Confirmed
<1>4. CASE activities' = StageActivities(job.run) /\ pc = "session" /\ pc' = "activities"
  <2>1. job.run \in Run
    BY <1>0, <1>4 DEF RunTyped, Unstaged
  <2>2. ~gone /\ ~gone'
    BY <1>4, OnActivitiesStep, FallbackIsFinal DEF OnActivities
  <2>3. /\ Len(activities') >= Len(activities) /\ DOMAIN activities \subseteq DOMAIN activities'
        /\ \A j \in DOMAIN activities : activities'[j] = activities[j]
        /\ \A j \in DOMAIN activities' : j > Len(activities) => activities'[j].status = "pending"
    BY <1>0, <1>4, <2>1, StageActivitiesAre
  <2>4. DOMAIN activities' = 1 .. Len(activities') /\ Len(activities') \in Nat
    BY ActivitiesTypedStep DEF ActivitiesTyped
  <2>5. \A j \in DOMAIN activities' : j \in DOMAIN activities \/ j > Len(activities)
    BY <1>0, <2>4
  <2>6. Confirmed' = Confirmed
    BY <2>3, <2>5 DEF Confirmed
  <2>7. /\ StagedKeys = [i \in 1 .. Len(activities) |-> activities[i].key]
        /\ StagedKeys' = [i \in 1 .. Len(activities') |-> activities'[i].key]
    BY <1>0, <2>4 DEF StagedKeys
  <2>8. /\ DOMAIN StagedKeys = DOMAIN activities /\ DOMAIN StagedKeys' = DOMAIN activities'
        /\ \A i \in DOMAIN activities : StagedKeys[i] = activities[i].key
        /\ \A i \in DOMAIN activities' : StagedKeys'[i] = activities'[i].key
    BY <1>0, <2>4, <2>7
  <2>9. Len(StagedKeys) = Len(activities) /\ Len(StagedKeys') = Len(activities')
    BY <1>0, <2>4, <2>7
  <2>10. Distinct(activities')
    BY ActivitiesStay
  <2>11. \A i, j \in DOMAIN StagedKeys' : StagedKeys'[i] = StagedKeys'[j] => i = j
    BY <2>8, <2>10 DEF Distinct
  <2>12. \A i \in DOMAIN StagedKeys' : StagedKeys'[i] = <<"terminal">> => i = Len(StagedKeys')
    BY <1>0, <2>8, <2>9 DEF TerminalIsLast
  <2>13. \A i \in DOMAIN StagedKeys : StagedKeys'[i] = StagedKeys[i]
    BY <2>3, <2>8
  <2>14. Promise!Stage
    BY <2>2, <2>3, <2>6, <2>9, <2>11, <2>12, <2>13 DEF Promise!Stage
  <2> QED
    BY <2>14
<1>5. ASSUME NEW i, i = NextActivity, NEW status \in ActivityStatuses, ActivityIsSet(i, status)
      PROVE  Promise!Know \/ quiet
  <2>1. i \in DOMAIN activities
    BY <1>0, <1>5, NextActivityIs DEF ActivityIsSet
  <2>2. /\ DOMAIN activities' = DOMAIN activities /\ activities'[i].status = status
        /\ \A j \in DOMAIN activities :
             /\ activities'[j].key = activities[j].key
             /\ j # i => activities'[j] = activities[j]
    BY <1>0, <1>5, <2>1, SetActivityIs DEF ActivityIsSet, ActivityStatuses
  <2>3. ~gone
    BY <1>0, <1>5 DEF PostedInOrder, ActivityIsSet
  <2>4. i \notin Confirmed /\ 1 .. i - 1 \subseteq Confirmed
    BY <1>5, <2>3, ConfirmedInOrder DEF ActivityIsSet
  <2>5. StagedKeys' = StagedKeys
    BY <1>2, <2>2
  <2>6. CASE status # "confirmed"
    <3>1. Confirmed' = Confirmed
      BY <2>2, <2>4, <2>6 DEF Confirmed
    <3> QED
      BY <1>1, <2>5, <3>1
  <2>7. CASE status = "confirmed"
    <3>1. Confirmed' = Confirmed \cup {i}
      BY <2>1, <2>2, <2>7 DEF Confirmed
    <3>2. session' = session
      BY <1>5, <2>7 DEF ActivityIsSet
    <3>3. i \in DOMAIN ShownKeys'
      <4>1. i <= Len(linear'.posted)
        BY <2>1, <2>2, <2>7, RowsArePosted
      <4>2. linear'.posted \in Seq(Nat)
        BY LinearTypedStep DEF LinearTyped
      <4>3. i \in DOMAIN linear'.posted
        BY <1>0, <2>1, <4>1, <4>2
      <4> QED
        BY <4>3 DEF ShownKeys
    <3>4. gone' = gone
      BY <3>2
    <3> QED
      BY <2>3, <2>4, <2>5, <3>1, <3>3, <3>4 DEF Promise!Know
  <2> QED
    BY <2>6, <2>7
<1>6. CASE RetriesAreDue
  <2>1. StagedKeys' = StagedKeys
    BY <1>0, <1>2, <1>6, ActivitiesDue
  <2>2. Confirmed' = Confirmed
    BY <1>0, <1>6, ActivitiesDue DEF Confirmed
  <2> QED
    BY <1>1, <2>1, <2>2
<1> QED
  BY <1>0, <1>3, <1>4, <1>5, <1>6 DEF ActivityMoves

\* Rows and Linear together implement SessionPromise: one session, one activity
\* after the other in it, none twice and none after the last word, known to be
\* shown only when it is, and no return to a session given up
\* (LinearAgentSessionWorker.sync and what it calls).
THEOREM PromiseIsKept == Spec => KeepsSessionPromise
<1> DEFINE Inv == PublicationInv /\ SessionFirst
<1>1. Init => Inv
  BY PublicationStarts, SessionFirstStarts
<1>2. Inv /\ [Next]_vars => Inv'
  <2>1. Inv /\ Next => Inv'
    BY PublicationGoesOn, SessionFirstStep
  <2>2. Inv /\ UNCHANGED vars => Inv'
    BY PublicationStays DEF SessionFirst, Distinct, vars, rows
  <2> QED
    BY <2>1, <2>2
<1>3. Init => Promise!Init
  <2> SUFFICES ASSUME Init PROVE Promise!Init
    OBVIOUS
  <2>1. /\ session.status # "fallback" /\ activities = <<>>
        /\ linear.sessions = <<>> /\ linear.posted = <<>>
    BY DEF Init, NoSession
  <2>2. StagedKeys = <<>> /\ ShownKeys = <<>> /\ Confirmed = {} /\ Len(linear.sessions) = 0
    BY <2>1 DEF StagedKeys, ShownKeys, Confirmed
  <2> QED
    BY <2>1, <2>2 DEF Promise!Init
<1>4. Inv /\ [Next]_vars => [Promise!Next]_(Promise!promiseVars)
  <2>1. Inv /\ Next => Promise!Next
    BY LinearKeepsPromise, LedgerKeepsPromise DEF Promise!Next
  <2>2. UNCHANGED vars => UNCHANGED (Promise!promiseVars)
    BY DEF vars, rows, Promise!promiseVars, StagedKeys, ShownKeys, Confirmed
  <2> QED
    BY <2>1, <2>2
<1> HIDE DEF Inv
<1>5. Spec => Promise!Spec
  BY <1>1, <1>2, <1>3, <1>4, PTL DEF Spec, Promise!Spec
<1> QED
  BY <1>5 DEF KeepsSessionPromise
=============================================================================
