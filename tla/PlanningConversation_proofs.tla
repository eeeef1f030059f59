---------------------- MODULE PlanningConversation_proofs ---------------------
(***************************************************************************)
(* What the planning conversation keeps for every set of prompts and every *)
(* number of prompts and events: type correctness, AcceptedIsApplied,      *)
(* LastWordHolds and ApprovalIsInformed.                                   *)
(*                                                                         *)
(* None of them is inductive.  That a reply is true rests on what the      *)
(* owner's place says of the prompt at hand (AtHand) and on completed      *)
(* commands having had their effect; that the last word rules rests on     *)
(* snapshots being in the order of writing and without gaps (LeftInOrder), *)
(* for then no pause can be recorded after a later one (PausesInOrder).    *)
(***************************************************************************)
EXTENDS PlanningConversation, Selection_proofs

\* A prompt as it may be once Linear handed it over.
PromptType == [says: {"answer", "approve", "pause", "resume", "stop"}, version: Nat,
               by: {"operator", "approver", "outsider"}, queued: {"no", "yes", "was"}]

\* What the ledger holds of a prompt.
RowType == [reply: {None, "accepted", "rejected"},
            command: {None, "authorized", "completed", "failed"},
            expected: States \cup {None}]

\* The run, its plans and their reviews: every plan rests on messages there are,
\* every review displays a plan there is.
RunTyped ==
    /\ state \in States /\ attempt \in {"none", "queued", "running", "lost"}
    /\ context \in 0 .. Len(messages)
    /\ plans \in Seq([base: Nat, questions: BOOLEAN])
    /\ \A i \in DOMAIN plans : plans[i].base <= Len(messages)
    /\ reviews \in Seq([plan: Nat, since: Nat])
    /\ \A i \in DOMAIN reviews :
         reviews[i].plan \in DOMAIN plans /\ reviews[i].since \in 1 .. Len(prompts) + 1
    /\ state = "PlanReview" => plans # <<>>

\* The session, and what it left in the ledger.  Only answers become messages, only
\* approvals and stops decisions, only pauses and resumes pause events.
SessionTyped ==
    /\ prompts \in Seq(PromptType) /\ rows \in Seq(RowType) /\ Len(rows) = Len(prompts)
    /\ messages \in Seq(Nat \cup {API})
    /\ \A i \in DOMAIN messages :
         messages[i] # API => messages[i] \in DOMAIN prompts /\ Said(messages[i]) = "answer"
    /\ decisions \subseteq DOMAIN prompts
    /\ \A p \in decisions : Said(p) \in {"approve", "stop"}
    /\ pauses \in Seq(Nat)
    /\ \A i \in DOMAIN pauses :
         pauses[i] \in DOMAIN prompts /\ Said(pauses[i]) \in {"pause", "resume"}
    /\ reads \in [{"poll", "live"} -> Nat \cup {None}]
    /\ \A r \in {"poll", "live"} : reads[r] = None \/ reads[r] <= Len(prompts)

\* The snapshot: what is left of it is unanswered and in the order of writing.
InboxTyped ==
    /\ inbox \in [pending: SUBSET Nat, left: Seq(Nat)]
    /\ inbox.pending \subseteq DOMAIN prompts
    /\ \A k \in DOMAIN inbox.left :
         inbox.left[k] \in DOMAIN prompts /\ rows[inbox.left[k]].reply = None
    /\ \A j, k \in DOMAIN inbox.left : j < k => inbox.left[j] < inbox.left[k]
    /\ pc \in {"idle", "receive", "apply", "finish", "reply"}
    /\ pc = "idle" => inbox = Empty

\* A pause or resume that was never held in Linear's queue.
IsPause(p) == Said(p) \in {"pause", "resume"} /\ prompts[p].queued = "no"

\* A snapshot skips no pause or resume: one written before a prompt that is left is
\* answered, or left as well.
LeftInOrder ==
    \A k \in DOMAIN inbox.left : \A p \in DOMAIN prompts :
      IsPause(p) /\ p < inbox.left[k] =>
        rows[p].reply # None \/ \E j \in DOMAIN inbox.left : inbox.left[j] = p

\* A pause event leaves no earlier pause or resume behind that might still come,
\* and the events are in the order of writing.
PausesInOrder ==
    \A i \in DOMAIN pauses :
      /\ \A p \in DOMAIN prompts :
           IsPause(p) /\ p < pauses[i] => rows[p].reply # None \/ Contains(pauses, p)
      /\ \A j \in DOMAIN pauses :
           IsPause(pauses[i]) /\ IsPause(pauses[j]) /\ i < j => pauses[i] < pauses[j]

\* The prompts the control service executes.
Commands == {"answer", "approve", "stop"}

\* What is known of the prompt at hand, by the place of the owner: its command is
\* authorized while it is applied, what let an approval through still holds, and a
\* reply is given only to what has its effect or failed.
AtHand ==
    /\ pc \in {"apply", "finish", "reply"} => inbox.left # <<>>
    /\ pc \in {"apply", "finish"} =>
         Said(Current) \in Commands /\ rows[Current].command = "authorized"
    /\ pc = "apply" /\ Said(Current) = "approve" => MayApprove(Current)
    /\ pc = "finish" => EffectIsRecorded(Current)
    /\ pc = "reply" =>
         \/ Said(Current) \in {"pause", "resume"} /\ Contains(pauses, Current)
         \/ Said(Current) \in Commands /\ rows[Current].command \in {"completed", "failed"}

\* A completed command has its effect.
CommandsTookEffect ==
    \A p \in DOMAIN rows :
      rows[p].command = "completed" => Said(p) \in Commands /\ EffectIsRecorded(p)

\* The inductive invariant.
ConversationInv ==
    /\ RunTyped /\ SessionTyped /\ InboxTyped
    /\ LeftInOrder /\ PausesInOrder
    /\ AtHand /\ CommandsTookEffect /\ AcceptedIsApplied

-----------------------------------------------------------------------------
(* Prompts and rows.                                                       *)

\* The prompt at hand.
LEMMA CurrentIs ==
  ASSUME InboxTyped, inbox.left # <<>>
  PROVE  /\ Current \in DOMAIN prompts /\ Current = inbox.left[1] /\ 1 \in DOMAIN inbox.left
         /\ rows[Current].reply = None /\ inbox.left \in Seq(Nat)
BY TailIs DEF InboxTyped, Current

\* What is written stays as it is, but that Linear hands over what is queued.
Same(p) ==
    /\ prompts'[p].says = prompts[p].says /\ prompts'[p].by = prompts[p].by
    /\ prompts'[p].version = prompts[p].version
    /\ prompts'[p].queued = "no" <=> prompts[p].queued = "no"

\* No step changes what is written, and nobody writes while a snapshot is handled.
LEMMA PromptsKeep ==
  ASSUME SessionTyped, Next
  PROVE  /\ prompts' \in Seq(PromptType)
         /\ Len(prompts') \in Nat /\ Len(prompts) \in Nat /\ Len(prompts') >= Len(prompts)
         /\ DOMAIN prompts = 1 .. Len(prompts) /\ DOMAIN prompts \subseteq DOMAIN prompts'
         /\ \A p \in DOMAIN prompts : Same(p)
         /\ pc # "idle" => prompts' = prompts
<1>0. /\ prompts \in Seq(PromptType) /\ Len(prompts) \in Nat
      /\ DOMAIN prompts = 1 .. Len(prompts)
  BY DEF SessionTyped
<1>1. CASE Write
  <2>1. PICK prompt \in Prompts : prompts' = Append(prompts, prompt)
    BY <1>1 DEF Write
  <2>2. prompt \in PromptType
    BY PromptsAreTyped DEF PromptType
  <2>3. /\ prompts' \in Seq(PromptType) /\ Len(prompts') = Len(prompts) + 1
        /\ DOMAIN prompts \subseteq DOMAIN prompts'
        /\ \A p \in DOMAIN prompts : prompts'[p] = prompts[p]
    BY <1>0, <2>1, <2>2, AppendIs
  <2>4. pc = "idle"
    BY <1>1 DEF Write
  <2> QED
    BY <1>0, <2>3, <2>4 DEF Same
<1>2. CASE Unqueue
  <2>1. PICK p \in DOMAIN prompts :
          prompts[p].queued = "yes" /\ prompts' = [prompts EXCEPT ![p].queued = "was"]
    BY <1>2 DEF Unqueue
  <2> DEFINE prompt == [prompts[p] EXCEPT !.queued = "was"]
  <2>2. prompts[p] \in PromptType
    BY <1>0
  <2>3. /\ prompt \in PromptType /\ prompt.says = prompts[p].says /\ prompt.by = prompts[p].by
        /\ prompt.version = prompts[p].version /\ prompt.queued = "was"
    BY <2>2 DEF PromptType
  <2>4. prompts' = [prompts EXCEPT ![p] = prompt]
    BY <2>1
  <2> HIDE DEF prompt
  <2>5. prompts' \in Seq(PromptType) /\ Len(prompts') = Len(prompts) /\ DOMAIN prompts' = DOMAIN prompts
    BY <1>0, <2>3, <2>4, SeqExcept
  <2>6. prompts'[p] = prompt /\ \A q \in DOMAIN prompts : q # p => prompts'[q] = prompts[q]
    BY <1>0, <2>4
  <2>7. pc = "idle"
    BY <1>2 DEF Unqueue
  <2> QED
    BY <1>0, <2>1, <2>3, <2>5, <2>6, <2>7 DEF Same
<1>3. CASE prompts' = prompts
  BY <1>0, <1>3 DEF Same
<1>4. CASE Receive
  BY <1>3, <1>4 DEF Receive, Refuse, RecoverApproval, Leave, RecordPause, Execute, Recover,
                    CommandFails, Apply, Finish, Reply, EndReceive, session
<1>5. CASE LaunchPoll \/ LaunchLive \/ ReadIsLost \/ Consume
  BY <1>3, <1>5 DEF LaunchPoll, LaunchLive, ReadIsLost, Consume, session
<1>6. CASE Claim \/ Dispatch \/ EndOfAttempt \/ Present \/ Call \/ Crash
  BY <1>3, <1>6 DEF Claim, Dispatch, EndOfAttempt, Present, Call, Crash, session
<1> QED
  BY <1>1, <1>2, <1>4, <1>5, <1>6 DEF Next

\* The handling of the prompt ends.
LeftGoesOn == inbox' = [inbox EXCEPT !.left = Tail(inbox.left)] /\ pc' = "receive"

\* A reply, accepted only for a recorded approval or at the end of the handling.
Replies(row) ==
    /\ LeftGoesOn /\ rows[Current].reply = None
    /\ row.reply \in {"accepted", "rejected"}
    /\ row.command = rows[Current].command
    /\ row.reply = "accepted" =>
         \/ pc = "receive" /\ ApprovalIsRecorded(Current)
         \/ pc = "reply" /\ row.command # "failed"

\* A step of the command.
Commanded(row) ==
    /\ inbox' = inbox /\ row.reply = rows[Current].reply
    /\ \/ pc = "receive" /\ pc' = "apply" /\ row.command = "authorized"
       \/ pc = "apply" /\ pc' = "reply" /\ row.command = "failed"
       \/ pc = "finish" /\ pc' = "reply" /\ row.command = "completed"

\* What a step may do to the rows.
RowsMove ==
    \/ rows' = rows /\ prompts' = prompts
    \/ pc = "idle" /\ prompts' \in Seq(PromptType) /\ Len(prompts') = Len(prompts) + 1
       /\ rows' = Append(rows, NoRow) /\ inbox' = inbox
    \/ pc = "idle" /\ rows' = rows /\ Len(prompts') = Len(prompts) /\ inbox' = inbox
    \/ /\ prompts' = prompts /\ inbox.left # <<>>
       /\ \E row \in RowType :
            rows' = [rows EXCEPT ![Current] = row] /\ (Replies(row) \/ Commanded(row))

\* The row of the prompt at hand.
LEMMA RowOf ==
  ASSUME SessionTyped, InboxTyped, inbox.left # <<>>
  PROVE  /\ rows[Current] \in RowType /\ Current \in DOMAIN rows /\ rows[Current].reply = None
         /\ rows \in Seq(RowType)
<1>1. rows \in Seq(RowType) /\ prompts \in Seq(PromptType) /\ Len(rows) = Len(prompts)
  BY DEF SessionTyped
<1>2. DOMAIN rows = DOMAIN prompts
  BY <1>1
<1> QED
  BY <1>1, <1>2, CurrentIs

\* A reply changes one row.
LEMMA RepliedIs ==
  ASSUME SessionTyped, InboxTyped, inbox.left # <<>>,
         NEW status \in {"accepted", "rejected"}, Replied(status), prompts' = prompts,
         status = "accepted" => \/ pc = "receive" /\ ApprovalIsRecorded(Current)
                                \/ pc = "reply" /\ rows[Current].command # "failed"
  PROVE  RowsMove
<1> DEFINE row == [rows[Current] EXCEPT !.reply = status]
<1>1. rows[Current] \in RowType /\ rows[Current].reply = None
  BY RowOf
<1>2. row \in RowType /\ row.reply = status /\ row.command = rows[Current].command
  BY <1>1 DEF RowType
<1>3. rows' = [rows EXCEPT ![Current] = row] /\ LeftGoesOn
  BY DEF Replied, LeftGoesOn
<1> HIDE DEF row
<1>4. Replies(row)
  BY <1>1, <1>2, <1>3 DEF Replies
<1> QED
  BY <1>2, <1>3, <1>4 DEF RowsMove

\* No step does anything else to the rows.
LEMMA RowsMoveIs ==
  ASSUME RunTyped, SessionTyped, InboxTyped, Next
  PROVE  RowsMove
<1>1. CASE Write
  <2>1. PICK prompt \in Prompts : prompts' = Append(prompts, prompt)
    BY <1>1 DEF Write
  <2>2. Len(prompts') = Len(prompts) + 1 /\ prompts' \in Seq(PromptType)
    BY <2>1, AppendIs, PromptsAreTyped, PromptsKeep DEF SessionTyped, PromptType
  <2> QED
    BY <1>1, <2>2 DEF Write, owner, RowsMove
<1>2. CASE Unqueue
  <2>1. PICK p \in DOMAIN prompts : prompts' = [prompts EXCEPT ![p].queued = "was"]
    BY <1>2 DEF Unqueue
  <2>2. Len(prompts') = Len(prompts)
    BY <2>1 DEF SessionTyped
  <2> QED
    BY <1>2, <2>2 DEF Unqueue, owner, RowsMove
<1>3. CASE rows' = rows /\ prompts' = prompts
  BY <1>3 DEF RowsMove
<1>4. CASE Refuse
  BY <1>4, RepliedIs DEF Refuse, Handling
<1>5. CASE RecoverApproval
  BY <1>5, RepliedIs DEF RecoverApproval, Handling
<1>6. CASE Reply
  BY <1>6, RepliedIs DEF Reply, Handling
<1>7. ASSUME inbox.left # <<>>, inbox' = inbox, prompts' = prompts,
             NEW row \in RowType, rows' = [rows EXCEPT ![Current] = row], Commanded(row)
      PROVE  RowsMove
  BY <1>7 DEF RowsMove
<1>8. CASE Execute
  <2>1. inbox.left # <<>> /\ inbox' = inbox /\ prompts' = prompts /\ pc = "receive"
    BY <1>8 DEF Execute, Handling
  <2>2. rows[Current] \in RowType
    BY <2>1, RowOf
  <2>3. CASE rows[Current].command = None
    <3> DEFINE row == [rows[Current] EXCEPT !.command = "authorized", !.expected = state]
    <3>1. row \in RowType /\ row.reply = rows[Current].reply /\ row.command = "authorized"
      BY <2>2 DEF RowType, RunTyped
    <3>2. rows' = [rows EXCEPT ![Current].command = "authorized", ![Current].expected = state]
          /\ pc' = "apply"
      BY <1>8, <2>3, ValuesDiffer DEF Execute
    <3>3. rows' = [rows EXCEPT ![Current] = row]
      BY <3>2
    <3> HIDE DEF row
    <3>4. Commanded(row)
      BY <2>1, <3>1, <3>2 DEF Commanded
    <3> QED
      BY <1>7, <2>1, <3>1, <3>3, <3>4
  <2>4. CASE rows[Current].command # None
    BY <1>3, <1>8, <2>1, <2>4 DEF Execute
  <2> QED
    BY <2>3, <2>4
<1>9. CASE CommandFails \/ Finish
  <2>1. inbox.left # <<>> /\ inbox' = inbox /\ prompts' = prompts
    BY <1>9 DEF CommandFails, Finish, Handling
  <2>2. rows[Current] \in RowType
    BY <2>1, RowOf
  <2>3. PICK command \in {"failed", "completed"} :
          /\ rows' = [rows EXCEPT ![Current].command = command]
          /\ pc' = "reply"
          /\ (pc = "apply" /\ command = "failed") \/ (pc = "finish" /\ command = "completed")
    BY <1>9 DEF CommandFails, Finish, Handling
  <2> DEFINE row == [rows[Current] EXCEPT !.command = command]
  <2>4. row \in RowType /\ row.reply = rows[Current].reply /\ row.command = command
    BY <2>2 DEF RowType
  <2>5. rows' = [rows EXCEPT ![Current] = row]
    BY <2>3
  <2> HIDE DEF row
  <2>6. Commanded(row)
    BY <2>1, <2>3, <2>4 DEF Commanded
  <2> QED
    BY <1>7, <2>1, <2>4, <2>5, <2>6
<1>10. CASE Leave \/ RecordPause \/ Recover \/ Apply \/ EndReceive
  BY <1>3, <1>10 DEF Leave, RecordPause, Recover, Apply, EndReceive, session
<1>11. CASE LaunchPoll \/ LaunchLive \/ ReadIsLost \/ Consume
  BY <1>3, <1>11 DEF LaunchPoll, LaunchLive, ReadIsLost, Consume, session
<1>12. CASE Claim \/ Dispatch \/ EndOfAttempt \/ Present \/ Call \/ Crash
  BY <1>3, <1>12 DEF Claim, Dispatch, EndOfAttempt, Present, Call, Crash, session
<1> QED
  BY <1>1, <1>2, <1>4, <1>5, <1>6, <1>8, <1>9, <1>10, <1>11, <1>12 DEF Next, Receive

\* Rows come with prompts, and change only at the prompt at hand.
LEMMA RowsKeep ==
  ASSUME RunTyped, SessionTyped, InboxTyped, Next
  PROVE  /\ rows' \in Seq(RowType) /\ Len(rows') = Len(prompts')
         /\ DOMAIN rows = DOMAIN prompts /\ DOMAIN rows' = DOMAIN prompts'
         /\ DOMAIN rows \subseteq DOMAIN rows'
         /\ \A p \in DOMAIN rows' : p \in DOMAIN rows \/ rows'[p] = NoRow
         /\ \A p \in DOMAIN rows : rows'[p].reply # rows[p].reply =>
              /\ inbox.left # <<>> /\ p = Current /\ Replies(rows'[p])
         /\ \A p \in DOMAIN rows : rows'[p].command # rows[p].command =>
              /\ inbox.left # <<>> /\ p = Current /\ Commanded(rows'[p])
<1>0. /\ rows \in Seq(RowType) /\ prompts \in Seq(PromptType) /\ Len(rows) = Len(prompts)
      /\ prompts' \in Seq(PromptType) /\ DOMAIN rows = DOMAIN prompts
      /\ NoRow \in RowType
  <2>1. rows \in Seq(RowType) /\ prompts \in Seq(PromptType) /\ Len(rows) = Len(prompts)
    BY DEF SessionTyped
  <2>2. prompts' \in Seq(PromptType)
    BY PromptsKeep
  <2> QED
    BY <2>1, <2>2 DEF NoRow, RowType
<1>1. CASE rows' = rows /\ Len(prompts') = Len(prompts)
  <2>1. DOMAIN rows' = DOMAIN prompts'
    BY <1>0, <1>1
  <2> QED
    BY <1>0, <1>1, <2>1
<1>2. CASE rows' = Append(rows, NoRow) /\ Len(prompts') = Len(prompts) + 1
  <2>1. /\ rows' \in Seq(RowType) /\ Len(rows') = Len(rows) + 1 /\ DOMAIN rows' = 1 .. Len(rows) + 1
        /\ DOMAIN rows \subseteq DOMAIN rows' /\ DOMAIN rows = 1 .. Len(rows)
        /\ \A p \in 1 .. Len(rows) : rows'[p] = rows[p]
        /\ \A p \in DOMAIN rows' : p \in DOMAIN rows \/ rows'[p] = NoRow
    BY <1>0, <1>2, AppendIs
  <2>2. DOMAIN prompts' = 1 .. Len(prompts')
    BY <1>0
  <2>3. DOMAIN rows' = DOMAIN prompts'
    BY <1>0, <1>2, <2>1, <2>2
  <2> QED
    BY <1>0, <1>2, <2>1, <2>3
<1>3. ASSUME prompts' = prompts, inbox.left # <<>>,
             NEW row \in RowType, rows' = [rows EXCEPT ![Current] = row],
             Replies(row) \/ Commanded(row)
      PROVE  \/ Replies(row) /\ rows[Current].command = row.command
             \/ Commanded(row) /\ rows[Current].reply = row.reply
  BY <1>3 DEF Replies, Commanded
<1>4. CASE \E row \in RowType : /\ prompts' = prompts /\ inbox.left # <<>>
                                /\ rows' = [rows EXCEPT ![Current] = row]
                                /\ Replies(row) \/ Commanded(row)
  <2>1. PICK row \in RowType : /\ prompts' = prompts /\ inbox.left # <<>>
                               /\ rows' = [rows EXCEPT ![Current] = row]
                               /\ Replies(row) \/ Commanded(row)
    BY <1>4
  <2>2. Current \in DOMAIN rows
    BY <2>1, RowOf
  <2>3. rows' \in Seq(RowType) /\ Len(rows') = Len(rows) /\ DOMAIN rows' = DOMAIN rows
    BY <1>0, <2>1, SeqExcept
  <2>4. rows'[Current] = row /\ \A p \in DOMAIN rows : p # Current => rows'[p] = rows[p]
    BY <1>0, <2>1, <2>2
  <2>5. \/ Replies(row) /\ rows[Current].command = row.command
        \/ Commanded(row) /\ rows[Current].reply = row.reply
    BY <1>3, <2>1
  <2>6. \A p \in DOMAIN rows : rows'[p].reply # rows[p].reply => p = Current /\ Replies(row)
    BY <2>4, <2>5
  <2>7. \A p \in DOMAIN rows : rows'[p].command # rows[p].command => p = Current /\ Commanded(row)
    BY <2>4, <2>5
  <2> QED
    BY <1>0, <2>1, <2>3, <2>4, <2>6, <2>7
<1> QED
  BY <1>1, <1>2, <1>4, RowsMoveIs DEF RowsMove

\* What a step may do to the conversation.
MessagesMove ==
    \/ messages' = messages
    \/ pc = "idle" /\ messages' = Append(messages, API) /\ inbox' = inbox
    \/ /\ pc = "apply" /\ inbox.left # <<>> /\ Said(Current) = "answer"
       /\ ~EffectIsRecorded(Current) /\ messages' = Append(messages, Current)

\* No step does anything else to the conversation; decisions and pause events come
\* from the prompt at hand only.
LEMMA MessagesMoveIs ==
  ASSUME Next
  PROVE  /\ MessagesMove
         /\ \/ decisions' = decisions
            \/ /\ pc = "apply" /\ inbox.left # <<>> /\ decisions' = decisions \cup {Current}
               /\ Said(Current) # "answer"
         /\ \/ pauses' = pauses
            \/ /\ pc = "receive" /\ inbox.left # <<>> /\ pauses' = Append(pauses, Current)
               /\ ~Contains(pauses, Current) /\ Said(Current) \in {"pause", "resume"}
               /\ inbox' = inbox /\ rows' = rows /\ prompts' = prompts
<1>1. CASE Write \/ Unqueue
  BY <1>1 DEF Write, Unqueue, MessagesMove, plan
<1>2. CASE Refuse \/ RecoverApproval \/ Leave \/ RecordPause \/ Execute \/ Recover
           \/ CommandFails \/ Finish \/ Reply \/ EndReceive
  BY <1>2 DEF Refuse, RecoverApproval, Leave, RecordPause, Execute, Recover, CommandFails,
              Finish, Reply, EndReceive, MessagesMove, plan, session, Handling
<1>3. CASE Apply
  BY <1>3 DEF Apply, Handling, MessagesMove
<1>4. CASE LaunchPoll \/ LaunchLive \/ ReadIsLost \/ Consume
  BY <1>4 DEF LaunchPoll, LaunchLive, ReadIsLost, Consume, session, plan, MessagesMove
<1>5. CASE Claim \/ Dispatch \/ EndOfAttempt \/ Present \/ Crash
  BY <1>5 DEF Claim, Dispatch, EndOfAttempt, Present, Crash, session, plan, MessagesMove
<1>6. CASE Call
  BY <1>6 DEF Call, session, owner, MessagesMove
<1> QED
  BY <1>1, <1>2, <1>3, <1>4, <1>5, <1>6 DEF Next, Receive

-----------------------------------------------------------------------------
(* The session and the run.                                                *)

\* A prompt that was written.
LEMMA PromptOf ==
  ASSUME SessionTyped, NEW p \in DOMAIN prompts
  PROVE  /\ prompts[p] \in PromptType /\ p \in Nat
         /\ Said(p) \in {"answer", "approve", "pause", "resume", "stop"}
<1>1. prompts \in Seq(PromptType) /\ DOMAIN prompts = 1 .. Len(prompts) /\ Len(prompts) \in Nat
  BY DEF SessionTyped
<1>2. prompts[p] \in PromptType /\ p \in Nat
  BY <1>1
<1> QED
  BY <1>2 DEF PromptType, Said

\* What a prompt says stays.
LEMMA SaidKeeps ==
  ASSUME SessionTyped, Next
  PROVE  \A p \in DOMAIN prompts : p \in DOMAIN prompts' /\ Said(p)' = Said(p)
BY PromptsKeep DEF Same, Said

\* The conversation grows at its end, by a message through HTTP or by an answer
\* that is not in it.
LEMMA MessagesKeep ==
  ASSUME SessionTyped, InboxTyped, Next
  PROVE  /\ messages' \in Seq(Nat \cup {API})
         /\ Len(messages) \in Nat /\ Len(messages') \in Nat /\ Len(messages') >= Len(messages)
         /\ \A i \in DOMAIN messages : i \in DOMAIN messages' /\ messages'[i] = messages[i]
         /\ \A i \in DOMAIN messages' :
              \/ i \in DOMAIN messages
              \/ /\ DOMAIN messages' = DOMAIN messages \cup {i}
                 /\ messages'[i] = API \/ /\ inbox.left # <<>> /\ messages'[i] = Current
                                          /\ Said(Current) = "answer" /\ ~Contains(messages, Current)
<1>0. messages \in Seq(Nat \cup {API}) /\ Len(messages) \in Nat
  BY DEF SessionTyped
<1>1. CASE messages' = messages
  BY <1>0, <1>1
<1>2. ASSUME NEW e \in Nat \cup {API}, messages' = Append(messages, e),
             e = API \/ /\ inbox.left # <<>> /\ e = Current
                        /\ Said(Current) = "answer" /\ ~Contains(messages, Current)
      PROVE  /\ messages' \in Seq(Nat \cup {API})
             /\ Len(messages) \in Nat /\ Len(messages') \in Nat /\ Len(messages') >= Len(messages)
             /\ \A i \in DOMAIN messages : i \in DOMAIN messages' /\ messages'[i] = messages[i]
             /\ \A i \in DOMAIN messages' :
                  \/ i \in DOMAIN messages
                  \/ /\ DOMAIN messages' = DOMAIN messages \cup {i}
                     /\ messages'[i] = API \/ /\ inbox.left # <<>> /\ messages'[i] = Current
                                              /\ Said(Current) = "answer" /\ ~Contains(messages, Current)
  <2>1. /\ messages' \in Seq(Nat \cup {API}) /\ Len(messages') = Len(messages) + 1
        /\ DOMAIN messages' = 1 .. Len(messages) + 1 /\ DOMAIN messages = 1 .. Len(messages)
        /\ \A i \in 1 .. Len(messages) : messages'[i] = messages[i]
        /\ messages'[Len(messages) + 1] = e
    BY <1>0, <1>2, AppendIs
  <2>2. DOMAIN messages' = DOMAIN messages \cup {Len(messages) + 1}
    BY <1>0, <2>1
  <2> QED
    BY <1>0, <1>2, <2>1, <2>2
<1>3. CASE messages' = Append(messages, API)
  BY <1>2, <1>3
<1>4. CASE /\ inbox.left # <<>> /\ Said(Current) = "answer"
           /\ ~EffectIsRecorded(Current) /\ messages' = Append(messages, Current)
  <2>1. Current \in Nat
    BY <1>4, CurrentIs, PromptOf
  <2>2. ~Contains(messages, Current)
    BY <1>4 DEF EffectIsRecorded
  <2> QED
    BY <1>2, <1>4, <2>1, <2>2
<1> QED
  BY <1>1, <1>3, <1>4, MessagesMoveIs DEF MessagesMove

\* So do the pause events, by a prompt that is not among them.
LEMMA PausesKeep ==
  ASSUME SessionTyped, InboxTyped, Next
  PROVE  /\ pauses' \in Seq(Nat)
         /\ \A i \in DOMAIN pauses : i \in DOMAIN pauses' /\ pauses'[i] = pauses[i]
         /\ \A i \in DOMAIN pauses' :
              \/ i \in DOMAIN pauses
              \/ /\ inbox.left # <<>> /\ pauses'[i] = Current /\ ~Contains(pauses, Current)
                 /\ Said(Current) \in {"pause", "resume"}
                 /\ DOMAIN pauses' = DOMAIN pauses \cup {i} /\ \A j \in DOMAIN pauses : j < i
                 /\ inbox' = inbox /\ rows' = rows /\ prompts' = prompts
<1>0. pauses \in Seq(Nat) /\ Len(pauses) \in Nat
  BY DEF SessionTyped
<1>1. CASE pauses' = pauses
  BY <1>0, <1>1
<1>2. CASE /\ inbox.left # <<>> /\ pauses' = Append(pauses, Current)
           /\ ~Contains(pauses, Current) /\ Said(Current) \in {"pause", "resume"}
           /\ inbox' = inbox /\ rows' = rows /\ prompts' = prompts
  <2>1. Current \in Nat
    BY <1>2, CurrentIs, PromptOf
  <2>2. /\ pauses' \in Seq(Nat) /\ DOMAIN pauses' = 1 .. Len(pauses) + 1
        /\ DOMAIN pauses = 1 .. Len(pauses)
        /\ \A i \in 1 .. Len(pauses) : pauses'[i] = pauses[i]
        /\ pauses'[Len(pauses) + 1] = Current
    BY <1>0, <1>2, <2>1, AppendIs
  <2>3. /\ DOMAIN pauses' = DOMAIN pauses \cup {Len(pauses) + 1}
        /\ \A j \in DOMAIN pauses : j < Len(pauses) + 1
    BY <1>0, <2>2
  <2> QED
    BY <1>2, <2>2, <2>3
<1> QED
  BY <1>1, <1>2, MessagesMoveIs

\* A reader is free, goes on, or is launched now.
LEMMA ReadsKeep ==
  ASSUME SessionTyped, Next
  PROVE  /\ reads' \in [{"poll", "live"} -> Nat \cup {None}]
         /\ \A r \in {"poll", "live"} : reads'[r] \in {None, reads[r], Len(prompts)}
<1>0. /\ reads \in [{"poll", "live"} -> Nat \cup {None}] /\ Len(prompts) \in Nat
      /\ DOMAIN reads = {"poll", "live"}
  BY DEF SessionTyped
<1>1. CASE reads' = reads
  BY <1>0, <1>1
<1>2. CASE \E r \in {"poll", "live"} : Launched(r)
  BY <1>0, <1>2 DEF Launched
<1>3. CASE \E r \in {"poll", "live"} : ReaderIsFree(r)
  BY <1>0, <1>3 DEF ReaderIsFree
<1>4. CASE Crash
  BY <1>0, <1>4 DEF Crash
<1>5. CASE LaunchPoll \/ LaunchLive
  BY <1>2, <1>5 DEF LaunchPoll, LaunchLive
<1>6. CASE ReadIsLost \/ Consume
  BY <1>0, <1>3, <1>6 DEF ReadIsLost, Consume
<1>7. CASE Refuse \/ RecoverApproval \/ Leave \/ RecordPause \/ Execute \/ Recover
           \/ CommandFails \/ Apply \/ Finish \/ Reply \/ EndReceive
  BY <1>1, <1>7 DEF Refuse, RecoverApproval, Leave, RecordPause, Execute, Recover,
    CommandFails,
              Apply, Finish, Reply, EndReceive
<1>8. CASE Write \/ Unqueue \/ Claim \/ Dispatch \/ EndOfAttempt \/ Present \/ Call
  BY <1>1, <1>8 DEF Write, Unqueue, Claim, Dispatch, EndOfAttempt, Present, Call
<1> QED
  BY <1>4, <1>5, <1>6, <1>7, <1>8 DEF Next, Receive

\* SessionTyped is kept.
LEMMA SessionTypedStep ==
  ASSUME RunTyped, SessionTyped, InboxTyped, AtHand, Next
  PROVE  SessionTyped'
<1>1. /\ prompts' \in Seq(PromptType) /\ rows' \in Seq(RowType) /\ Len(rows') = Len(prompts')
      /\ messages' \in Seq(Nat \cup {API}) /\ pauses' \in Seq(Nat)
      /\ reads' \in [{"poll", "live"} -> Nat \cup {None}]
  BY PromptsKeep, RowsKeep, MessagesKeep, PausesKeep, ReadsKeep
<1>2. \A p \in DOMAIN prompts : p \in DOMAIN prompts' /\ Said(p)' = Said(p)
  BY SaidKeeps
<1>3. inbox.left # <<>> => Current \in DOMAIN prompts
  BY CurrentIs
<1>4. \A i \in DOMAIN messages' :
        messages'[i] # API => messages'[i] \in DOMAIN prompts /\ Said(messages'[i]) = "answer"
  BY <1>3, MessagesKeep DEF SessionTyped
<1>5. (\A i \in DOMAIN messages :
         messages[i] # API => messages[i] \in DOMAIN prompts /\ Said(messages[i]) = "answer")'
  BY <1>2, <1>4
<1>6. \A i \in DOMAIN pauses' :
        pauses'[i] \in DOMAIN prompts /\ Said(pauses'[i]) \in {"pause", "resume"}
  BY <1>3, PausesKeep DEF SessionTyped
<1>7. (\A i \in DOMAIN pauses : pauses[i] \in DOMAIN prompts /\ Said(pauses[i]) \in {"pause", "resume"})'
  BY <1>2, <1>6
<1>8. \A p \in decisions' : p \in DOMAIN prompts /\ Said(p) \in {"approve", "stop"}
  <2>1. CASE decisions' = decisions
    BY <2>1 DEF SessionTyped
  <2>2. CASE /\ pc = "apply" /\ inbox.left # <<>> /\ decisions' = decisions \cup {Current}
             /\ Said(Current) # "answer"
    <3>1. Said(Current) \in {"approve", "stop"}
      BY <2>2 DEF AtHand, Commands
    <3> QED
      BY <1>3, <2>2, <3>1 DEF SessionTyped
  <2> QED
    BY <2>1, <2>2, MessagesMoveIs
<1>9. (decisions \subseteq DOMAIN prompts /\ \A p \in decisions : Said(p) \in {"approve", "stop"})'
  BY <1>2, <1>8
<1>10. \A r \in {"poll", "live"} : reads'[r] = None \/ reads'[r] <= Len(prompts')
  <2>1. /\ Len(prompts) \in Nat /\ Len(prompts') \in Nat /\ Len(prompts') >= Len(prompts)
        /\ \A r \in {"poll", "live"} : reads'[r] \in {None, reads[r], Len(prompts)}
    BY PromptsKeep, ReadsKeep
  <2>2. \A r \in {"poll", "live"} : reads[r] \in Nat \cup {None}
                                   /\ (reads[r] = None \/ reads[r] <= Len(prompts))
    BY DEF SessionTyped
  <2>3. \A r \in {"poll", "live"} : reads'[r] = None
                     \/ (reads'[r] \in Nat /\ reads'[r] <= Len(prompts))
    BY <2>1, <2>2
  <2> QED
    BY <2>1, <2>3
<1> QED
  BY <1>1, <1>5, <1>7, <1>9, <1>10 DEF SessionTyped

\* Plans stay, a new one rests on the messages there are, and a run comes to its
\* review with a plan.
LEMMA PlansKeep ==
  ASSUME RunTyped, SessionTyped, Next
  PROVE  /\ plans' \in Seq([base: Nat, questions: BOOLEAN])
         /\ \A i \in DOMAIN plans : i \in DOMAIN plans' /\ plans'[i] = plans[i]
         /\ \A i \in DOMAIN plans' : i \in DOMAIN plans \/ plans'[i].base <= Len(messages)
         /\ plans # <<>> => plans' # <<>>
         /\ state' = "PlanReview" => plans' # <<>>
<1>0. /\ plans \in Seq([base: Nat, questions: BOOLEAN]) /\ Len(messages) \in Nat
      /\ context \in Nat /\ context <= Len(messages) /\ Len(plans) \in Nat
  <2>1. plans \in Seq([base: Nat, questions: BOOLEAN]) /\ context \in 0 .. Len(messages)
    BY DEF RunTyped
  <2>2. messages \in Seq(Nat \cup {API})
    BY DEF SessionTyped
  <2> QED
    BY <2>1, <2>2
<1>1. CASE plans' = plans /\ (state' = state \/ state' # "PlanReview")
  BY <1>0, <1>1 DEF RunTyped
<1>2. CASE /\ state' = "PlanReview"
           /\ \E questions \in BOOLEAN :
                plans' = Append(plans, [base |-> context, questions |-> questions])
  <2>1. PICK questions \in BOOLEAN :
          plans' = Append(plans, [base |-> context, questions |-> questions])
    BY <1>2
  <2> DEFINE plan1 == [base |-> context, questions |-> questions]
  <2>2. plan1 \in [base: Nat, questions: BOOLEAN] /\ plan1.base <= Len(messages)
    BY <1>0
  <2>3. plans' = Append(plans, plan1)
    BY <2>1
  <2> HIDE DEF plan1
  <2>4. /\ plans' \in Seq([base: Nat, questions: BOOLEAN]) /\ Len(plans') = Len(plans) + 1
        /\ DOMAIN plans = 1 .. Len(plans) /\ DOMAIN plans \subseteq DOMAIN plans'
        /\ \A i \in 1 .. Len(plans) : plans'[i] = plans[i]
        /\ plans'[Len(plans) + 1] = plan1
        /\ \A i \in DOMAIN plans' : i \in DOMAIN plans \/ i = Len(plans) + 1
    BY <1>0, <2>2, <2>3, AppendIs
  <2>5. plans' # <<>>
    BY <1>0, <2>4
  <2> QED
    BY <2>2, <2>4, <2>5
<1>3. CASE EndOfAttempt
  BY <1>1, <1>2, <1>3 DEF EndOfAttempt
<1>4. CASE Apply \/ EndReceive
  BY <1>1, <1>4 DEF Apply, EndReceive, plan, run
<1>5. CASE Claim \/ Dispatch \/ Present \/ Call \/ Crash
  BY <1>1, <1>5 DEF Claim, Dispatch, Present, Call, Crash, plan, run
<1>6. CASE Write \/ Unqueue \/ LaunchPoll \/ LaunchLive \/ ReadIsLost \/ Consume
  BY <1>1, <1>6 DEF Write, Unqueue, LaunchPoll, LaunchLive, ReadIsLost, Consume, plan, run
<1>7. CASE Refuse \/ RecoverApproval \/ Leave \/ RecordPause \/ Execute \/ Recover
           \/ CommandFails \/ Finish \/ Reply
  BY <1>1, <1>7 DEF Refuse, RecoverApproval, Leave, RecordPause, Execute, Recover,
    CommandFails,
              Finish, Reply, plan, run
<1> QED
  BY <1>3, <1>4, <1>5, <1>6, <1>7 DEF Next, Receive

\* Reviews stay, and a new one displays a plan there is.
LEMMA ReviewsKeep ==
  ASSUME RunTyped, SessionTyped, Next
  PROVE  /\ reviews' \in Seq([plan: Nat, since: Nat])
         /\ \A i \in DOMAIN reviews' :
              reviews'[i].plan \in DOMAIN plans /\ reviews'[i].since \in 1 .. Len(prompts) + 1
<1>0. /\ reviews \in Seq([plan: Nat, since: Nat]) /\ Len(plans) \in Nat /\ Len(prompts) \in Nat
      /\ DOMAIN plans = 1 .. Len(plans)
      /\ \A i \in DOMAIN reviews :
           reviews[i].plan \in DOMAIN plans /\ reviews[i].since \in 1 .. Len(prompts) + 1
  <2>1. /\ plans \in Seq([base: Nat, questions: BOOLEAN]) /\ reviews \in Seq([plan: Nat, since: Nat])
        /\ \A i \in DOMAIN reviews :
             reviews[i].plan \in DOMAIN plans /\ reviews[i].since \in 1 .. Len(prompts) + 1
    BY DEF RunTyped
  <2>2. prompts \in Seq(PromptType)
    BY DEF SessionTyped
  <2> QED
    BY <2>1, <2>2
<1>1. CASE reviews' = reviews
  BY <1>0, <1>1
<1>2. CASE Present
  <2> DEFINE review == [plan |-> Len(plans), since |-> Len(prompts) + 1]
  <2>1. plans # <<>>
    BY <1>2 DEF Present, ReviewIsDue, RunTyped
  <2>2. Len(plans) \in DOMAIN plans
    <3>1. plans \in Seq([base: Nat, questions: BOOLEAN])
      BY DEF RunTyped
    <3> QED
      BY <2>1, <3>1
  <2>3. /\ review \in [plan: Nat, since: Nat] /\ review.plan \in DOMAIN plans
        /\ review.since \in 1 .. Len(prompts) + 1
    BY <1>0, <2>2
  <2>4. reviews' = Append(reviews, review)
    BY <1>2 DEF Present
  <2> HIDE DEF review
  <2>5. /\ reviews' \in Seq([plan: Nat, since: Nat])
        /\ DOMAIN reviews = 1 .. Len(reviews)
        /\ \A i \in 1 .. Len(reviews) : reviews'[i] = reviews[i]
        /\ reviews'[Len(reviews) + 1] = review
        /\ \A i \in DOMAIN reviews' : i \in DOMAIN reviews \/ i = Len(reviews) + 1
    BY <1>0, <2>3, <2>4, AppendIs
  <2> QED
    BY <1>0, <2>3, <2>5
<1>3. CASE Apply \/ EndReceive \/ EndOfAttempt
  BY <1>1, <1>3 DEF Apply, EndReceive, EndOfAttempt, plan
<1>4. CASE Claim \/ Dispatch \/ Call \/ Crash
  BY <1>1, <1>4 DEF Claim, Dispatch, Call, Crash, plan
<1>5. CASE Write \/ Unqueue \/ LaunchPoll \/ LaunchLive \/ ReadIsLost \/ Consume
  BY <1>1, <1>5 DEF Write, Unqueue, LaunchPoll, LaunchLive, ReadIsLost, Consume, plan
<1>6. CASE Refuse \/ RecoverApproval \/ Leave \/ RecordPause \/ Execute \/ Recover
           \/ CommandFails \/ Finish \/ Reply
  BY <1>1, <1>6 DEF Refuse, RecoverApproval, Leave, RecordPause, Execute, Recover,
    CommandFails,
              Finish, Reply, plan
<1> QED
  BY <1>2, <1>3, <1>4, <1>5, <1>6 DEF Next, Receive

\* The run stays well typed, and is given nothing but the conversation.
LEMMA StateMoves ==
  ASSUME RunTyped, SessionTyped, Next
  PROVE  /\ state' \in States /\ attempt' \in {"none", "queued", "running", "lost"}
         /\ context' \in {context, 0, Len(messages)}
<1>0. state \in States /\ attempt \in {"none", "queued", "running", "lost"}
  BY DEF RunTyped
<1>1. CASE run' = run
  BY <1>0, <1>1 DEF run
<1>2. CASE Apply \/ EndReceive
  BY <1>0, <1>2 DEF Apply, EndReceive, run, States
<1>3. CASE EndOfAttempt
  BY <1>0, <1>3 DEF EndOfAttempt, States
<1>4. CASE Claim \/ Dispatch \/ Call \/ Crash
  BY <1>0, <1>4 DEF Claim, Dispatch, Call, Crash, States
<1>5. CASE Write \/ Unqueue \/ LaunchPoll \/ LaunchLive \/ ReadIsLost \/ Consume \/ Present
  BY <1>1, <1>5 DEF Write, Unqueue, LaunchPoll, LaunchLive, ReadIsLost, Consume, Present
<1>6. CASE Refuse \/ RecoverApproval \/ Leave \/ RecordPause \/ Execute \/ Recover
           \/ CommandFails \/ Finish \/ Reply
  BY <1>1, <1>6 DEF Refuse, RecoverApproval, Leave, RecordPause, Execute, Recover,
    CommandFails,
              Finish, Reply
<1> QED
  BY <1>2, <1>3, <1>4, <1>5, <1>6 DEF Next, Receive

\* RunTyped is kept.
LEMMA RunTypedStep ==
  ASSUME RunTyped, SessionTyped, InboxTyped, Next
  PROVE  RunTyped'
<1>1. /\ Len(messages) \in Nat /\ Len(messages') \in Nat /\ Len(messages') >= Len(messages)
      /\ Len(prompts) \in Nat /\ Len(prompts') \in Nat /\ Len(prompts') >= Len(prompts)
  BY MessagesKeep, PromptsKeep
<1>2. context' \in 0 .. Len(messages')
  <2>1. context \in 0 .. Len(messages)
    BY DEF RunTyped
  <2>2. context' = context \/ context' = 0 \/ context' = Len(messages)
    BY StateMoves
  <2> QED
    BY <1>1, <2>1, <2>2
<1>3. \A i \in DOMAIN plans' : plans'[i].base <= Len(messages')
  <2>1. TAKE i \in DOMAIN plans'
  <2>2. plans'[i].base <= Len(messages)
    BY PlansKeep DEF RunTyped
  <2>3. plans'[i].base \in Nat
    <3>1. plans' \in Seq([base: Nat, questions: BOOLEAN])
      BY PlansKeep
    <3>2. \A j \in DOMAIN plans' : plans'[j] \in [base: Nat, questions: BOOLEAN]
      BY <3>1, ElementOf
    <3> QED
      BY <3>2
  <2> QED
    BY <1>1, <2>2, <2>3
<1>4. \A i \in DOMAIN reviews' :
        reviews'[i].plan \in DOMAIN plans' /\ reviews'[i].since \in 1 .. Len(prompts') + 1
  <2>1. TAKE i \in DOMAIN reviews'
  <2>2. reviews'[i].plan \in DOMAIN plans /\ reviews'[i].since \in 1 .. Len(prompts) + 1
    BY ReviewsKeep
  <2>3. reviews'[i].since \in 1 .. Len(prompts') + 1
    BY <1>1, <2>2
  <2> QED
    BY <2>2, <2>3, PlansKeep
<1> QED
  BY <1>2, <1>3, <1>4, StateMoves, PlansKeep, ReviewsKeep DEF RunTyped

-----------------------------------------------------------------------------
(* The snapshot.                                                           *)

\* What a step may do to the snapshot.
InboxMove ==
    \/ inbox' = inbox /\ (pc' = pc \/ (pc # "idle" /\ pc' # "idle"))
    \/ /\ inbox.left # <<>> /\ LeftGoesOn
       /\ Said(Current) = "answer" \/ rows'[Current].reply # None
    \/ inbox' = Empty /\ pc' = "idle"
    \/ Consume

\* No step does anything else to the snapshot: what leaves it is answered, or is an
\* answer that waits.
LEMMA InboxMoveIs ==
  ASSUME SessionTyped, InboxTyped, Next
  PROVE  InboxMove
<1>1. CASE Refuse \/ RecoverApproval \/ Reply
  <2>1. inbox.left # <<>>
    BY <1>1 DEF Refuse, RecoverApproval, Reply, Handling
  <2>2. PICK status \in {"accepted", "rejected"} : Replied(status)
    BY <1>1 DEF Refuse, RecoverApproval, Reply
  <2>3. rows' = [rows EXCEPT ![Current].reply = status]
    BY <2>2 DEF Replied
  <2>4. rows'[Current].reply = status
    <3>1. rows[Current] \in RowType /\ Current \in DOMAIN rows
      BY <2>1, RowOf
    <3>2. [rows[Current] EXCEPT !.reply = status].reply = status
      BY <3>1 DEF RowType
    <3>3. rows' = [rows EXCEPT ![Current] = [rows[Current] EXCEPT !.reply = status]]
      BY <2>3
    <3> QED
      BY <3>1, <3>2, <3>3
  <2> QED
    BY <2>1, <2>2, <2>4, ValuesDiffer DEF Replied, LeftGoesOn, InboxMove
<1>2. CASE Leave
  BY <1>2 DEF Leave, Waits, LeftGoesOn, Handling, InboxMove
<1>3. CASE RecordPause \/ Execute \/ Recover \/ CommandFails \/ Apply \/ Finish
  <2>1. inbox' = inbox /\ pc # "idle"
    BY <1>3 DEF RecordPause, Execute, Recover, CommandFails, Apply, Finish, Handling
  <2>2. pc' # "idle"
    BY <1>3 DEF RecordPause, Execute, Recover, CommandFails, Apply, Finish
  <2> QED
    BY <2>1, <2>2 DEF InboxMove
<1>4. CASE EndReceive \/ Crash
  BY <1>4 DEF EndReceive, Crash, DropInbox, InboxMove
<1>5. CASE Write \/ Unqueue \/ LaunchPoll \/ LaunchLive \/ ReadIsLost
  BY <1>5 DEF Write, Unqueue, LaunchPoll, LaunchLive, ReadIsLost, owner, InboxMove
<1>6. CASE Claim \/ Dispatch \/ EndOfAttempt \/ Present \/ Call
  BY <1>6 DEF Claim, Dispatch, EndOfAttempt, Present, Call, owner, InboxMove
<1>7. CASE Consume
  BY <1>7 DEF InboxMove
<1> QED
  BY <1>1, <1>2, <1>3, <1>4, <1>5, <1>6, <1>7 DEF Next, Receive

\* The places of the owner.
LEMMA PcMoves ==
  ASSUME InboxTyped, Next
  PROVE  pc' \in {"idle", "receive", "apply", "finish", "reply"}
<1>0. pc \in {"idle", "receive", "apply", "finish", "reply"}
  BY DEF InboxTyped
<1>1. CASE Refuse \/ RecoverApproval \/ Reply \/ RecordPause
  BY <1>1 DEF Refuse, RecoverApproval, Reply, RecordPause, Replied
<1>2. CASE Recover \/ CommandFails \/ Apply \/ Finish \/ EndReceive \/ Crash \/ Consume
  BY <1>2 DEF Recover, CommandFails, Apply, Finish, EndReceive, Crash, Consume
<1>3. CASE Execute
  BY <1>3 DEF Execute
<1>4. CASE Leave \/ Write \/ Unqueue \/ LaunchPoll \/ LaunchLive \/ ReadIsLost
  BY <1>0, <1>4 DEF Leave, Write, Unqueue, LaunchPoll, LaunchLive, ReadIsLost, owner
<1>5. CASE Claim \/ Dispatch \/ EndOfAttempt \/ Present \/ Call
  BY <1>0, <1>5 DEF Claim, Dispatch, EndOfAttempt, Present, Call, owner
<1> QED
  BY <1>1, <1>2, <1>3, <1>4, <1>5 DEF Next, Receive

\* A snapshot holds what was unanswered when its read ended, in order of writing.
LEMMA ConsumeIs ==
  ASSUME SessionTyped, Consume
  PROVE  \E n \in Nat :
           /\ n <= Len(prompts)
           /\ inbox' = [pending |-> Unanswered(Snapshot(n)),
                        left |-> Ascending(Unanswered(Snapshot(n)))]
           /\ Unanswered(Snapshot(n)) \subseteq 1 .. n
           /\ IsFiniteSet(Unanswered(Snapshot(n)))
           /\ pc' = "receive" /\ rows' = rows /\ prompts' = prompts
<1>0. /\ reads \in [{"poll", "live"} -> Nat \cup {None}] /\ Len(prompts) \in Nat
      /\ DOMAIN reads = {"poll", "live"}
  BY DEF SessionTyped
<1>1. PICK r \in DOMAIN reads :
        /\ reads[r] # None
        /\ \E n \in reads[r] .. Len(prompts) :
             \E pending \in {Unanswered(Snapshot(n))} :
               inbox' = [pending |-> pending, left |-> OldestFirst(pending)]
  BY DEF Consume
<1>2. PICK n \in reads[r] .. Len(prompts) :
        inbox' = [pending |-> Unanswered(Snapshot(n)), left |-> OldestFirst(Unanswered(Snapshot(n)))]
  BY <1>1
<1>3. n \in Nat /\ n <= Len(prompts)
  BY <1>0, <1>1, <1>2
<1>4. Unanswered(Snapshot(n)) \subseteq 1 .. n
  BY DEF Unanswered, Snapshot
<1>5. IsFiniteSet(Unanswered(Snapshot(n)))
  BY <1>3, <1>4, FS_Interval, FS_Subset
<1> QED
  BY <1>2, <1>3, <1>4, <1>5 DEF OldestFirst, Consume, session

\* A step that keeps the snapshot takes at most the prompt at hand out of it.
LEMMA LeftIs ==
  ASSUME RunTyped, SessionTyped, InboxTyped, Next, ~Consume, inbox' # Empty
  PROVE  /\ inbox'.pending = inbox.pending /\ inbox'.left \in Seq(Nat)
         /\ inbox' \in [pending: SUBSET Nat, left: Seq(Nat)]
         /\ \A k \in DOMAIN inbox'.left : \E l \in DOMAIN inbox.left :
              inbox'.left[k] = inbox.left[l] /\ rows'[inbox.left[l]].reply = None
         /\ \A k, m \in DOMAIN inbox'.left : k < m => inbox'.left[k] < inbox'.left[m]
         /\ \A l \in DOMAIN inbox.left :
              \/ \E k \in DOMAIN inbox'.left : inbox'.left[k] = inbox.left[l]
              \/ /\ inbox.left[l] = Current
                 /\ Said(Current) = "answer" \/ rows'[Current].reply # None
<1>0. /\ inbox \in [pending: SUBSET Nat, left: Seq(Nat)] /\ inbox.left \in Seq(Nat)
      /\ inbox.pending \in SUBSET Nat
      /\ \A k \in DOMAIN inbox.left :
           inbox.left[k] \in DOMAIN rows /\ inbox.left[k] \in Nat /\ rows[inbox.left[k]].reply = None
      /\ \A j, k \in DOMAIN inbox.left : j < k => inbox.left[j] < inbox.left[k]
  BY RowsKeep DEF InboxTyped
<1>1. CASE inbox' = inbox
  <2>1. inbox.left # <<>> => inbox'.left # Tail(inbox.left)
    BY <1>0, <1>1
  <2>2. ~(inbox.left # <<>> /\ LeftGoesOn)
    BY <1>0, <2>1 DEF LeftGoesOn
  <2>3. \A p \in DOMAIN rows : rows'[p].reply = rows[p].reply
    BY <2>2, RowsKeep DEF Replies
  <2> QED
    BY <1>0, <1>1, <2>3
<1>2. CASE /\ inbox.left # <<>> /\ LeftGoesOn
           /\ Said(Current) = "answer" \/ rows'[Current].reply # None
  <2>1. Current = inbox.left[1]
    BY <1>2, CurrentIs
  <2> DEFINE left == inbox.left
  <2>2. /\ Tail(left) \in Seq(Nat) /\ 1 \in DOMAIN left
        /\ DOMAIN left \subseteq Nat /\ DOMAIN Tail(left) \subseteq Nat
        /\ \A k \in DOMAIN Tail(left) : k + 1 \in DOMAIN left /\ Tail(left)[k] = left[k + 1]
        /\ \A k \in DOMAIN left : k = 1 \/ (k - 1 \in DOMAIN Tail(left) /\ Tail(left)[k - 1] = left[k])
    BY <1>0, <1>2, TailIs
  <2>3. /\ inbox' = [inbox EXCEPT !.left = Tail(left)]
        /\ inbox'.left = Tail(left) /\ inbox'.pending = inbox.pending
        /\ inbox' \in [pending: SUBSET Nat, left: Seq(Nat)]
    BY <1>0, <1>2, <2>2 DEF LeftGoesOn
  <2>4. \A k \in DOMAIN Tail(left) : 1 < k + 1
    <3>1. DOMAIN Tail(left) = 1 .. Len(Tail(left)) /\ Len(Tail(left)) \in Nat
      BY <2>2
    <3> QED
      BY <3>1
  <2>5. \A k \in DOMAIN Tail(left) : left[k + 1] # Current
    BY <1>0, <2>1, <2>2, <2>4
  <2>6. \A k \in DOMAIN Tail(left) : rows'[left[k + 1]].reply = None
    <3>1. \A p \in DOMAIN rows : p # Current => rows'[p].reply = rows[p].reply
      BY RowsKeep
    <3>2. \A k \in DOMAIN Tail(left) : left[k + 1] \in DOMAIN rows /\ rows[left[k + 1]].reply = None
      BY <1>0, <2>2
    <3> QED
      BY <2>5, <3>1, <3>2
  <2>7. \A k, m \in DOMAIN Tail(left) : k < m => Tail(left)[k] < Tail(left)[m]
    BY <1>0, <2>2
  <2>8. \A l \in DOMAIN left :
          (\E k \in DOMAIN Tail(left) : Tail(left)[k] = left[l]) \/ left[l] = Current
    BY <2>1, <2>2
  <2>9. \A k \in DOMAIN Tail(left) : \E l \in DOMAIN left :
          Tail(left)[k] = left[l] /\ rows'[left[l]].reply = None
    BY <2>2, <2>6
  <2> HIDE DEF left
  <2> QED
    BY <1>2, <2>2, <2>3, <2>7, <2>8, <2>9 DEF left
<1> QED
  BY <1>1, <1>2, InboxMoveIs DEF InboxMove

\* InboxTyped is kept.
LEMMA InboxTypedStep ==
  ASSUME RunTyped, SessionTyped, InboxTyped, Next
  PROVE  InboxTyped'
<1>1. DOMAIN prompts \subseteq DOMAIN prompts' /\ DOMAIN rows = DOMAIN prompts
  BY PromptsKeep, RowsKeep
<1>2. CASE inbox' = Empty
  BY <1>2, PcMoves DEF InboxTyped, Empty
<1>3. CASE Consume
  <2>1. PICK n \in Nat :
           /\ n <= Len(prompts)
           /\ inbox' = [pending |-> Unanswered(Snapshot(n)),
                        left |-> Ascending(Unanswered(Snapshot(n)))]
           /\ Unanswered(Snapshot(n)) \subseteq 1 .. n
           /\ IsFiniteSet(Unanswered(Snapshot(n)))
           /\ pc' = "receive" /\ rows' = rows /\ prompts' = prompts
    BY <1>3, ConsumeIs
  <2> DEFINE seen == Unanswered(Snapshot(n))
  <2>2. DOMAIN prompts = 1 .. Len(prompts) /\ Len(prompts) \in Nat
    BY PromptsKeep
  <2>3. seen \subseteq Nat /\ seen \subseteq DOMAIN prompts /\ \A p \in seen : rows[p].reply = None
    BY <2>1, <2>2 DEF Unanswered
  <2> DEFINE left == Ascending(seen)
  <2>4. /\ left \in Seq(seen)
        /\ \A k, l \in DOMAIN left : k < l => left[k] < left[l]
    BY <2>1, <2>3, AscendingIs
  <2>5. inbox'.pending = seen /\ inbox'.left = left /\ inbox' = [pending |-> seen, left |-> left]
    BY <2>1
  <2> HIDE DEF seen, left
  <2>6. left \in Seq(Nat) /\ \A k \in DOMAIN left : left[k] \in seen
    <3>1. \A k \in DOMAIN left : left[k] \in seen
      BY <2>4, ElementOf
    <3>2. DOMAIN left = 1 .. Len(left) /\ Len(left) \in Nat /\ left = [k \in 1 .. Len(left) |-> left[k]]
      BY <2>4
    <3>3. \A k \in 1 .. Len(left) : left[k] \in Nat
      BY <2>3, <3>1, <3>2
    <3>4. left \in Seq(Nat)
      BY <3>2, <3>3
    <3> QED
      BY <3>1, <3>4
  <2>7. inbox' \in [pending: SUBSET Nat, left: Seq(Nat)]
    BY <2>3, <2>5, <2>6
  <2> QED
    BY <2>1, <2>3, <2>4, <2>5, <2>6, <2>7 DEF InboxTyped
<1>4. CASE ~Consume /\ inbox' # Empty
  <2>1. /\ inbox' \in [pending: SUBSET Nat, left: Seq(Nat)] /\ inbox'.pending = inbox.pending
        /\ \A k \in DOMAIN inbox'.left : \E l \in DOMAIN inbox.left :
              inbox'.left[k] = inbox.left[l] /\ rows'[inbox.left[l]].reply = None
        /\ \A k, m \in DOMAIN inbox'.left : k < m => inbox'.left[k] < inbox'.left[m]
    BY <1>4, LeftIs
  <2>2. \A k \in DOMAIN inbox'.left :
          inbox'.left[k] \in DOMAIN prompts /\ rows'[inbox'.left[k]].reply = None
    BY <2>1 DEF InboxTyped
  <2>3. inbox'.pending \subseteq DOMAIN prompts
    BY <2>1 DEF InboxTyped
  <2>4. pc' = "idle" => inbox' = Empty
    BY <1>4, InboxMoveIs DEF InboxMove, InboxTyped, LeftGoesOn
  <2> QED
    BY <1>1, <2>1, <2>2, <2>3, <2>4, PcMoves DEF InboxTyped
<1> QED
  BY <1>2, <1>3, <1>4

-----------------------------------------------------------------------------
(* The order of pauses.                                                    *)

\* A pause that never was in the queue does not get there.
LEMMA IsPauseKeeps ==
  ASSUME SessionTyped, Next
  PROVE  \A p \in DOMAIN prompts : IsPause(p)' = IsPause(p)
BY PromptsKeep DEF Same, Said, IsPause

\* A reply is never taken back.
LEMMA RepliesStay ==
  ASSUME RunTyped, SessionTyped, InboxTyped, Next
  PROVE  \A p \in DOMAIN prompts : rows[p].reply # None => rows'[p].reply # None
<1>1. \A p \in DOMAIN rows : rows'[p].reply # rows[p].reply => rows'[p].reply \in {"accepted", "rejected"}
  BY RowsKeep DEF Replies
<1> QED
  BY <1>1, RowsKeep, ValuesDiffer

\* LeftInOrder is kept.
LEMMA LeftInOrderStep ==
  ASSUME RunTyped, SessionTyped, InboxTyped, LeftInOrder, Next
  PROVE  LeftInOrder'
<1>0. /\ DOMAIN prompts = 1 .. Len(prompts) /\ Len(prompts) \in Nat
      /\ DOMAIN prompts' = 1 .. Len(prompts') /\ Len(prompts') \in Nat
      /\ Len(prompts) <= Len(prompts')
  BY PromptsKeep
<1>1. CASE inbox' = Empty
  BY <1>1 DEF LeftInOrder, Empty
<1>2. CASE Consume
  <2>1. PICK n \in Nat :
           /\ n <= Len(prompts)
           /\ inbox' = [pending |-> Unanswered(Snapshot(n)),
                        left |-> Ascending(Unanswered(Snapshot(n)))]
           /\ Unanswered(Snapshot(n)) \subseteq 1 .. n
           /\ IsFiniteSet(Unanswered(Snapshot(n)))
           /\ pc' = "receive" /\ rows' = rows /\ prompts' = prompts
    BY <1>2, ConsumeIs
  <2> DEFINE seen == Unanswered(Snapshot(n))
             left == Ascending(seen)
  <2>2. /\ left \in Seq(seen) /\ \A p \in seen : \E k \in DOMAIN left : left[k] = p
    BY <2>1, AscendingIs
  <2>3. inbox'.left = left
    BY <2>1
  <2>4. \A p \in DOMAIN prompts :
          IsPause(p) /\ p <= n => rows[p].reply # None \/ p \in seen
    BY <1>0, <2>1 DEF IsPause, Unanswered, Snapshot
  <2> HIDE DEF left
  <2>5. \A k \in DOMAIN left : left[k] \in 1 .. n
    BY <2>1, <2>2, ElementOf
  <2> HIDE DEF seen
  <2>6. ASSUME NEW k \in DOMAIN left, NEW p \in DOMAIN prompts, IsPause(p), p < left[k]
        PROVE  rows[p].reply # None \/ \E j \in DOMAIN left : left[j] = p
    <3>1. p <= n
      BY <1>0, <2>1, <2>5, <2>6
    <3> QED
      BY <2>2, <2>4, <2>6, <3>1
  <2>7. \A p \in DOMAIN prompts : IsPause(p)' = IsPause(p)
    BY IsPauseKeeps
  <2> QED
    BY <2>1, <2>3, <2>6, <2>7 DEF LeftInOrder
<1>3. CASE ~Consume /\ inbox' # Empty
  <2>1. /\ \A k \in DOMAIN inbox'.left : \E l \in DOMAIN inbox.left : inbox'.left[k] = inbox.left[l]
        /\ \A l \in DOMAIN inbox.left :
              \/ \E k \in DOMAIN inbox'.left : inbox'.left[k] = inbox.left[l]
              \/ /\ inbox.left[l] = Current
                 /\ Said(Current) = "answer" \/ rows'[Current].reply # None
    BY <1>3, LeftIs
  <2>2. ASSUME NEW k \in DOMAIN inbox'.left, NEW p \in DOMAIN prompts',
               IsPause(p)', p < inbox'.left[k]
        PROVE  rows'[p].reply # None \/ \E j \in DOMAIN inbox'.left : inbox'.left[j] = p
    <3>1. PICK l \in DOMAIN inbox.left : inbox'.left[k] = inbox.left[l]
      BY <2>1
    <3>2. inbox.left[l] \in DOMAIN prompts
      BY DEF InboxTyped
    <3>3. p \in DOMAIN prompts
      BY <1>0, <2>2, <3>1, <3>2
    <3>4. IsPause(p)
      BY <2>2, <3>3, IsPauseKeeps
    <3>5. rows[p].reply # None \/ \E j \in DOMAIN inbox.left : inbox.left[j] = p
      BY <2>2, <3>1, <3>3, <3>4 DEF LeftInOrder
    <3>6. CASE rows[p].reply # None
      BY <3>3, <3>6, RepliesStay
    <3>7. CASE \E j \in DOMAIN inbox.left : inbox.left[j] = p
      <4>1. Said(p) # "answer"
        BY <3>4 DEF IsPause
      <4> QED
        BY <2>1, <3>7, <4>1
    <3> QED
      BY <3>5, <3>6, <3>7
  <2> QED
    BY <2>2 DEF LeftInOrder
<1> QED
  BY <1>1, <1>2, <1>3

\* PausesInOrder is kept: before a pause that is recorded, LeftInOrder knows every
\* earlier one answered.
LEMMA PausesInOrderStep ==
  ASSUME RunTyped, SessionTyped, InboxTyped, LeftInOrder, PausesInOrder, Next
  PROVE  PausesInOrder'
<1> DEFINE Pauses(p) == prompts'[p].says \in {"pause", "resume"} /\ prompts'[p].queued = "no"
<1>0. /\ DOMAIN prompts = 1 .. Len(prompts) /\ Len(prompts) \in Nat
      /\ DOMAIN prompts' = 1 .. Len(prompts') /\ Len(prompts') \in Nat
      /\ Len(prompts) <= Len(prompts')
  BY PromptsKeep
<1>1. /\ \A i \in DOMAIN pauses : i \in DOMAIN pauses' /\ pauses'[i] = pauses[i]
      /\ \A i \in DOMAIN pauses' :
              \/ i \in DOMAIN pauses
              \/ /\ inbox.left # <<>> /\ pauses'[i] = Current /\ ~Contains(pauses, Current)
                 /\ DOMAIN pauses' = DOMAIN pauses \cup {i} /\ \A j \in DOMAIN pauses : j < i
                 /\ inbox' = inbox /\ rows' = rows /\ prompts' = prompts
      /\ DOMAIN pauses = 1 .. Len(pauses) /\ DOMAIN pauses' = 1 .. Len(pauses')
      /\ DOMAIN pauses \subseteq Nat /\ DOMAIN pauses' \subseteq Nat
  <2>1. pauses \in Seq(Nat) /\ pauses' \in Seq(Nat)
    BY PausesKeep DEF SessionTyped
  <2>2. /\ DOMAIN pauses = 1 .. Len(pauses) /\ DOMAIN pauses' = 1 .. Len(pauses')
        /\ DOMAIN pauses \subseteq Nat /\ DOMAIN pauses' \subseteq Nat
    BY <2>1
  <2> QED
    BY <2>2, PausesKeep
<1>2. \A i \in DOMAIN pauses : pauses[i] \in DOMAIN prompts
  BY DEF SessionTyped
<1>3. \A p : (Contains(pauses, p) <=> \E i \in DOMAIN pauses : pauses[i] = p)
             /\ (Contains(pauses', p) <=> \E i \in DOMAIN pauses' : pauses'[i] = p)
  BY <1>1, ContainsIs
<1>4. \A p \in DOMAIN prompts : Pauses(p) <=> IsPause(p)
  BY PromptsKeep DEF Same, Said, IsPause
<1> HIDE DEF Pauses
<1>5. inbox.left # <<>> =>
        /\ Current \in DOMAIN prompts /\ Current = inbox.left[1] /\ 1 \in DOMAIN inbox.left
        /\ rows[Current].reply = None
        /\ \A j \in DOMAIN inbox.left : Current <= inbox.left[j]
  <2>1. SUFFICES ASSUME inbox.left # <<>>
                 PROVE  \A j \in DOMAIN inbox.left : inbox.left[1] <= inbox.left[j]
    BY CurrentIs
  <2>2. inbox.left \in Seq(Nat) /\ 1 \in DOMAIN inbox.left
    BY <2>1, CurrentIs
  <2>3. \A j \in DOMAIN inbox.left : j = 1 \/ 1 < j
    BY <2>2
  <2>4. \A j \in DOMAIN inbox.left : inbox.left[j] \in Nat
    BY <2>2
  <2> QED
    BY <2>2, <2>3, <2>4 DEF InboxTyped
<1>6. ASSUME NEW i \in DOMAIN pauses', NEW p \in DOMAIN prompts', Pauses(p), p < pauses'[i]
      PROVE  rows'[p].reply # None \/ Contains(pauses', p)
  <2>1. CASE i \in DOMAIN pauses
    <3>1. p \in DOMAIN prompts /\ p < pauses[i]
      BY <1>0, <1>1, <1>2, <1>6, <2>1
    <3>2. rows[p].reply # None \/ Contains(pauses, p)
      BY <1>4, <1>6, <2>1, <3>1 DEF PausesInOrder
    <3>3. Contains(pauses, p) => Contains(pauses', p)
      BY <1>1, <1>3
    <3> QED
      BY <3>1, <3>2, <3>3, RepliesStay
  <2>2. CASE i \notin DOMAIN pauses
    <3>1. inbox.left # <<>> /\ pauses'[i] = Current /\ rows' = rows /\ prompts' = prompts
      BY <1>1, <2>2
    <3>2. p \in DOMAIN prompts /\ p < inbox.left[1] /\ IsPause(p)
      BY <1>4, <1>5, <1>6, <3>1
    <3>3. rows[p].reply # None \/ \E j \in DOMAIN inbox.left : inbox.left[j] = p
      BY <1>5, <3>1, <3>2 DEF LeftInOrder
    <3>4. \A j \in DOMAIN inbox.left : inbox.left[j] # p
      <4>1. TAKE j \in DOMAIN inbox.left
      <4>2. Current <= inbox.left[j] /\ p < Current /\ p \in Nat /\ Current \in Nat
        BY <1>0, <1>5, <3>1, <3>2
      <4>3. inbox.left[j] \in Nat
        BY <1>0 DEF InboxTyped
      <4> QED
        BY <4>2, <4>3
    <3> QED
      BY <3>1, <3>3, <3>4
  <2> QED
    BY <2>1, <2>2
<1>7. ASSUME NEW i \in DOMAIN pauses', NEW j \in DOMAIN pauses', i < j,
             Pauses(pauses'[i]), Pauses(pauses'[j])
      PROVE  pauses'[i] < pauses'[j]
  <2>1. CASE j \in DOMAIN pauses
    <3>1. i \in DOMAIN pauses
      BY <1>1, <1>7, <2>1
    <3>2. IsPause(pauses[i]) /\ IsPause(pauses[j])
      BY <1>1, <1>2, <1>4, <1>7, <2>1, <3>1
    <3> QED
      BY <1>1, <1>7, <2>1, <3>1, <3>2 DEF PausesInOrder
  <2>2. CASE j \notin DOMAIN pauses
    <3>1. /\ inbox.left # <<>> /\ pauses'[j] = Current /\ ~Contains(pauses, Current)
          /\ DOMAIN pauses' = DOMAIN pauses \cup {j} /\ i # j
      BY <1>1, <1>7, <2>2
    <3>2. i \in DOMAIN pauses /\ pauses'[i] = pauses[i] /\ pauses[i] \in DOMAIN prompts
      BY <1>1, <1>2, <3>1
    <3>3. Current \in DOMAIN prompts /\ IsPause(Current)
      BY <1>4, <1>5, <1>7, <3>1
    <3>4. pauses[i] # Current
      BY <1>3, <3>1, <3>2
    <3>5. ~(Current < pauses[i])
      BY <1>5, <3>1, <3>2, <3>3 DEF PausesInOrder
    <3>6. pauses[i] \in Nat /\ Current \in Nat
      BY <1>0, <3>2, <3>3
    <3> QED
      BY <3>1, <3>2, <3>4, <3>5, <3>6
  <2> QED
    BY <2>1, <2>2
<1> QED
  BY <1>6, <1>7 DEF PausesInOrder, IsPause, Said, Pauses

-----------------------------------------------------------------------------
(* Commands and replies.                                                   *)

\* AtHand is kept.
LEMMA AtHandStep ==
  ASSUME RunTyped, SessionTyped, InboxTyped, AtHand, Next
  PROVE  AtHand'
<1>1. CASE pc' \in {"idle", "receive"}
  BY <1>1 DEF AtHand
<1>2. inbox' = inbox => Current' = Current
  BY DEF Current
<1>4. CASE Execute
  <2>1. /\ pc = "receive" /\ inbox.left # <<>> /\ ~Refused(Current) /\ ~ApprovalIsRecorded(Current)
        /\ Said(Current) \in Commands
        /\ inbox' = inbox /\ prompts' = prompts /\ state' = state /\ plans' = plans
        /\ reviews' = reviews /\ pauses' = pauses /\ messages' = messages
    BY <1>4 DEF Execute, Handling, Commands, run, plan
  <2>2. rows[Current] \in RowType /\ Current \in DOMAIN rows
    BY <2>1, RowOf
  <2>3. rows[Current].command \in {None, "authorized", "completed", "failed"}
    BY <2>2 DEF RowType
  <2>4. Said(Current)' = Said(Current)
    BY <2>1 DEF Said, Current
  <2>5. Said(Current) = "approve" => MayApprove(Current)'
    <3>1. Said(Current) = "approve" => MayApprove(Current)
      BY <2>1 DEF Refused
    <3>2. MayApprove(Current)' = MayApprove(Current)
      BY <2>1 DEF MayApprove, AnswerIsPending, ApprovesTheReview, PlanIsReviewable,
                  NeedsRevision, Paused, Said, Participates, Current
    <3> QED
      BY <3>1, <3>2
  <2>6. CASE rows[Current].command = None
    <3> DEFINE row == [rows[Current] EXCEPT !.command = "authorized", !.expected = state]
    <3>1. pc' = "apply"
          /\ rows' = [rows EXCEPT ![Current].command = "authorized", ![Current].expected = state]
      BY <1>4, <2>6, ValuesDiffer DEF Execute
    <3>2. rows' = [rows EXCEPT ![Current] = row] /\ row.command = "authorized"
      BY <2>2, <3>1 DEF RowType
    <3> HIDE DEF row
    <3>3. rows'[Current].command = "authorized"
      BY <2>2, <3>2
    <3> QED
      BY <1>2, <2>1, <2>4, <2>5, <3>1, <3>3 DEF AtHand
  <2>7. CASE rows[Current].command = "authorized"
    <3>1. pc' = "apply" /\ rows' = rows
      BY <1>4, <2>7, ValuesDiffer DEF Execute
    <3> QED
      BY <1>2, <2>1, <2>4, <2>5, <2>7, <3>1 DEF AtHand
  <2>8. CASE rows[Current].command \in {"completed", "failed"}
    <3>1. pc' = "reply" /\ rows' = rows
      BY <1>4, <2>8, ValuesDiffer DEF Execute
    <3> QED
      BY <1>2, <2>1, <2>4, <2>8, <3>1 DEF AtHand
  <2> QED
    BY <2>3, <2>6, <2>7, <2>8
<1>5. CASE RecordPause
  <2>1. /\ inbox.left # <<>> /\ inbox' = inbox /\ prompts' = prompts /\ pc' = "reply"
        /\ Said(Current) \in {"pause", "resume"}
        /\ pauses' = IF Contains(pauses, Current) THEN pauses ELSE Append(pauses, Current)
    BY <1>5 DEF RecordPause, Handling
  <2>2. Current \in Nat /\ pauses \in Seq(Nat)
    BY <2>1, CurrentIs, PromptOf DEF SessionTyped
  <2>3. Contains(pauses', Current)
    <3>1. CASE Contains(pauses, Current)
      BY <2>1, <3>1
    <3>2. CASE pauses' = Append(pauses, Current)
      <4>1. Len(pauses) + 1 \in 1 .. Len(pauses') /\ pauses'[Len(pauses) + 1] = Current
        BY <2>2, <3>2
      <4> QED
        BY <4>1, ContainsIs
    <3> QED
      BY <2>1, <3>1, <3>2
  <2>4. Said(Current)' = Said(Current) /\ Contains(pauses, Current)'
    BY <1>2, <2>1, <2>3 DEF Said
  <2> QED
    BY <2>1, <2>4 DEF AtHand
<1>6. CASE Recover
  <2>1. /\ pc = "apply" /\ inbox.left # <<>> /\ inbox' = inbox /\ prompts' = prompts
        /\ rows' = rows /\ pc' = "finish" /\ messages' = messages /\ decisions' = decisions
        /\ EffectIsRecorded(Current)
    BY <1>6 DEF Recover, Handling, plan, session
  <2>2. EffectIsRecorded(Current)'
    BY <1>2, <2>1 DEF EffectIsRecorded
  <2> QED
    BY <1>2, <2>1, <2>2 DEF AtHand, Said
<1>7. CASE CommandFails \/ Finish
  <2>1. /\ pc \in {"apply", "finish"} /\ inbox.left # <<>> /\ inbox' = inbox
        /\ prompts' = prompts /\ pc' = "reply"
    BY <1>7 DEF CommandFails, Finish, Handling
  <2>2. PICK command \in {"failed", "completed"} : rows' = [rows EXCEPT ![Current].command = command]
    BY <1>7 DEF CommandFails, Finish
  <2>3. rows[Current] \in RowType /\ Current \in DOMAIN rows
    BY <2>1, RowOf
  <2> DEFINE row == [rows[Current] EXCEPT !.command = command]
  <2>4. rows' = [rows EXCEPT ![Current] = row] /\ row.command = command
    BY <2>2, <2>3 DEF RowType
  <2> HIDE DEF row
  <2>5. rows'[Current].command = command
    BY <2>3, <2>4
  <2>6. Said(Current) \in Commands
    BY <2>1 DEF AtHand
  <2> QED
    BY <1>2, <2>1, <2>5, <2>6 DEF AtHand, Said
<1>8. CASE Apply
  <2>1. /\ pc = "apply" /\ inbox.left # <<>> /\ inbox' = inbox
        /\ prompts' = prompts /\ pc' = "finish" /\ rows' = rows
    BY <1>8 DEF Apply, Handling
  <2>2. Current \in Nat /\ messages \in Seq(Nat \cup {API})
    BY <2>1, CurrentIs, PromptOf DEF SessionTyped
  <2>3. Current \in decisions' \/ messages' = Append(messages, Current)
    BY <1>8 DEF Apply
  <2>4. Current \in decisions' \/ Contains(messages', Current)
    <3>1. CASE messages' = Append(messages, Current)
      <4>1. Len(messages) + 1 \in 1 .. Len(messages') /\ messages'[Len(messages) + 1] = Current
        BY <2>2, <3>1
      <4> QED
        BY <4>1, ContainsIs
    <3> QED
      BY <2>3, <3>1
  <2>5. EffectIsRecorded(Current)'
    BY <1>2, <2>1, <2>4 DEF EffectIsRecorded
  <2>6. Said(Current) \in Commands /\ rows[Current].command = "authorized"
    BY <2>1 DEF AtHand
  <2> QED
    BY <1>2, <2>1, <2>5, <2>6 DEF AtHand, Said
<1>9. CASE Refuse \/ RecoverApproval \/ Leave \/ Reply \/ EndReceive
  <2>1. pc' \in {"idle", "receive"}
    BY <1>9 DEF Refuse, RecoverApproval, Leave, Reply, EndReceive, Replied, Handling
  <2> QED
    BY <1>1, <2>1
<1>10. CASE Consume \/ Crash
  BY <1>1, <1>10 DEF Consume, Crash
<1>11. CASE Write \/ Unqueue \/ LaunchPoll \/ LaunchLive \/ ReadIsLost
            \/ Claim \/ Dispatch \/ EndOfAttempt \/ Present \/ Call
  <2>1. pc' = "idle"
    BY <1>11 DEF Write, Unqueue, LaunchPoll, LaunchLive, ReadIsLost, Claim, Dispatch,
                 EndOfAttempt, Present, Call, owner
  <2> QED
    BY <1>1, <2>1
<1> QED
  BY <1>4, <1>5, <1>6, <1>7, <1>8, <1>9, <1>10, <1>11 DEF Next, Receive

\* The effect of an answer is a message, that of an approval or stop a decision.
LEMMA EffectIs ==
  ASSUME SessionTyped, NEW p \in DOMAIN prompts, EffectIsRecorded(p)
  PROVE  IF Said(p) = "answer" THEN Contains(messages, p) ELSE p \in decisions
<1>1. \A i \in DOMAIN messages :
         messages[i] # API => messages[i] \in DOMAIN prompts /\ Said(messages[i]) = "answer"
  BY DEF SessionTyped
<1>2. p \in Nat /\ p # API
  BY PromptOf, ValuesDiffer
<1>3. messages \in Seq(Nat \cup {API}) /\ DOMAIN messages = 1 .. Len(messages)
  BY DEF SessionTyped
<1>4. Contains(messages, p) => Said(p) = "answer"
  BY <1>1, <1>2, <1>3, ContainsIs
<1>5. p \in decisions => Said(p) # "answer"
  BY DEF SessionTyped
<1> QED
  BY <1>4, <1>5 DEF EffectIsRecorded

\* Effects stay.
LEMMA EffectsStay ==
  ASSUME SessionTyped, InboxTyped, Next
  PROVE  /\ \A p : Contains(messages, p) => Contains(messages', p)
         /\ \A p : Contains(pauses, p) => Contains(pauses', p)
         /\ decisions \subseteq decisions'
         /\ \A p \in Nat : EffectIsRecorded(p) => EffectIsRecorded(p)'
<1>1. /\ DOMAIN messages = 1 .. Len(messages) /\ DOMAIN messages' = 1 .. Len(messages')
      /\ DOMAIN pauses = 1 .. Len(pauses) /\ DOMAIN pauses' = 1 .. Len(pauses')
  <2>1. /\ messages \in Seq(Nat \cup {API}) /\ messages' \in Seq(Nat \cup {API})
        /\ pauses \in Seq(Nat) /\ pauses' \in Seq(Nat)
    BY MessagesKeep, PausesKeep DEF SessionTyped
  <2> QED
    BY <2>1
<1>2. /\ \A p : Contains(messages, p) => Contains(messages', p)
      /\ \A p : Contains(pauses, p) => Contains(pauses', p)
  BY <1>1, MessagesKeep, PausesKeep, ContainsIs
<1>3. decisions \subseteq decisions'
  BY MessagesMoveIs
<1> QED
  BY <1>2, <1>3 DEF EffectIsRecorded

\* CommandsTookEffect is kept.
LEMMA CommandsTookEffectStep ==
  ASSUME RunTyped, SessionTyped, InboxTyped, AtHand, CommandsTookEffect, Next
  PROVE  CommandsTookEffect'
<1>1. SUFFICES ASSUME NEW p \in DOMAIN rows', rows'[p].command = "completed"
               PROVE  Said(p)' \in Commands /\ EffectIsRecorded(p)'
  BY DEF CommandsTookEffect, Commands
<1>2. p \in DOMAIN rows
  <2>1. p \in DOMAIN rows \/ rows'[p] = NoRow
    BY RowsKeep
  <2> QED
    BY <1>1, <2>1, ValuesDiffer DEF NoRow
<1>3. p \in DOMAIN prompts /\ p \in Nat /\ Said(p)' = Said(p)
  BY <1>2, RowsKeep, PromptOf, SaidKeeps
<1>4. Said(p) \in Commands /\ EffectIsRecorded(p)
  <2>1. CASE rows[p].command = "completed"
    BY <1>2, <2>1 DEF CommandsTookEffect
  <2>2. CASE rows[p].command # "completed"
    <3>1. p = Current /\ Commanded(rows'[p])
      BY <1>1, <1>2, <2>2, RowsKeep
    <3>2. pc = "finish"
      BY <1>1, <3>1 DEF Commanded
    <3> QED
      BY <3>1, <3>2 DEF AtHand
  <2> QED
    BY <2>1, <2>2
<1> QED
  BY <1>3, <1>4, EffectsStay

\* AcceptedIsApplied is kept: an answer is appended only if it is not in the
\* conversation, and accepted only what has its effect.
LEMMA AcceptedIsAppliedStep ==
  ASSUME RunTyped, SessionTyped, InboxTyped, AtHand, CommandsTookEffect, AcceptedIsApplied, Next
  PROVE  AcceptedIsApplied'
<1>1. ASSUME NEW i \in DOMAIN messages', NEW j \in DOMAIN messages', messages'[i] = messages'[j]
      PROVE  i = j \/ messages'[i] = API
  <2>1. DOMAIN messages = 1 .. Len(messages)
    BY DEF SessionTyped
  <2>2. \A e : Contains(messages, e) <=> \E k \in DOMAIN messages : messages[k] = e
    BY <2>1, ContainsIs
  <2>3. CASE i \in DOMAIN messages /\ j \in DOMAIN messages
    BY <1>1, <2>3, MessagesKeep DEF AcceptedIsApplied
  <2>4. CASE i \notin DOMAIN messages /\ j \in DOMAIN messages
    BY <1>1, <2>2, <2>4, MessagesKeep
  <2>5. CASE i \in DOMAIN messages /\ j \notin DOMAIN messages
    BY <1>1, <2>2, <2>5, MessagesKeep
  <2>6. CASE i \notin DOMAIN messages /\ j \notin DOMAIN messages
    BY <2>6, MessagesKeep
  <2> QED
    BY <2>3, <2>4, <2>5, <2>6
<1>2. ASSUME NEW p \in DOMAIN rows', rows'[p].reply = "accepted"
      PROVE  p \in DOMAIN prompts /\ CASE Said(p) = "answer" -> Contains(messages', p)
                                       [] Said(p) \in {"approve", "stop"} -> p \in decisions'
                                       [] OTHER -> Contains(pauses', p)
  <2>1. p \in DOMAIN rows
    <3>1. p \in DOMAIN rows \/ rows'[p] = NoRow
      BY RowsKeep
    <3> QED
      BY <1>2, <3>1, ValuesDiffer DEF NoRow
  <2>2. p \in DOMAIN prompts
    BY <2>1, RowsKeep
  <2>3. Said(p) \in {"answer", "approve", "pause", "resume", "stop"}
    BY <2>2, PromptOf
  <2>4. (CASE Said(p) = "answer" -> Contains(messages, p)
           [] Said(p) \in {"approve", "stop"} -> p \in decisions
           [] OTHER -> Contains(pauses, p))
    <3>1. CASE rows[p].reply = "accepted"
      BY <2>1, <3>1 DEF AcceptedIsApplied
    <3>2. CASE rows[p].reply # "accepted"
      <4>1. p = Current /\ Replies(rows'[p])
        BY <1>2, <2>1, <3>2, RowsKeep
      <4>2. CASE Said(p) \in Commands
        <5>1. EffectIsRecorded(p)
          BY <1>2, <2>1, <4>1, <4>2 DEF Replies, ApprovalIsRecorded, AtHand,
            CommandsTookEffect, Commands
        <5> QED
          BY <2>2, <4>2, <5>1, EffectIs DEF Commands
      <4>3. CASE Said(p) \in {"pause", "resume"}
        BY <1>2, <4>1, <4>3 DEF Replies, ApprovalIsRecorded, AtHand, Commands
      <4> QED
        BY <2>3, <4>2, <4>3 DEF Commands
    <3> QED
      BY <3>1, <3>2
  <2> QED
    BY <2>2, <2>4, EffectsStay
<1>3. \A p \in DOMAIN prompts : Said(p)' = Said(p)
  BY SaidKeeps
<1> QED
  BY <1>1, <1>2, <1>3 DEF AcceptedIsApplied

-----------------------------------------------------------------------------
(* The theorems.                                                           *)

\* The invariant holds at the start,
LEMMA ConversationStarts == Init => ConversationInv
<1> SUFFICES ASSUME Init PROVE ConversationInv
  OBVIOUS
<1>1. /\ messages = <<>> /\ plans = <<>> /\ reviews = <<>> /\ prompts = <<>> /\ rows = <<>>
      /\ decisions = {} /\ pauses = <<>> /\ pc = "idle" /\ inbox = Empty
      /\ inbox.left = <<>>
  BY DEF Init, Empty
<1>2. RunTyped
  BY <1>1 DEF Init, RunTyped, States
<1>3. SessionTyped
  BY <1>1 DEF Init, SessionTyped
<1>4. InboxTyped
  BY <1>1 DEF InboxTyped, Empty
<1> QED
  BY <1>1, <1>2, <1>3, <1>4 DEF ConversationInv, LeftInOrder, PausesInOrder, AtHand,
                              CommandsTookEffect, AcceptedIsApplied

\* when nothing moves,
LEMMA ConversationStays == ConversationInv /\ UNCHANGED vars => ConversationInv'
<1> SUFFICES ASSUME ConversationInv, UNCHANGED vars
             PROVE  ConversationInv'
  OBVIOUS
<1>1. /\ state' = state /\ attempt' = attempt /\ context' = context /\ messages' = messages
      /\ plans' = plans /\ reviews' = reviews /\ prompts' = prompts /\ rows' = rows
      /\ decisions' = decisions /\ pauses' = pauses /\ reads' = reads /\ pc' = pc
      /\ inbox' = inbox
  BY DEF vars, run, plan, session, owner
<1>2. RunTyped' /\ SessionTyped'
  BY <1>1 DEF ConversationInv, RunTyped, SessionTyped, Said
<1>3. InboxTyped' /\ LeftInOrder' /\ PausesInOrder'
  BY <1>1 DEF ConversationInv, InboxTyped, LeftInOrder, PausesInOrder, IsPause, Said
<1>4. MayApprove(Current)' = MayApprove(Current)
  BY <1>1 DEF MayApprove, AnswerIsPending, ApprovesTheReview, PlanIsReviewable,
    NeedsRevision,
              Paused, Said, Participates, Current
<1>5. AtHand'
  BY <1>1, <1>4 DEF ConversationInv, AtHand, EffectIsRecorded, Said, Current
<1>6. CommandsTookEffect' /\ AcceptedIsApplied'
  BY <1>1 DEF ConversationInv, CommandsTookEffect, AcceptedIsApplied, EffectIsRecorded, Said
<1> QED
  BY <1>2, <1>3, <1>5, <1>6 DEF ConversationInv

\* after every step,
LEMMA ConversationGoesOn == ConversationInv /\ [Next]_vars => ConversationInv'
<1>1. ASSUME ConversationInv, Next
      PROVE  ConversationInv'
  <2>1. /\ RunTyped /\ SessionTyped /\ InboxTyped /\ LeftInOrder /\ PausesInOrder
        /\ AtHand /\ CommandsTookEffect /\ AcceptedIsApplied
    BY <1>1 DEF ConversationInv
  <2> QED
    BY <1>1, <2>1, RunTypedStep, SessionTypedStep, InboxTypedStep, LeftInOrderStep,
       PausesInOrderStep, AtHandStep, CommandsTookEffectStep, AcceptedIsAppliedStep
       DEF ConversationInv
<1> QED
  BY <1>1, ConversationStays

\* and so for ever.
LEMMA ConversationHolds == Spec => []ConversationInv
BY ConversationStarts, ConversationGoesOn, PTL DEF Spec

\* Every row, plan, review and snapshot is well typed, and no plan or attempt rests
\* on more than the conversation, for every number of prompts and events
\* (LinearPlanningService.receive, the tables of SQLiteLedger).
THEOREM PlanningTyped == Spec => []TypeOK
<1>1. ASSUME ConversationInv PROVE TypeOK
  <2>1. RunTyped /\ SessionTyped /\ InboxTyped
    BY <1>1 DEF ConversationInv
  <2>2. /\ Len(prompts) \in Nat /\ Len(messages) \in Nat
        /\ DOMAIN rows = DOMAIN prompts
    <3>1. prompts \in Seq(PromptType) /\ rows \in Seq(RowType) /\ Len(rows) = Len(prompts)
          /\ messages \in Seq(Nat \cup {API})
      BY <2>1 DEF SessionTyped
    <3> QED
      BY <3>1
  <2>3. \A i \in DOMAIN messages : messages[i] \in DOMAIN prompts \cup {API}
    BY <2>1 DEF SessionTyped
  <2>4. \A i \in DOMAIN plans : plans[i] \in [base: 0 .. Len(messages), questions: BOOLEAN]
    <3>1. \A i \in DOMAIN plans :
            plans[i] \in [base: Nat, questions: BOOLEAN] /\ plans[i].base <= Len(messages)
      BY <2>1, ElementOf DEF RunTyped
    <3> QED
      BY <2>2, <3>1
  <2>5. \A i \in DOMAIN reviews :
          reviews[i] \in [plan: DOMAIN plans, since: 1 .. Len(prompts) + 1]
    <3>1. \A i \in DOMAIN reviews :
            /\ reviews[i] \in [plan: Nat, since: Nat]
            /\ reviews[i].plan \in DOMAIN plans /\ reviews[i].since \in 1 .. Len(prompts) + 1
      BY <2>1, ElementOf DEF RunTyped
    <3> QED
      BY <3>1
  <2>6. \A p \in DOMAIN rows :
         rows[p] \in [reply: {None, "accepted", "rejected"},
                      command: {None, "authorized", "completed", "failed"},
                      expected: States \cup {None}]
    <3>1. \A p \in DOMAIN rows : rows[p] \in RowType
      BY <2>1, ElementOf DEF SessionTyped
    <3> QED
      BY <3>1 DEF RowType
  <2>7. \A r \in DOMAIN reads : reads[r] \in 0 .. Len(prompts) \cup {None}
    BY <2>1, <2>2 DEF SessionTyped
  <2>8. decisions \subseteq DOMAIN prompts /\ \A i \in DOMAIN pauses : pauses[i] \in DOMAIN prompts
    BY <2>1 DEF SessionTyped
  <2> QED
    BY <2>1, <2>2, <2>3, <2>4, <2>5, <2>6, <2>7, <2>8 DEF TypeOK, RunTyped, InboxTyped
<1> QED
  BY <1>1, ConversationHolds, PTL

\* Wherever the process dies between a command's effect, its receipt and its reply,
\* what a reply tells its author was done was done, once (ControlService.execute,
\* the replay in receive).
THEOREM RepliesAreTrue == Spec => []AcceptedIsApplied
<1>1. ConversationInv => AcceptedIsApplied
  BY DEF ConversationInv
<1> QED
  BY <1>1, ConversationHolds, PTL

\* The pause or resume its people wrote last rules the run, whichever reader brought
\* it and however often a snapshot was handled (planning_event, _dispatch_budget).
THEOREM LastWordRules == Spec => []LastWordHolds
<1>1. ASSUME ConversationInv PROVE LastWordHolds
  <2>1. SUFFICES ASSUME pauses # <<>>, \A i \in DOMAIN pauses : prompts[pauses[i]].queued = "no"
                 PROVE  Paused = (Said(Max(ToSet(pauses))) = "pause")
    BY DEF LastWordHolds
  <2>2. /\ pauses \in Seq(Nat)
        /\ \A i \in DOMAIN pauses : Said(pauses[i]) \in {"pause", "resume"}
    BY <1>1 DEF ConversationInv, SessionTyped
  <2>3. /\ DOMAIN pauses = 1 .. Len(pauses) /\ Len(pauses) \in Nat /\ Len(pauses) \in DOMAIN pauses
        /\ \A i \in DOMAIN pauses : pauses[i] \in Nat
    BY <2>1, <2>2
  <2>4. \A i, j \in DOMAIN pauses : i < j => pauses[i] < pauses[j]
    BY <1>1, <2>1, <2>2 DEF ConversationInv, PausesInOrder, IsPause
  <2> DEFINE last == pauses[Len(pauses)]
  <2>5. last \in ToSet(pauses) /\ \A p \in ToSet(pauses) : last >= p /\ p \in Nat
    <3>1. \A i \in DOMAIN pauses : i = Len(pauses) \/ i < Len(pauses)
      BY <2>3
    <3>2. \A i \in DOMAIN pauses : last >= pauses[i]
      BY <2>3, <2>4, <3>1
    <3> QED
      BY <2>3, <3>2 DEF ToSet
  <2>6. \A p \in ToSet(pauses) : (\A q \in ToSet(pauses) : p >= q) => p = last
    BY <2>5
  <2>7. Max(ToSet(pauses)) = last
    BY <2>5, <2>6 DEF Max
  <2> QED
    BY <2>1, <2>7 DEF Paused, Last
<1> QED
  BY <1>1, ConversationHolds, PTL

\* Among the steps of a command only an applied approval takes a run from its review
\* to Ready.
LEMMA LeavesReview ==
  ASSUME Next, state' = "Ready", pc = "apply", state = "PlanReview"
  PROVE  inbox.left # <<>> /\ Said(Current) = "approve"
<1>1. CASE Apply
  BY <1>1 DEF Apply, Handling, run
<1>2. CASE Recover \/ CommandFails \/ Crash
  BY <1>2 DEF Recover, CommandFails, Crash, run
<1>3. CASE Refuse \/ RecoverApproval \/ Leave \/ RecordPause \/ Execute \/ Finish \/ Reply
           \/ EndReceive
  BY <1>3 DEF Refuse, RecoverApproval, Leave, RecordPause, Execute, Finish, Reply,
    EndReceive,
              Handling
<1>4. CASE Write \/ Unqueue \/ LaunchPoll \/ LaunchLive \/ ReadIsLost \/ Consume
  BY <1>4 DEF Write, Unqueue, LaunchPoll, LaunchLive, ReadIsLost, Consume
<1>5. CASE Claim \/ Dispatch \/ EndOfAttempt \/ Present \/ Call
  BY <1>5 DEF Claim, Dispatch, EndOfAttempt, Present, Call
<1> QED
  BY <1>1, <1>2, <1>3, <1>4, <1>5 DEF Next, Receive

\* Implementation starts with a reviewable plan only.
LEMMA StartsImplementing ==
  ASSUME Next, state' = "Implementing", state # "Implementing"
  PROVE  PlanIsReviewable
<1>1. CASE Claim
  BY <1>1 DEF Claim
<1>2. CASE Apply
  BY <1>2 DEF Apply, run
<1>3. CASE EndReceive
  BY <1>3 DEF EndReceive, run
<1>4. CASE EndOfAttempt \/ Call
  BY <1>4 DEF EndOfAttempt, Call
<1>5. CASE Refuse \/ RecoverApproval \/ Leave \/ RecordPause \/ Execute \/ Recover
           \/ CommandFails \/ Finish \/ Reply
  BY <1>5 DEF Refuse, RecoverApproval, Leave, RecordPause, Execute, Recover, CommandFails,
              Finish, Reply, run
<1>6. CASE Write \/ Unqueue \/ LaunchPoll \/ LaunchLive \/ ReadIsLost \/ Consume
  BY <1>6 DEF Write, Unqueue, LaunchPoll, LaunchLive, ReadIsLost, Consume, run
<1>7. CASE Dispatch \/ Present \/ Crash
  BY <1>7 DEF Dispatch, Present, Crash, run
<1> QED
  BY <1>1, <1>2, <1>3, <1>4, <1>5, <1>6, <1>7 DEF Next, Receive

\* An approval from Linear moves the run only if it was written after the very plan it
\* starts was displayed and no answer is pending; implementation starts on a plan that
\* rests on the whole conversation (_approval, _claim_pickups).
THEOREM ApprovalsAreInformed == Spec => ApprovalIsInformed
<1> DEFINE Approves == pc = "apply" /\ state = "PlanReview" /\ state' = "Ready"
           Informed ==
             /\ Last(reviews).since <= Current
             /\ Last(reviews).plan = Len(plans)
             /\ \A p \in inbox.pending :
                  Said(p) = "answer" /\ Participates(p) =>
                     \/ rows[p].reply = "rejected"
                     \/ \E i \in 1 .. Last(plans).base : messages[i] = p
           Starts == state' = "Implementing" /\ state # "Implementing"
<1>1. ASSUME ConversationInv, Next, Approves
      PROVE  Informed
  <2>1. inbox.left # <<>> /\ Said(Current) = "approve"
    BY <1>1, LeavesReview
  <2>2. MayApprove(Current)
    BY <1>1, <2>1 DEF ConversationInv, AtHand
  <2>3. Last(reviews).plan = Len(plans) /\ Current >= Last(reviews).since
    BY <2>2 DEF MayApprove, ApprovesTheReview
  <2>4. \A p \in inbox.pending : ~(Said(p) = "answer" /\ Participates(p))
    BY <2>1, <2>2 DEF MayApprove, AnswerIsPending
  <2> QED
    BY <2>3, <2>4
<1>2. ASSUME Next, Starts
      PROVE  Last(plans).base = Len(messages)
  BY <1>2, StartsImplementing DEF PlanIsReviewable, NeedsRevision
<1>3. ConversationInv /\ [Next]_vars =>
        [/\ pc = "apply" /\ state = "PlanReview" /\ state' = "Ready" =>
              /\ Last(reviews).since <= Current
              /\ Last(reviews).plan = Len(plans)
              /\ \A p \in inbox.pending :
                   Said(p) = "answer" /\ Participates(p) =>
                      \/ rows[p].reply = "rejected"
                      \/ \E i \in 1 .. Last(plans).base : messages[i] = p
         /\ state' = "Implementing" /\ state # "Implementing" =>
              Last(plans).base = Len(messages)]_vars
  BY <1>1, <1>2
<1> QED
  BY <1>3, ConversationHolds, PTL DEF Spec, ApprovalIsInformed
=============================================================================
