-------------------------- MODULE Scheduler_proofs --------------------------
(***************************************************************************)
(* Theorems about Scheduler, for every value of its constants: any number  *)
(* of executions, attempts and schedulers, every fault, unbounded crashes  *)
(* and remedies; and what it keeps when one runtime holds the instance     *)
(* lock (lifecycle.py): cancel closes everything, a question can be        *)
(* answered, two runners never share an execution, and the scheduler       *)
(* implements AttemptPromise.                                              *)
(*                                                                         *)
(* The last four rest on one inductive invariant, SafetyInv: what a worker *)
(* may rely on at each of its steps (StepInv), what the rows of one        *)
(* attempt say about each other (RowInv), and how attempts, their          *)
(* executions and a half done remedy stand (WorkflowInv, RemedyInv).       *)
(*                                                                         *)
(* Without the lock, for any number of schedulers: two of them never run   *)
(* one attempt until the first crash or remedy, from LauncherInv.          *)
(***************************************************************************)
EXTENDS Scheduler, FiniteSetTheorems, TLAPS

-----------------------------------------------------------------------------
(* The ledger: every transaction leaves rows of the right form.            *)

DispatchTable == dispatch \in [Attempts -> DispatchRow]
AttentionTable ==
  attention \in [Attempts -> [Categories -> Phases \cup {"open", "closed"}]]

\* Superseding a row leaves a row.
LEMMA SupersededTyped ==
  ASSUME NEW row \in DispatchRow
  PROVE  Superseded(row) \in DispatchRow
BY DEF DispatchRow, Superseded, DispatchStatus

\* claim_dispatch keeps the table of dispatch rows well formed.
LEMMA ClaimTyped ==
  ASSUME DispatchTable, NEW o \in Pollers, NEW a \in Attempts, ClaimDispatch(o, a)
  PROVE  DispatchTable'
<1>1. \A row \in DispatchRow :
        [row EXCEPT !.status = "claimed", !.owner = o, !.tokens = {o},
                    !.timer = "running"] \in DispatchRow
  BY DEF DispatchRow, DispatchStatus
<1> QED BY <1>1 DEF DispatchTable, ClaimDispatch

\* So does any write of a status and a timer (_dispatch_phase).
LEMMA SetStatusTyped ==
  ASSUME DispatchTable, NEW a \in Attempts, NEW status \in DispatchStatus,
         NEW timer \in {"none", "running", "elapsed"}, SetStatus(a, status, timer)
  PROVE  DispatchTable'
<1>1. \A row \in DispatchRow :
        [row EXCEPT !.status = status, !.timer = timer] \in DispatchRow
  BY DEF DispatchRow
<1> QED BY <1>1 DEF DispatchTable, SetStatus

\* So does mark_dispatch_prepared.
LEMMA PreparedTyped ==
  ASSUME DispatchTable, NEW o \in Pollers, NEW a \in Attempts,
         MarkDispatchPrepared(o, a)
  PROVE  DispatchTable'
<1>1. \A row \in DispatchRow, t \in SUBSET Pollers :
        [row EXCEPT !.status = "prepared", !.timer = "running", !.tokens = t]
          \in DispatchRow
  BY DEF DispatchRow, DispatchStatus
<1>2. dispatch[a].tokens \cup {o} \in SUBSET Pollers
  BY DEF DispatchTable, DispatchRow
<1> QED BY <1>1, <1>2 DEF DispatchTable, MarkDispatchPrepared

\* So does record_dispatch_result.
LEMMA RecordTyped ==
  ASSUME DispatchTable, NEW a \in Attempts, RecordDispatchResult(a)
  PROVE  DispatchTable'
<1>1. \A row \in DispatchRow :
        [row EXCEPT !.status = "result_ready", !.result = TRUE] \in DispatchRow
  BY DEF DispatchRow, DispatchStatus
<1> QED BY <1>1 DEF DispatchTable, RecordDispatchResult

\* So does defer_dispatch.
LEMMA DeferTyped ==
  ASSUME DispatchTable, NEW a \in Attempts, DeferDispatch(a)
  PROVE  DispatchTable'
<1>1. \A row \in DispatchRow :
        [row EXCEPT !.status = "waiting", !.timer = "running", !.tokens = {}]
          \in DispatchRow
  BY DEF DispatchRow, DispatchStatus
<1> QED BY <1>1 DEF DispatchTable, DeferDispatch

\* So does mark_dispatch_attention, for a named request and safe step.
LEMMA MarkAttentionTyped ==
  ASSUME DispatchTable, NEW a \in Attempts, NEW category \in Categories,
         NEW phase \in Phases, MarkDispatchAttention(a, category, phase)
  PROVE  DispatchTable'
<1>1. \A row \in DispatchRow :
        [row EXCEPT !.status = "attention", !.timer = "none", !.tokens = {},
                    !.link = category, !.remedy = "none", !.phase = phase]
          \in DispatchRow
  BY DEF DispatchRow, DispatchStatus
<1> QED BY <1>1 DEF DispatchTable, MarkDispatchAttention

\* So does complete_dispatch.
LEMMA CompleteTyped ==
  ASSUME DispatchTable, NEW a \in Attempts, CompleteDispatch(a)
  PROVE  DispatchTable'
<1>1. \A row \in DispatchRow :
        [row EXCEPT !.status = "completed", !.timer = "none", !.tokens = {}]
          \in DispatchRow
  BY DEF DispatchRow, DispatchStatus
<1> QED BY <1>1 DEF DispatchTable, CompleteDispatch

\* So does supersede_dispatch.
LEMMA SupersedeTyped ==
  ASSUME DispatchTable, NEW a \in Attempts, SupersedeDispatch(a)
  PROVE  DispatchTable'
BY SupersededTyped DEF DispatchTable, SupersedeDispatch

\* So does resume_attention_dispatch: the phase an operator retried from is
\* a status of the row.
LEMMA ResumeTyped ==
  ASSUME DispatchTable, NEW o \in Pollers, NEW a \in Attempts, Resumable(a),
         ResumeAttentionDispatch(o, a)
  PROVE  DispatchTable'
<1>1. dispatch[a].phase \in DispatchStatus
  <2>1. dispatch[a].phase \in Phases
    BY DEF DispatchTable, DispatchRow, Resumable
  <2> QED BY <2>1 DEF Phases, SafePhases, DispatchStatus
<1>2. \A row \in DispatchRow, s \in DispatchStatus, t \in {"none", "elapsed"} :
        [row EXCEPT !.status = s, !.owner = o, !.tokens = {}, !.link = "none",
                    !.remedy = "none", !.phase = "none", !.timer = t]
          \in DispatchRow
  BY DEF DispatchRow
<1> QED BY <1>1, <1>2 DEF DispatchTable, ResumeAttentionDispatch

\* So do takeover_preparing_dispatch and takeover_result_dispatch.
LEMMA TakeoverTyped ==
  ASSUME DispatchTable, NEW o \in Pollers, NEW a \in Attempts,
         TakeoverDispatch(o, a)
  PROVE  DispatchTable'
<1>1. \A row \in DispatchRow :
        [row EXCEPT !.owner = o, !.tokens = {o}] \in DispatchRow
  BY DEF DispatchRow
<1> QED BY <1>1 DEF DispatchTable, TakeoverDispatch

\* A write of a preparation's status keeps that table well formed.
LEMMA PreparationTyped ==
  ASSUME preparation \in [Attempts -> PreparationStatus], NEW a,
         NEW status \in PreparationStatus, SetPreparation(a, status)
  PROVE  preparation' \in [Attempts -> PreparationStatus]
BY DEF SetPreparation

\* open_attention keeps the requests well formed.
LEMMA OpenAttentionTyped ==
  ASSUME AttentionTable, NEW a, NEW category \in Categories,
         NEW step \in Phases \cup {"open"},
         OpenAttention(a, category, step)
  PROVE  AttentionTable'
<1> DEFINE Requests == [Categories -> Phases \cup {"open", "closed"}]
<1>1. \A requests \in Requests, v \in Phases \cup {"open", "closed"} :
        [requests EXCEPT ![category] = v] \in Requests
  OBVIOUS
<1>2. a \in Attempts =>
        attention[a][category] \in Phases \cup {"open", "closed"}
  BY DEF AttentionTable
<1> HIDE DEF Requests
<1>3. attention \in [Attempts -> Requests]
  BY DEF AttentionTable, Requests
<1>4. attention' \in [Attempts -> Requests]
  BY <1>1, <1>2, <1>3 DEF OpenAttention
<1> QED BY <1>4 DEF AttentionTable, Requests

\* resolve_attention keeps the requests and the row that links one well formed.
LEMMA ResolveTyped ==
  ASSUME AttentionTable, DispatchTable, NEW a, NEW category,
         NEW remedy \in {"none", "retry", "other"},
         ResolveAttention(a, category, remedy)
  PROVE  AttentionTable' /\ DispatchTable'
<1> DEFINE Requests == [Categories -> Phases \cup {"open", "closed"}]
<1>1. \A requests \in Requests : [requests EXCEPT ![category] = "closed"] \in Requests
  OBVIOUS
<1>2. \A row \in DispatchRow : [row EXCEPT !.remedy = remedy] \in DispatchRow
  BY DEF DispatchRow
<1> HIDE DEF Requests
<1>3. attention \in [Attempts -> Requests]
  BY DEF AttentionTable, Requests
<1>4. attention' \in [Attempts -> Requests]
  BY <1>1, <1>3 DEF ResolveAttention
<1>5. DispatchTable'
  BY <1>2 DEF DispatchTable, ResolveAttention
<1> QED BY <1>4, <1>5 DEF AttentionTable, Requests

\* An attempt that is ended is an attempt row.
LEMMA EndedTyped ==
  ASSUME attempt \in [Attempts -> AttemptRow], NEW a \in Attempts,
         NEW why \in {"result", "skill", "operator", "cancel"}
  PROVE  Ended(a, why) \in [Attempts -> AttemptRow]
<1>1. \A row \in AttemptRow :
        [row EXCEPT !.status = "completed", !.left = why] \in AttemptRow
  BY DEF AttemptRow
<1> QED BY <1>1 DEF Ended

\* accept_transition keeps attempts and executions well formed.
LEMMA TransitionTyped ==
  ASSUME execution \in [Executions -> {"work", "human", "terminal"}],
         NEW e \in Executions \cup {None},
         NEW ended \in [Attempts -> AttemptRow], AcceptTransition(e, ended)
  PROVE  /\ attempt' \in [Attempts -> AttemptRow]
         /\ execution' \in [Executions -> {"work", "human", "terminal"}]
<1>1. [status |-> "active", of |-> e, left |-> "none"] \in AttemptRow
  BY DEF AttemptRow
<1> QED BY <1>1 DEF AcceptTransition

\* _terminalize_canceled_attempt keeps every record it closes well formed.
LEMMA TerminalizeTyped ==
  ASSUME AttentionTable, DispatchTable, run \in [Attempts -> RunStatus],
         NEW a \in Attempts, TerminalizeCanceledAttempt(a)
  PROVE  /\ DispatchTable' /\ AttentionTable'
         /\ run' \in [Attempts -> RunStatus]
<1>1. DispatchTable'
  BY SupersededTyped DEF DispatchTable, TerminalizeCanceledAttempt
<1>2. AttentionTable'
  BY DEF AttentionTable, TerminalizeCanceledAttempt
<1>3. run' \in [Attempts -> RunStatus]
  BY DEF TerminalizeCanceledAttempt, RunStatus
<1> QED BY <1>1, <1>2, <1>3

-----------------------------------------------------------------------------
(* What each transaction writes, and that it writes one row.                *)

\* Every dispatch row but a's is left as it was.
OthersKept(a) == \A b \in Attempts \ {a} : dispatch'[b] = dispatch[b]

\* A superseded row keeps its result.
LEMMA SupersededRow ==
  ASSUME NEW row \in DispatchRow
  PROVE  Superseded(row).status = "superseded" /\ Superseded(row).result = row.result
BY DEF DispatchRow, Superseded

\* supersede_dispatch ends the row and keeps its result.
LEMMA SupersedeWrites ==
  ASSUME DispatchTable, NEW a \in Attempts, SupersedeDispatch(a)
  PROVE  /\ OthersKept(a)
         /\ dispatch'[a].status = "superseded"
         /\ dispatch'[a].result = dispatch[a].result
BY SupersededRow DEF DispatchTable, SupersedeDispatch, OthersKept

\* claim_dispatch makes the claimer the one that knows the token.
LEMMA ClaimWrites ==
  ASSUME DispatchTable, NEW o \in Pollers, NEW a \in Attempts, ClaimDispatch(o, a)
  PROVE  /\ OthersKept(a)
         /\ dispatch'[a].status = "claimed" /\ dispatch'[a].tokens = {o}
         /\ dispatch'[a].result = dispatch[a].result
<1>1. \A row \in DispatchRow :
        LET new == [row EXCEPT !.status = "claimed", !.owner = o,
                               !.tokens = {o}, !.timer = "running"]
        IN  new.status = "claimed" /\ new.tokens = {o} /\ new.result = row.result
  BY DEF DispatchRow
<1> QED BY <1>1 DEF DispatchTable, ClaimDispatch, OthersKept

\* A write of a status leaves tokens and result alone.
LEMMA SetStatusWrites ==
  ASSUME DispatchTable, NEW a \in Attempts, NEW status, NEW timer,
         SetStatus(a, status, timer)
  PROVE  /\ OthersKept(a)
         /\ dispatch'[a].status = status
         /\ dispatch'[a].tokens = dispatch[a].tokens
         /\ dispatch'[a].result = dispatch[a].result
<1>1. \A row \in DispatchRow :
        LET new == [row EXCEPT !.status = status, !.timer = timer]
        IN  /\ new.status = status /\ new.tokens = row.tokens
            /\ new.result = row.result
  BY DEF DispatchRow
<1> QED BY <1>1 DEF DispatchTable, SetStatus, OthersKept

\* mark_dispatch_prepared: its caller knows the token afterwards.
LEMMA PreparedWrites ==
  ASSUME DispatchTable, NEW o, NEW a \in Attempts, MarkDispatchPrepared(o, a)
  PROVE  /\ OthersKept(a)
         /\ dispatch'[a].status = "prepared" /\ o \in dispatch'[a].tokens
         /\ dispatch'[a].result = dispatch[a].result
<1>1. \A row \in DispatchRow : \A t :
        LET new == [row EXCEPT !.status = "prepared", !.timer = "running",
                               !.tokens = t]
        IN  new.status = "prepared" /\ new.tokens = t /\ new.result = row.result
  BY DEF DispatchRow
<1> QED BY <1>1 DEF DispatchTable, MarkDispatchPrepared, OthersKept

\* record_dispatch_result makes the result durable with the status.
LEMMA RecordWrites ==
  ASSUME DispatchTable, NEW a \in Attempts, RecordDispatchResult(a)
  PROVE  /\ OthersKept(a)
         /\ dispatch'[a].status = "result_ready" /\ dispatch'[a].result
<1>1. \A row \in DispatchRow :
        LET new == [row EXCEPT !.status = "result_ready", !.result = TRUE]
        IN  new.status = "result_ready" /\ new.result = TRUE
  BY DEF DispatchRow
<1> QED BY <1>1 DEF DispatchTable, RecordDispatchResult, OthersKept

\* defer_dispatch keeps the result.
LEMMA DeferWrites ==
  ASSUME DispatchTable, NEW a \in Attempts, DeferDispatch(a)
  PROVE  /\ OthersKept(a)
         /\ dispatch'[a].status = "waiting"
         /\ dispatch'[a].result = dispatch[a].result
<1>1. \A row \in DispatchRow :
        LET new == [row EXCEPT !.status = "waiting", !.timer = "running",
                               !.tokens = {}]
        IN  new.status = "waiting" /\ new.result = row.result
  BY DEF DispatchRow
<1> QED BY <1>1 DEF DispatchTable, DeferDispatch, OthersKept

\* mark_dispatch_attention links an unanswered request, unless the row already
\* links one.
LEMMA MarkAttentionWrites ==
  ASSUME DispatchTable, NEW a \in Attempts, NEW category, NEW phase,
         MarkDispatchAttention(a, category, phase)
  PROVE  /\ OthersKept(a)
         /\ dispatch'[a].result = dispatch[a].result
         /\ dispatch[a].status = "attention" => dispatch' = dispatch
         /\ dispatch[a].status # "attention" =>
              /\ dispatch'[a].status = "attention"
              /\ dispatch'[a].link = category /\ dispatch'[a].remedy = "none"
              /\ dispatch'[a].phase = phase
<1>1. \A row \in DispatchRow :
        LET new == [row EXCEPT !.status = "attention", !.timer = "none",
                               !.tokens = {}, !.link = category,
                               !.remedy = "none", !.phase = phase]
        IN  /\ new.status = "attention" /\ new.link = category
            /\ new.remedy = "none" /\ new.phase = phase
            /\ new.result = row.result
  BY DEF DispatchRow
<1> QED BY <1>1 DEF DispatchTable, MarkDispatchAttention, OthersKept

\* complete_dispatch keeps the result.
LEMMA CompleteWrites ==
  ASSUME DispatchTable, NEW a \in Attempts, CompleteDispatch(a)
  PROVE  /\ OthersKept(a)
         /\ dispatch'[a].status = "completed"
         /\ dispatch'[a].result = dispatch[a].result
<1>1. \A row \in DispatchRow :
        LET new == [row EXCEPT !.status = "completed", !.timer = "none",
                               !.tokens = {}]
        IN  new.status = "completed" /\ new.result = row.result
  BY DEF DispatchRow
<1> QED BY <1>1 DEF DispatchTable, CompleteDispatch, OthersKept

\* resume_attention_dispatch returns the row to the phase it was retried from.
LEMMA ResumeWrites ==
  ASSUME DispatchTable, NEW o, NEW a \in Attempts, ResumeAttentionDispatch(o, a)
  PROVE  /\ OthersKept(a)
         /\ dispatch'[a].status = dispatch[a].phase
         /\ dispatch'[a].result = dispatch[a].result
<1>1. \A row \in DispatchRow : \A s, t :
        LET new == [row EXCEPT !.status = s, !.owner = o, !.tokens = {},
                               !.link = "none", !.remedy = "none",
                               !.phase = "none", !.timer = t]
        IN  new.status = s /\ new.result = row.result
  BY DEF DispatchRow
<1> QED BY <1>1 DEF DispatchTable, ResumeAttentionDispatch, OthersKept

\* A takeover changes who owns the row and nothing else.
LEMMA TakeoverWrites ==
  ASSUME DispatchTable, NEW o, NEW a \in Attempts, TakeoverDispatch(o, a)
  PROVE  /\ OthersKept(a)
         /\ dispatch'[a].status = dispatch[a].status
         /\ dispatch'[a].result = dispatch[a].result
         /\ dispatch'[a].link = dispatch[a].link
         /\ dispatch'[a].remedy = dispatch[a].remedy
         /\ dispatch'[a].phase = dispatch[a].phase
<1>1. \A row \in DispatchRow :
        LET new == [row EXCEPT !.owner = o, !.tokens = {o}]
        IN  /\ new.status = row.status /\ new.result = row.result
            /\ new.link = row.link /\ new.remedy = row.remedy
            /\ new.phase = row.phase
  BY DEF DispatchRow
<1> QED BY <1>1 DEF DispatchTable, TakeoverDispatch, OthersKept

\* open_attention opens one request of one attempt and closes none.
LEMMA OpenAttentionWrites ==
  ASSUME AttentionTable, NEW a \in Attempts, NEW category \in Categories,
         NEW step \in Phases \cup {"open"}, OpenAttention(a, category, step)
  PROVE  /\ \A b \in Attempts \ {a} : attention'[b] = attention[b]
         /\ Open(a, category)'
         /\ \A c \in Categories : Open(a, c) => Open(a, c)'
<1>1. step # "closed"
  BY DEF Phases, SafePhases
<1>2. attention[a] \in [Categories -> Phases \cup {"open", "closed"}]
  BY DEF AttentionTable
<1>3. attention'[a] = [attention[a] EXCEPT ![category] =
                         IF Open(a, category) THEN attention[a][category] ELSE step]
  BY DEF AttentionTable, OpenAttention
<1>4. \A c \in Categories :
        attention'[a][c] = IF c = category
                           THEN IF Open(a, category) THEN attention[a][category] ELSE step
                           ELSE attention[a][c]
  BY <1>2, <1>3
<1>5. \A b \in Attempts \ {a} : attention'[b] = attention[b]
  BY DEF AttentionTable, OpenAttention
<1> QED BY <1>1, <1>4, <1>5 DEF Open

\* resolve_attention closes one request; a row that links it learns the remedy.
LEMMA ResolveWrites ==
  ASSUME AttentionTable, DispatchTable, NEW a \in Attempts,
         NEW category \in Categories, NEW remedy,
         ResolveAttention(a, category, remedy)
  PROVE  /\ OthersKept(a)
         /\ \A b \in Attempts \ {a} : attention'[b] = attention[b]
         /\ \A c \in Categories \ {category} : attention'[a][c] = attention[a][c]
         /\ ~Open(a, category)'
         /\ dispatch'[a].status = dispatch[a].status
         /\ dispatch'[a].tokens = dispatch[a].tokens
         /\ dispatch'[a].link = dispatch[a].link
         /\ dispatch'[a].phase = dispatch[a].phase
         /\ dispatch'[a].result = dispatch[a].result
         /\ IF dispatch[a].status = "attention" /\ dispatch[a].link = category
            THEN dispatch'[a].remedy = remedy
            ELSE dispatch'[a].remedy = dispatch[a].remedy
<1>1. \A row \in DispatchRow :
        LET new == [row EXCEPT !.remedy = remedy]
        IN  /\ new.status = row.status /\ new.tokens = row.tokens
            /\ new.link = row.link /\ new.phase = row.phase
            /\ new.result = row.result /\ new.remedy = remedy
  BY DEF DispatchRow
<1>2. OthersKept(a)
  BY DEF DispatchTable, ResolveAttention, OthersKept
<1>3. dispatch'[a] = IF dispatch[a].status = "attention" /\ dispatch[a].link = category
                     THEN [dispatch[a] EXCEPT !.remedy = remedy] ELSE dispatch[a]
  BY DEF DispatchTable, ResolveAttention
<1>4. attention[a] \in [Categories -> Phases \cup {"open", "closed"}]
  BY DEF AttentionTable
<1>5. attention'[a] = [attention[a] EXCEPT ![category] = "closed"]
  BY DEF AttentionTable, ResolveAttention
<1>6. \A c \in Categories :
        attention'[a][c] = IF c = category THEN "closed" ELSE attention[a][c]
  BY <1>4, <1>5
<1>7. \A b \in Attempts \ {a} : attention'[b] = attention[b]
  BY DEF AttentionTable, ResolveAttention
<1>8. dispatch[a] \in DispatchRow
  BY DEF DispatchTable
<1> QED BY <1>1, <1>2, <1>3, <1>6, <1>7, <1>8 DEF Open

\* An attempt is ended once, for the reason given, and no other with it.
LEMMA EndedWrites ==
  ASSUME attempt \in [Attempts -> AttemptRow], NEW a \in Attempts, NEW why
  PROVE  /\ Ended(a, why)[a].status = "completed" /\ Ended(a, why)[a].left = why
         /\ Ended(a, why)[a].of = attempt[a].of
         /\ \A b \in Attempts \ {a} : Ended(a, why)[b] = attempt[b]
<1>1. \A row \in AttemptRow :
        LET new == [row EXCEPT !.status = "completed", !.left = why]
        IN  new.status = "completed" /\ new.left = why /\ new.of = row.of
  BY DEF AttemptRow
<1> QED BY <1>1 DEF Ended

\* _terminalize_canceled_attempt leaves nothing of the attempt open.
LEMMA TerminalizeWrites ==
  ASSUME AttentionTable, DispatchTable, run \in [Attempts -> RunStatus],
         NEW a \in Attempts, TerminalizeCanceledAttempt(a)
  PROVE  /\ OthersKept(a)
         /\ \A b \in Attempts \ {a} :
              attention'[b] = attention[b] /\ run'[b] = run[b]
         /\ dispatch'[a].status \in {"none", "completed", "superseded"}
         /\ dispatch'[a].result = dispatch[a].result
         /\ \A c \in Categories : ~Open(a, c)'
         /\ run'[a] \notin {"running", "waiting_input", "resume_authorized"}
<1>1. /\ OthersKept(a)
      /\ dispatch'[a] = IF dispatch[a].status \in Unfinished \cup {"attention"}
                        THEN Superseded(dispatch[a]) ELSE dispatch[a]
  BY DEF DispatchTable, TerminalizeCanceledAttempt, OthersKept
<1>2. dispatch[a].status \in Unfinished \cup {"attention", "none", "completed", "superseded"}
  BY DEF DispatchTable, DispatchRow, DispatchStatus, Unfinished
<1>3. /\ dispatch'[a].status \in {"none", "completed", "superseded"}
      /\ dispatch'[a].result = dispatch[a].result
  BY <1>1, <1>2, SupersededRow DEF DispatchTable
<1>4. attention'[a] = [c \in Categories |-> "closed"]
  BY DEF AttentionTable, TerminalizeCanceledAttempt
<1>5. \A b \in Attempts \ {a} : attention'[b] = attention[b] /\ run'[b] = run[b]
  BY DEF AttentionTable, TerminalizeCanceledAttempt
<1>6. run'[a] \notin {"running", "waiting_input", "resume_authorized"}
  BY DEF TerminalizeCanceledAttempt
<1> QED BY <1>1, <1>3, <1>4, <1>5, <1>6 DEF Open

-----------------------------------------------------------------------------
(* Type correctness.  The invariant is TypeOK in named parts, and the fact *)
(* OpenRequest and LinkRequest rest on: a worker that asks for attention   *)
(* knows for what and for which safe step.                                 *)

AttemptTable == attempt \in [Attempts -> AttemptRow]
ExecutionTable == execution \in [Executions -> {"work", "human", "terminal"}]
PreparationTable ==
  /\ preparation \in [Attempts -> PreparationStatus]
  /\ readied \in [Attempts -> BOOLEAN]
RunTable == run \in [Attempts -> RunStatus]
WorkerTable == worker \in [Pollers -> WorkerState]
AttentionNamed ==
  \A o \in Pollers : worker[o].at \in {"attend", "link"} =>
    worker[o].category \in Categories /\ worker[o].phase \in Phases
Workers == WorkerTable /\ AttentionNamed
OperatorTyped ==
  operator \in [a : Attempts \cup {0}, remedy : {"none", "retry", "other"}]
HistoryTyped ==
  /\ child \in [Attempts -> BOOLEAN]
  /\ launches \in [Attempts -> Nat]
  /\ resumes \in [Attempts -> Nat]
BudgetTyped == crashes \in Nat /\ remedies \in Nat

TypeInv ==
  /\ AttemptTable /\ ExecutionTable /\ DispatchTable /\ PreparationTable
  /\ AttentionTable /\ RunTable /\ Workers /\ OperatorTyped
  /\ HistoryTyped /\ BudgetTyped

\* The named parts together are TypeOK.
LEMMA TypeInvTypeOK == TypeInv => TypeOK
BY DEF TypeInv, AttemptTable, ExecutionTable, DispatchTable, PreparationTable,
       AttentionTable, RunTable, Workers, WorkerTable, OperatorTyped,
       HistoryTyped, BudgetTyped, TypeOK, LedgerTypeOK

\* What a step leaves alone stays well formed.
LEMMA Unchanged ==
  ASSUME TypeInv
  PROVE  /\ UNCHANGED attempt => AttemptTable'
         /\ UNCHANGED execution => ExecutionTable'
         /\ UNCHANGED dispatch => DispatchTable'
         /\ UNCHANGED <<preparation, readied>> => PreparationTable'
         /\ UNCHANGED attention => AttentionTable'
         /\ UNCHANGED run => RunTable'
         /\ UNCHANGED worker => Workers'
         /\ UNCHANGED operator => OperatorTyped'
         /\ UNCHANGED <<child, launches, resumes>> => HistoryTyped'
         /\ UNCHANGED <<crashes, remedies>> => BudgetTyped'
BY DEF TypeInv, AttemptTable, ExecutionTable, DispatchTable, PreparationTable,
       AttentionTable, RunTable, Workers, WorkerTable, AttentionNamed,
       OperatorTyped, HistoryTyped, BudgetTyped

\* An empty ledger and idle schedulers are well formed.
LEMMA InitTyped == Init => TypeInv
<1> SUFFICES ASSUME Init PROVE TypeInv
  OBVIOUS
<1> USE DEF Init, LedgerInit
<1>1. AttemptTable /\ ExecutionTable
  BY DEF AttemptTable, AttemptRow, ExecutionTable
<1>2. DispatchTable
  <2>1. NoDispatch \in DispatchRow
    BY DEF NoDispatch, DispatchRow, DispatchStatus
  <2> QED BY <2>1 DEF DispatchTable
<1>3. PreparationTable /\ AttentionTable /\ RunTable
  BY DEF PreparationTable, PreparationStatus, AttentionTable, RunTable, RunStatus
<1>4. Workers
  <2>1. Idle \in WorkerState
    BY DEF Idle, WorkerState, Steps
  <2>2. Idle.at \notin {"attend", "link"}
    BY DEF Idle
  <2> QED BY <2>1, <2>2 DEF Workers, WorkerTable, AttentionNamed
<1>5. OperatorTyped /\ HistoryTyped /\ BudgetTyped
  BY DEF OperatorTyped, NoRemedy, HistoryTyped, BudgetTyped
<1> QED BY <1>1, <1>2, <1>3, <1>4, <1>5 DEF TypeInv

(* The ways a worker moves. *)

Moves == Steps \ {"attend", "link"}

\* A worker may go on to any step that asks for nothing.
LEMMA GoTyped ==
  ASSUME Workers, NEW o \in Pollers, NEW step \in Moves, Go(o, step)
  PROVE  Workers'
<1>1. \A w \in WorkerState :
        /\ [w EXCEPT !.at = step] \in WorkerState
        /\ [w EXCEPT !.at = step].at = step
  BY DEF WorkerState, Moves
<1> QED BY <1>1 DEF Workers, WorkerTable, AttentionNamed, Go, Moves

\* A worker that opened its request goes on to link it.
LEMMA GoLinkTyped ==
  ASSUME Workers, NEW o \in Pollers, worker[o].at = "attend", Go(o, "link")
  PROVE  Workers'
<1>1. \A w \in WorkerState :
        /\ [w EXCEPT !.at = "link"] \in WorkerState
        /\ [w EXCEPT !.at = "link"].category = w.category
        /\ [w EXCEPT !.at = "link"].phase = w.phase
  BY DEF WorkerState, Steps
<1> QED BY <1>1 DEF Workers, WorkerTable, AttentionNamed, Go

\* A worker may finish its turn, or die.
LEMMA RestTyped ==
  ASSUME Workers, NEW o \in Pollers, NEW w \in {Idle, Down},
         worker' = [worker EXCEPT ![o] = w]
  PROVE  Workers'
<1>1. Idle \in WorkerState /\ Idle.at = "idle"
  BY DEF Idle, WorkerState, Steps
<1>2. Down \in WorkerState /\ Down.at = "down"
  BY <1>1 DEF Down, WorkerState, Steps
<1> QED BY <1>1, <1>2 DEF Workers, WorkerTable, AttentionNamed

\* A worker may begin a turn.
LEMMA TurnTyped ==
  ASSUME Workers, NEW o \in Pollers, NEW a \in Attempts,
         NEW path \in {"tick", "recover", "replay"}, NEW step \in Moves,
         Turn(o, a, path, step)
  PROVE  Workers'
<1> DEFINE w == [Idle EXCEPT !.at = step, !.a = a, !.path = path]
<1>1. w \in WorkerState /\ w.at \notin {"attend", "link"}
  BY DEF Idle, WorkerState, Moves
<1> QED BY <1>1 DEF Workers, WorkerTable, AttentionNamed, Turn

\* A worker may begin to ask for attention, for a named request and phase.
LEMMA AttendTyped ==
  ASSUME Workers, NEW o \in Pollers, NEW a \in Attempts,
         NEW path \in {"tick", "recover", "replay"},
         NEW category \in Categories, NEW phase \in Phases,
         NEW inHandler \in BOOLEAN,
         Attend(o, a, path, category, phase, inHandler)
  PROVE  Workers'
<1> DEFINE w == [at |-> "attend", a |-> a, path |-> path, category |-> category,
                 phase |-> phase, handler |-> inHandler]
<1>1. w \in WorkerState /\ w.category = category /\ w.phase = phase
  BY DEF WorkerState, Steps
<1> QED BY <1>1 DEF Workers, WorkerTable, AttentionNamed, Attend

\* Whatever prepare returned, its caller goes on to a step there is.
LEMMA DisposedTyped ==
  ASSUME Workers, NEW o \in Pollers, NEW a \in Attempts,
         NEW disposition \in {"ready", "busy", "skill", "blocked", "fatal"},
         Disposed(o, a, disposition)
  PROVE  Workers'
<1>1. worker[o].path \in {"tick", "recover", "replay"}
  BY DEF Workers, WorkerTable, WorkerState
<1>2. {"cleanup", "ready", "busy", "skill", "blocked"} \subseteq Moves
  BY DEF Moves, Steps
<1>3. "result-recovery" \in Categories /\ "preparation-fatal" \in Categories
  BY DEF Categories, SchedulerCategories
<1>4. "result_ready" \in Phases /\ "preparing" \in Phases
  BY DEF Phases, SafePhases
<1>5. CASE worker[o].path = "replay" /\ disposition = "ready"
  BY <1>2, <1>5, GoTyped DEF Disposed
<1>6. CASE worker[o].path = "replay" /\ disposition # "ready"
  BY <1>1, <1>3, <1>4, <1>6, AttendTyped DEF Disposed
<1>7. CASE worker[o].path # "replay" /\ disposition = "fatal"
  BY <1>1, <1>3, <1>4, <1>7, AttendTyped DEF Disposed
<1>8. CASE worker[o].path # "replay" /\ disposition # "fatal"
  BY <1>2, <1>8, GoTyped DEF Disposed
<1> QED BY <1>5, <1>6, <1>7, <1>8

-----------------------------------------------------------------------------
(* One lemma per group of actions: a step of the group keeps the invariant. *)

\* Names of steps, requests and phases that the proofs below use.
LEMMA StepNames ==
  /\ {"down", "idle", "claimed", "prepare", "preparing", "noting", "ready",
      "busy", "blocked", "skill", "drop", "prepared", "launch", "running",
      "asking", "asked", "record", "cleanup", "uncleaned", "unclean",
      "commit", "finish"} \subseteq Moves
  /\ SchedulerCategories \subseteq Categories
  /\ {"engine", "runner"} \subseteq Categories
  /\ SafePhases \cup {"dispatching"} \subseteq Phases
BY DEF Moves, Steps, Categories, Phases

\* reconcile and claim keep the invariant.
LEMMA ReconcileStepTyped ==
  ASSUME TypeInv, NEW o \in Pollers, NEW a \in Attempts, ReconcileStep(o, a)
  PROVE  TypeInv'
<1> USE Unchanged, StepNames DEF workflow, prepared, rest, history, budget
<1>1. CASE Resume(o, a)
  <2>1. DispatchTable'
    BY <1>1, ResumeTyped, SupersedeTyped DEF Resume, TypeInv
  <2> QED BY <1>1, <2>1 DEF Resume, TypeInv
<1>2. CASE RecoverDispatching(o, a)
  <2>1. Workers'
    BY <1>2, AttendTyped
       DEF RecoverDispatching, TypeInv, SchedulerCategories
  <2> QED BY <1>2, <2>1 DEF RecoverDispatching, TypeInv, ledgerVars
<1>3. CASE RecoverAmbiguousPreparation(o, a)
  <2>1. Workers'
    BY <1>3, AttendTyped
       DEF RecoverAmbiguousPreparation, TypeInv, SchedulerCategories, SafePhases
  <2> QED BY <1>3, <2>1 DEF RecoverAmbiguousPreparation, TypeInv, ledgerVars
<1>4. CASE RecoverCommitted(o, a)
  <2>1. DispatchTable'
    BY <1>4, CompleteTyped DEF RecoverCommitted, TypeInv
  <2> QED BY <1>4, <2>1 DEF RecoverCommitted, TypeInv
<1>5. CASE Takeover(o, a)
  <2>1. DispatchTable'
    BY <1>5, TakeoverTyped, SupersedeTyped DEF Takeover, TypeInv
  <2>2. Workers'
    BY <1>5, TurnTyped DEF Takeover, TypeInv
  <2> QED BY <1>5, <2>1, <2>2 DEF Takeover, TypeInv
<1>6. CASE Claim(o, a)
  <2>1. DispatchTable'
    BY <1>6, ClaimTyped DEF Claim, TypeInv
  <2>2. Workers'
    BY <1>6, TurnTyped DEF Claim, TypeInv
  <2> QED BY <1>6, <2>1, <2>2 DEF Claim, TypeInv
<1> QED BY <1>1, <1>2, <1>3, <1>4, <1>5, <1>6 DEF ReconcileStep

(* What the operands of these steps are. *)

\* A worker works on one of three paths.
LEMMA PathTyped ==
  ASSUME Workers, NEW o \in Pollers
  PROVE  worker[o].path \in {"tick", "recover", "replay"}
BY DEF Workers, WorkerTable, WorkerState

\* An attempt works for an execution or was not created.
LEMMA AttemptOf ==
  ASSUME AttemptTable, NEW a \in Attempts
  PROVE  attempt[a].of \in Executions \cup {None}
BY DEF AttemptTable, AttemptRow

\* A worker that asks names a request and a phase.
LEMMA AskingTyped ==
  ASSUME Workers, NEW o \in Pollers, NEW a, At(o, a, "attend") \/ At(o, a, "link")
  PROVE  worker[o].category \in Categories /\ worker[o].phase \in Phases
BY DEF Workers, AttentionNamed, At

\* So do the two exception handlers.
LEMMA HandlerTyped ==
  ASSUME NEW o, NEW a
  PROVE  HandlerCategory(o, a) \subseteq Categories /\ HandlerPhase(a) \in Phases
<1>1. HandlerPhase(a) \in Phases
  BY DEF HandlerPhase, Phases, SafePhases
<1>2. {"ambiguous-dispatch", "result-commit", "scheduler-recovery",
       "result-recovery", "scheduler-infrastructure"} \subseteq Categories
  BY DEF Categories, SchedulerCategories
<1>3. HandlerCategory(o, a) \subseteq Categories
  BY <1>2 DEF HandlerCategory
<1> QED BY <1>1, <1>3

\* What the runner's steps write is well formed.
LEMMA RunTyped ==
  ASSUME RunTable, HistoryTyped, NEW a \in Attempts
  PROVE  /\ \A status \in RunStatus :
              [run EXCEPT ![a] = status] \in [Attempts -> RunStatus]
         /\ \A b \in BOOLEAN : [child EXCEPT ![a] = b] \in [Attempts -> BOOLEAN]
         /\ [launches EXCEPT ![a] = @ + 1] \in [Attempts -> Nat]
BY DEF RunTable, HistoryTyped

\* Preparation, up to the launch intent, keeps the invariant.
LEMMA PreparationStepTyped ==
  ASSUME TypeInv, NEW o \in Pollers, NEW a \in Attempts, PreparationStep(o, a)
  PROVE  TypeInv'
<1> USE Unchanged, StepNames DEF workflow, prepared, rest, history, budget
<1>1. CASE MarkPreparing(o, a)
  <2>1. DispatchTable'
    BY <1>1, SetStatusTyped DEF MarkPreparing, TypeInv, MarkDispatchPreparing, DispatchStatus
  <2>2. Workers'
    BY <1>1, GoTyped DEF MarkPreparing, TypeInv
  <2> QED BY <1>1, <2>1, <2>2 DEF MarkPreparing, TypeInv
<1>2. CASE DeferForBudget(o, a)
  <2>1. DispatchTable'
    BY <1>2, DeferTyped DEF DeferForBudget, TypeInv
  <2>2. Workers'
    BY <1>2, RestTyped DEF DeferForBudget, TypeInv, Rest
  <2> QED BY <1>2, <2>1, <2>2 DEF DeferForBudget, TypeInv
<1>3. CASE BeginPreparation(o, a)
  <2>1. PreparationTable'
    BY <1>3, PreparationTyped DEF BeginPreparation, TypeInv, PreparationTable, PreparationStatus
  <2> QED BY <1>3, <2>1 DEF BeginPreparation, TypeInv
<1>4. CASE ResolveSkills(o, a)
  <2>1. PreparationTable'
    BY <1>4, PreparationTyped DEF ResolveSkills, TypeInv, PreparationTable, PreparationStatus
  <2>2. Workers'
    BY <1>4, DisposedTyped DEF ResolveSkills, TypeInv
  <2> QED BY <1>4, <2>1, <2>2 DEF ResolveSkills, TypeInv
<1>5. CASE ReturnAtOnce(o, a)
  <2>1. Workers'
    BY <1>5, DisposedTyped DEF ReturnAtOnce, TypeInv
  <2> QED BY <1>5, <2>1 DEF ReturnAtOnce, TypeInv, ledgerVars
<1>6. CASE ResumePreparation(o, a)
  <2>1. PreparationTable'
    BY <1>6, PreparationTyped DEF ResumePreparation, TypeInv, PreparationTable, PreparationStatus
  <2>2. Workers'
    BY <1>6, GoTyped DEF ResumePreparation, TypeInv
  <2> QED BY <1>6, <2>1, <2>2 DEF ResumePreparation, TypeInv
<1>7. CASE MarkPreparationReady(o, a)
  <2>1. PreparationTable'
    BY <1>7, PreparationTyped DEF MarkPreparationReady, TypeInv, PreparationTable, PreparationStatus
  <2>2. Workers'
    BY <1>7, DisposedTyped DEF MarkPreparationReady, TypeInv
  <2> QED BY <1>7, <2>1, <2>2 DEF MarkPreparationReady, TypeInv
<1>8. CASE FailPreparation(o, a)
  <2>1. PreparationTable'
    BY <1>8, PreparationTyped DEF FailPreparation, TypeInv, PreparationTable, PreparationStatus
  <2>2. Workers'
    BY <1>8, DisposedTyped DEF FailPreparation, TypeInv
  <2> QED BY <1>8, <2>1, <2>2 DEF FailPreparation, TypeInv
<1>9. CASE EngineAsks(o, a)
  <2>1. AttentionTable'
    BY <1>9, OpenAttentionTyped DEF EngineAsks, TypeInv
  <2>2. Workers'
    BY <1>9, GoTyped DEF EngineAsks, TypeInv
  <2> QED BY <1>9, <2>1, <2>2 DEF EngineAsks, TypeInv
<1>10. CASE NoteEngineRequest(o, a)
  <2>1. PreparationTable'
    BY <1>10, PreparationTyped DEF NoteEngineRequest, TypeInv, PreparationTable, PreparationStatus
  <2>2. Workers'
    BY <1>10, GoTyped, DisposedTyped DEF NoteEngineRequest, TypeInv
  <2> QED BY <1>10, <2>1, <2>2 DEF NoteEngineRequest, TypeInv
<1>11. CASE Defer(o, a)
  <2>1. DispatchTable'
    BY <1>11, DeferTyped DEF Defer, TypeInv
  <2>2. Workers'
    BY <1>11, RestTyped DEF Defer, TypeInv, Rest
  <2> QED BY <1>11, <2>1, <2>2 DEF Defer, TypeInv
<1>12. CASE LinkEngineRequest(o, a)
  <2>1. DispatchTable'
    BY <1>12, MarkAttentionTyped DEF LinkEngineRequest, TypeInv, SafePhases
  <2>2. Workers'
    BY <1>12, RestTyped DEF LinkEngineRequest, TypeInv, Rest
  <2> QED BY <1>12, <2>1, <2>2 DEF LinkEngineRequest, TypeInv
<1>13. CASE CommitSkillFailure(o, a)
  <2>1. AttemptTable' /\ ExecutionTable'
    BY <1>13, EndedTyped, TransitionTyped, AttemptOf
       DEF CommitSkillFailure, TypeInv, AttemptTable, ExecutionTable
  <2>2. Workers'
    BY <1>13, GoTyped DEF CommitSkillFailure, TypeInv
  <2> QED BY <1>13, <2>1, <2>2 DEF CommitSkillFailure, TypeInv
<1>14. CASE NoFailedExit(o, a)
  <2>1. Workers'
    BY <1>14, AttendTyped, PathTyped DEF NoFailedExit, TypeInv, SchedulerCategories, SafePhases
  <2> QED BY <1>14, <2>1 DEF NoFailedExit, TypeInv, ledgerVars
<1>15. CASE DropDispatch(o, a)
  <2>1. DispatchTable'
    BY <1>15, SupersedeTyped DEF DropDispatch, TypeInv
  <2>2. Workers'
    BY <1>15, RestTyped DEF DropDispatch, TypeInv, Rest
  <2> QED BY <1>15, <2>1, <2>2 DEF DropDispatch, TypeInv
<1>16. CASE MarkPrepared(o, a)
  <2>1. DispatchTable'
    BY <1>16, PreparedTyped DEF MarkPrepared, TypeInv
  <2>2. Workers'
    BY <1>16, GoTyped DEF MarkPrepared, TypeInv
  <2> QED BY <1>16, <2>1, <2>2 DEF MarkPrepared, TypeInv
<1>17. CASE MarkLaunchIntent(o, a)
  <2>1. DispatchTable'
    BY <1>17, SetStatusTyped DEF MarkLaunchIntent, TypeInv, MarkDispatching, DispatchStatus
  <2>2. Workers'
    BY <1>17, GoTyped DEF MarkLaunchIntent, TypeInv
  <2> QED BY <1>17, <2>1, <2>2 DEF MarkLaunchIntent, TypeInv
<1> QED BY <1>1, <1>2, <1>3, <1>4, <1>5, <1>6, <1>7, <1>8, <1>9, <1>10, <1>11,
           <1>12, <1>13, <1>14, <1>15, <1>16, <1>17 DEF PreparationStep

\* The runner's steps keep the invariant.
LEMMA RunnerStepTyped ==
  ASSUME TypeInv, NEW o \in Pollers, NEW a \in Attempts, RunnerStep(o, a)
  PROVE  TypeInv'
<1> USE Unchanged, StepNames DEF workflow, prepared, rest, history, budget
<1>1. CASE Launch(o, a)
  <2>1. RunTable'
    BY <1>1, RunTyped DEF Launch, TypeInv, RunTable, RunStatus
  <2>2. HistoryTyped'
    BY <1>1, RunTyped DEF Launch, TypeInv, HistoryTyped, Supervised
  <2>3. Workers'
    BY <1>1, GoTyped DEF Launch, TypeInv
  <2> QED BY <1>1, <2>1, <2>2, <2>3 DEF Launch, TypeInv, Supervised
<1>2. CASE NoLaunch(o, a)
  <2>1. Workers'
    BY <1>2, GoTyped DEF NoLaunch, TypeInv
  <2> QED BY <1>2, <2>1 DEF NoLaunch, TypeInv, ledgerVars
<1>3. CASE RunnerReturns(o, a)
  <2>1. RunTable'
    BY <1>3, RunTyped DEF RunnerReturns, TypeInv, RunTable, RunStatus
  <2>2. HistoryTyped'
    BY <1>3, RunTyped DEF RunnerReturns, TypeInv, HistoryTyped, Supervised
  <2>3. Workers'
    BY <1>3, GoTyped DEF RunnerReturns, TypeInv
  <2> QED BY <1>3, <2>1, <2>2, <2>3 DEF RunnerReturns, TypeInv, Supervised
<1>4. CASE RunnerAsks(o, a)
  <2>1. AttentionTable'
    BY <1>4, OpenAttentionTyped DEF RunnerAsks, TypeInv
  <2>2. Workers'
    BY <1>4, GoTyped DEF RunnerAsks, TypeInv
  <2> QED BY <1>4, <2>1, <2>2 DEF RunnerAsks, TypeInv, Supervised
<1>5. CASE MarkWaitingInput(o, a)
  <2>1. RunTable'
    BY <1>5, RunTyped DEF MarkWaitingInput, TypeInv, RunTable, RunStatus
  <2>2. Workers'
    BY <1>5, GoTyped DEF MarkWaitingInput, TypeInv
  <2> QED BY <1>5, <2>1, <2>2 DEF MarkWaitingInput, TypeInv, Supervised
<1>6. CASE RaiseQuestion(o, a)
  <2>1. DispatchTable'
    BY <1>6, MarkAttentionTyped DEF RaiseQuestion, TypeInv, SafePhases
  <2>2. HistoryTyped'
    BY <1>6, RunTyped DEF RaiseQuestion, TypeInv, HistoryTyped
  <2>3. Workers'
    BY <1>6, RestTyped, AttendTyped, PathTyped DEF RaiseQuestion, TypeInv, Rest, SchedulerCategories
  <2> QED BY <1>6, <2>1, <2>2, <2>3 DEF RaiseQuestion, TypeInv
<1> QED BY <1>1, <1>2, <1>3, <1>4, <1>5, <1>6 DEF RunnerStep

\* Result, attention and exceptions keep the invariant.
LEMMA ResultStepTyped ==
  ASSUME TypeInv, NEW o \in Pollers, NEW a \in Attempts, ResultStep(o, a)
  PROVE  TypeInv'
<1> USE Unchanged, StepNames DEF workflow, prepared, rest, history, budget
<1>1. CASE RecordResult(o, a)
  <2>1. DispatchTable'
    BY <1>1, RecordTyped DEF RecordResult, TypeInv
  <2>2. Workers'
    BY <1>1, GoTyped DEF RecordResult, TypeInv
  <2> QED BY <1>1, <2>1, <2>2 DEF RecordResult, TypeInv
<1>2. CASE CleanupAttempt(o, a)
  <2>1. Workers'
    BY <1>2, GoTyped DEF CleanupAttempt, TypeInv
  <2> QED BY <1>2, <2>1 DEF CleanupAttempt, TypeInv, ledgerVars
<1>3. CASE CommitResult(o, a)
  <2>1. AttemptTable' /\ ExecutionTable'
    BY <1>3, EndedTyped, TransitionTyped, AttemptOf
       DEF CommitResult, TypeInv, AttemptTable, ExecutionTable
  <2>2. Workers'
    BY <1>3, GoTyped DEF CommitResult, TypeInv
  <2> QED BY <1>3, <2>1, <2>2 DEF CommitResult, TypeInv
<1>4. CASE FinishDispatch(o, a)
  <2>1. DispatchTable'
    BY <1>4, CompleteTyped DEF FinishDispatch, TypeInv
  <2>2. Workers'
    BY <1>4, RestTyped DEF FinishDispatch, TypeInv, Rest
  <2> QED BY <1>4, <2>1, <2>2 DEF FinishDispatch, TypeInv
<1>5. CASE Stale(o, a)
  <2>1. DispatchTable'
    BY <1>5, SupersedeTyped DEF Stale, TypeInv, SupersedeDispatch
  <2>2. Workers'
    BY <1>5, RestTyped DEF Stale, TypeInv, Rest
  <2> QED BY <1>5, <2>1, <2>2 DEF Stale, TypeInv
<1>6. CASE Raise(o, a)
  <2>1. DispatchTable'
    BY <1>6, CompleteTyped DEF Raise, TypeInv
  <2>2. Workers'
    BY <1>6, RestTyped, AttendTyped, PathTyped, HandlerTyped DEF Raise, TypeInv, Rest
  <2> QED BY <1>6, <2>1, <2>2 DEF Raise, TypeInv
<1>7. CASE HoldPreparation(o, a)
  <2>1. PreparationTable'
    BY <1>7, PreparationTyped DEF HoldPreparation, TypeInv, PreparationTable, PreparationStatus
  <2> QED BY <1>7, <2>1 DEF HoldPreparation, TypeInv
<1>8. CASE OpenRequest(o, a)
  <2>1. AttentionTable'
    BY <1>8, OpenAttentionTyped, AskingTyped DEF OpenRequest, TypeInv
  <2>2. Workers'
    BY <1>8, GoLinkTyped DEF OpenRequest, TypeInv, At
  <2> QED BY <1>8, <2>1, <2>2 DEF OpenRequest, TypeInv
<1>9. CASE LinkRequest(o, a)
  <2>1. DispatchTable'
    BY <1>9, MarkAttentionTyped, AskingTyped DEF LinkRequest, TypeInv
  <2>2. Workers'
    BY <1>9, RestTyped DEF LinkRequest, TypeInv, Rest
  <2> QED BY <1>9, <2>1, <2>2 DEF LinkRequest, TypeInv
<1>10. CASE Escape(o, a)
  <2>1. Workers'
    BY <1>10, RestTyped DEF Escape, TypeInv
  <2> QED BY <1>10, <2>1 DEF Escape, TypeInv, ledgerVars
<1> QED BY <1>1, <1>2, <1>3, <1>4, <1>5, <1>6, <1>7, <1>8, <1>9, <1>10 DEF ResultStep

\* control.py: what the operator's commands write is well formed.
LEMMA OperatorStepTyped ==
  ASSUME TypeInv, OperatorStep
  PROVE  TypeInv'
<1> USE Unchanged, StepNames DEF workflow, prepared, rest, history, budget, Serving
<1>1. ASSUME NEW e \in Executions, HumanTransition(e)
      PROVE  TypeInv'
  <2>1. AttemptTable' /\ ExecutionTable'
    BY <1>1, TransitionTyped
       DEF HumanTransition, TypeInv, AttemptTable, ExecutionTable
  <2> QED BY <1>1, <2>1 DEF HumanTransition, TypeInv
<1>2. ASSUME NEW a \in Attempts, ControlTransition(a)
      PROVE  TypeInv'
  <2>1. AttemptTable' /\ ExecutionTable'
    BY <1>2, EndedTyped, TransitionTyped, AttemptOf
       DEF ControlTransition, TypeInv, AttemptTable, ExecutionTable
  <2> QED BY <1>2, <2>1 DEF ControlTransition, TypeInv
<1>3. ASSUME NEW a \in Attempts, ControlCancel(a)
      PROVE  TypeInv'
  <2>1. AttemptTable' /\ ExecutionTable'
    BY <1>3, EndedTyped DEF ControlCancel, TypeInv, AttemptTable, ExecutionTable
  <2>2. DispatchTable' /\ AttentionTable' /\ RunTable'
    BY <1>3, TerminalizeTyped DEF ControlCancel, TypeInv, RunTable
  <2> QED BY <1>3, <2>1, <2>2 DEF ControlCancel, TypeInv
<1>4. ASSUME NEW a \in Attempts, NEW c \in SchedulerCategories,
             RemedyScheduler(a, c)
      PROVE  TypeInv'
  <2>1. AttentionTable' /\ DispatchTable'
    BY <1>4, ResolveTyped DEF RemedyScheduler, TypeInv
  <2>2. BudgetTyped'
    BY <1>4 DEF RemedyScheduler, Remedied, TypeInv, BudgetTyped
  <2> QED BY <1>4, <2>1, <2>2 DEF RemedyScheduler, TypeInv
<1>5. ASSUME NEW a \in Attempts, NEW r \in {"retry", "other"}, RemedyEngine(a, r)
      PROVE  TypeInv'
  <2>1. PreparationTable'
    BY <1>5, PreparationTyped
       DEF RemedyEngine, TypeInv, PreparationTable, PreparationStatus
  <2>2. OperatorTyped'
    BY <1>5 DEF RemedyEngine, OperatorTyped
  <2>3. BudgetTyped'
    BY <1>5 DEF RemedyEngine, Remedied, TypeInv, BudgetTyped
  <2> QED BY <1>5, <2>1, <2>2, <2>3 DEF RemedyEngine, TypeInv
<1>6. ASSUME NEW a \in Attempts, NEW r \in {"retry", "other"}, RemedyRunner(a, r)
      PROVE  TypeInv'
  <2>1. AttentionTable' /\ DispatchTable'
    BY <1>6, ResolveTyped DEF RemedyRunner, TypeInv
  <2>2. RunTable'
    BY <1>6, RunTyped DEF RemedyRunner, TypeInv, RunTable, RunStatus
  <2>3. HistoryTyped'
    BY <1>6 DEF RemedyRunner, TypeInv, HistoryTyped
  <2>4. BudgetTyped'
    BY <1>6 DEF RemedyRunner, Remedied, TypeInv, BudgetTyped
  <2> QED BY <1>6, <2>1, <2>2, <2>3, <2>4 DEF RemedyRunner, TypeInv
<1>7. CASE ResolveEngineRequest
  <2>1. operator.remedy \in {"none", "retry", "other"}
    BY DEF TypeInv, OperatorTyped
  <2>2. AttentionTable' /\ DispatchTable'
    BY <1>7, <2>1, ResolveTyped DEF ResolveEngineRequest, TypeInv
  <2>3. OperatorTyped'
    BY <1>7 DEF ResolveEngineRequest, OperatorTyped, NoRemedy
  <2> QED BY <1>7, <2>2, <2>3 DEF ResolveEngineRequest, TypeInv
<1> QED BY <1>1, <1>2, <1>3, <1>4, <1>5, <1>6, <1>7 DEF OperatorStep

\* Crashes, restarts, expiries and orphans leave the ledger well formed.
LEMMA EnvironmentTyped ==
  ASSUME TypeInv, Environment
  PROVE  TypeInv'
<1> USE Unchanged, StepNames DEF workflow, prepared, rest, history, budget
<1>1. ASSUME NEW o \in Pollers, Crash(o)
      PROVE  TypeInv'
  <2>1. \A row \in DispatchRow : [row EXCEPT !.tokens = @ \ {o}] \in DispatchRow
    BY DEF DispatchRow
  <2>2. DispatchTable'
    BY <1>1, <2>1 DEF Crash, TypeInv, DispatchTable
  <2>3. Workers'
    BY <1>1, RestTyped DEF Crash, TypeInv
  <2>4. OperatorTyped' /\ BudgetTyped'
    BY <1>1 DEF Crash, TypeInv, OperatorTyped, NoRemedy, BudgetTyped
  <2> QED BY <1>1, <2>2, <2>3, <2>4 DEF Crash, TypeInv
<1>2. CASE CrashControl
  <2>1. OperatorTyped' /\ BudgetTyped'
    BY <1>2 DEF CrashControl, TypeInv, OperatorTyped, NoRemedy, BudgetTyped
  <2> QED BY <1>2, <2>1 DEF CrashControl, TypeInv, ledgerVars
<1>3. ASSUME NEW o \in Pollers, Restart(o)
      PROVE  TypeInv'
  <2>1. Workers'
    BY <1>3, RestTyped DEF Restart, TypeInv
  <2> QED BY <1>3, <2>1 DEF Restart, TypeInv, ledgerVars
<1>4. ASSUME NEW a \in Attempts, Elapse(a)
      PROVE  TypeInv'
  <2>1. \A row \in DispatchRow : [row EXCEPT !.timer = "elapsed"] \in DispatchRow
    BY DEF DispatchRow
  <2>2. DispatchTable'
    BY <1>4, <2>1 DEF Elapse, TypeInv, DispatchTable
  <2> QED BY <1>4, <2>2 DEF Elapse, TypeInv
<1>5. ASSUME NEW a \in Attempts, OrphanExits(a)
      PROVE  TypeInv'
  <2>1. HistoryTyped'
    BY <1>5 DEF OrphanExits, TypeInv, HistoryTyped
  <2> QED BY <1>5, <2>1 DEF OrphanExits, TypeInv, ledgerVars
<1> QED BY <1>1, <1>2, <1>3, <1>4, <1>5 DEF Environment

\* Every step, and every stutter, keeps the type invariant.
LEMMA StepTyped == TypeInv /\ [Next]_vars => TypeInv'
<1> SUFFICES ASSUME TypeInv, [Next]_vars PROVE TypeInv'
  OBVIOUS
<1>1. CASE \E o \in Pollers : SchedulerStep(o)
  BY <1>1, ReconcileStepTyped, PreparationStepTyped, RunnerStepTyped,
     ResultStepTyped DEF SchedulerStep
<1>2. CASE OperatorStep
  BY <1>2, OperatorStepTyped
<1>3. CASE Environment
  BY <1>3, EnvironmentTyped
<1>4. CASE UNCHANGED vars
  BY <1>4, Unchanged DEF vars, ledgerVars, history, budget, TypeInv
<1> QED BY <1>1, <1>2, <1>3, <1>4 DEF Next

\* Every reachable state is well formed, for any number of executions, attempts
\* and schedulers: what each transaction of ledger.py writes is a status the
\* others know, and a worker always knows which request it is about to open.
THEOREM TypeCorrect == Spec => []TypeOK
<1>1. Init => TypeInv
  BY InitTyped
<1>2. TypeInv /\ [Next]_vars => TypeInv'
  BY StepTyped
<1>3. TypeInv => TypeOK
  BY TypeInvTypeOK
<1> QED BY <1>1, <1>2, <1>3, PTL DEF Spec

-----------------------------------------------------------------------------
(* A runner is started only as often as it was authorized.  The bound is    *)
(* not inductive: a launch adds one to its left side.  What makes room for  *)
(* the launch is the runner's row, the only thing LiveRunner.run looks at:  *)
(* a row that allows a launch stands for an authorization not yet used.     *)

Unused(a) ==
  /\ run[a] = "none" => launches[a] = 0
  /\ run[a] = "resume_authorized" => launches[a] <= resumes[a]

LaunchInv == \A a \in Attempts : Unused(a) /\ launches[a] <= 1 + resumes[a]

runner == <<run, launches, resumes>>

\* A step that leaves the runner alone keeps the launch invariant.
LEMMA LaunchUnchanged ==
  ASSUME LaunchInv, UNCHANGED runner
  PROVE  LaunchInv'
BY DEF LaunchInv, Unused, runner

\* Nothing but the runner's own steps, its remedy and cancel touch its row or
\* count: no recovery, preparation, result or attention step does.
LEMMA RunnerLeftAlone ==
  ASSUME NEW o \in Pollers, NEW a \in Attempts,
         \/ ReconcileStep(o, a) \/ PreparationStep(o, a) \/ ResultStep(o, a)
  PROVE  UNCHANGED runner
<1> USE DEF runner, rest, history
<1>1. CASE ReconcileStep(o, a)
  BY <1>1 DEF ReconcileStep, Resume, RecoverDispatching,
     RecoverAmbiguousPreparation, RecoverCommitted, Takeover, Claim, ledgerVars
<1>2. CASE PreparationStep(o, a)
  BY <1>2 DEF PreparationStep, MarkPreparing, DeferForBudget, BeginPreparation,
     ResolveSkills, ReturnAtOnce, ResumePreparation, MarkPreparationReady,
     FailPreparation, EngineAsks, NoteEngineRequest, Defer, LinkEngineRequest,
     CommitSkillFailure, NoFailedExit, DropDispatch, MarkPrepared,
     MarkLaunchIntent, ledgerVars
<1>3. CASE ResultStep(o, a)
  BY <1>3 DEF ResultStep, RecordResult, CleanupAttempt, CommitResult,
     FinishDispatch, Stale, Raise, HoldPreparation, OpenRequest, LinkRequest,
     Escape, ledgerVars
<1> QED BY <1>1, <1>2, <1>3

\* Of the runner's steps only Launch adds to a count, and only with room for it.
LEMMA LaunchRunnerStep ==
  ASSUME TypeInv, LaunchInv, NEW o \in Pollers, NEW a \in Attempts,
         RunnerStep(o, a)
  PROVE  LaunchInv'
<1> USE DEF TypeInv, RunTable, HistoryTyped, LaunchInv, Unused, Supervised
<1>1. CASE Launch(o, a)
  BY <1>1 DEF Launch
<1>2. CASE NoLaunch(o, a)
  BY <1>2 DEF NoLaunch, ledgerVars, rest, history
<1>3. CASE RunnerReturns(o, a)
  BY <1>3 DEF RunnerReturns
<1>4. CASE RunnerAsks(o, a)
  BY <1>4 DEF RunnerAsks
<1>5. CASE MarkWaitingInput(o, a)
  BY <1>5 DEF MarkWaitingInput
<1>6. CASE RaiseQuestion(o, a)
  BY <1>6 DEF RaiseQuestion
<1> QED BY <1>1, <1>2, <1>3, <1>4, <1>5, <1>6 DEF RunnerStep

\* An answer to a runner's question authorizes one more launch; cancel none.
LEMMA LaunchOperatorStep ==
  ASSUME TypeInv, LaunchInv, OperatorStep
  PROVE  LaunchInv'
<1>1. ASSUME NEW a \in Attempts, NEW r \in {"retry", "other"}, RemedyRunner(a, r)
      PROVE  LaunchInv'
  BY <1>1 DEF RemedyRunner, TypeInv, RunTable, HistoryTyped, LaunchInv, Unused
<1>2. ASSUME NEW a \in Attempts, ControlCancel(a)
      PROVE  LaunchInv'
  BY <1>2 DEF ControlCancel, TerminalizeCanceledAttempt, Serving, history,
     TypeInv, RunTable, HistoryTyped, LaunchInv, Unused
<1>3. CASE UNCHANGED runner
  BY <1>3, LaunchUnchanged
<1> QED BY <1>1, <1>2, <1>3
    DEF OperatorStep, HumanTransition, ControlTransition, RemedyScheduler,
        RemedyEngine, ResolveEngineRequest, Serving, history, runner

\* Every step, and every stutter, keeps the launch invariant.
LEMMA LaunchStep == TypeInv /\ LaunchInv /\ [Next]_vars => LaunchInv'
<1> SUFFICES ASSUME TypeInv, LaunchInv, [Next]_vars PROVE LaunchInv'
  OBVIOUS
<1>1. ASSUME NEW o \in Pollers, SchedulerStep(o)
      PROVE  LaunchInv'
  BY <1>1, RunnerLeftAlone, LaunchUnchanged, LaunchRunnerStep DEF SchedulerStep
<1>2. CASE OperatorStep
  BY <1>2, LaunchOperatorStep
<1>3. CASE Environment
  <2>1. UNCHANGED runner
    BY <1>3 DEF Environment, Crash, CrashControl, Restart, Elapse, OrphanExits,
       runner, ledgerVars, rest, history
  <2> QED BY <2>1, LaunchUnchanged
<1>4. CASE UNCHANGED vars
  <2>1. UNCHANGED runner
    BY <1>4 DEF vars, runner, ledgerVars, history
  <2> QED BY <2>1, LaunchUnchanged
<1> QED BY <1>1, <1>2, <1>3, <1>4 DEF Next

\* A runner is started once, and once more for every resumption the operator
\* authorized: whatever crashes, faults, lease expiries, replays and competing
\* schedulers there are, and in any order.
THEOREM LaunchesAreAuthorized == Spec => []LaunchesAuthorized
<1>1. Init => LaunchInv
  BY DEF Init, LedgerInit, LaunchInv, Unused
<1>2. Init => TypeInv
  BY InitTyped
<1>3. TypeInv /\ [Next]_vars => TypeInv'
  BY StepTyped
<1>4. TypeInv /\ LaunchInv /\ [Next]_vars => LaunchInv'
  BY LaunchStep
<1>5. LaunchInv => LaunchesAuthorized
  BY DEF LaunchInv, LaunchesAuthorized
<1> QED BY <1>1, <1>2, <1>3, <1>4, <1>5, PTL DEF Spec

-----------------------------------------------------------------------------
(* The workflow.                                                            *)

\* An attempt has a reason to be over exactly when it is, and its execution is
\* at work while it is active and at a terminal state once it was canceled.
Closing(a) ==
  /\ attempt[a].left = "none" <=> attempt[a].status # "completed"
  /\ Active(a) => attempt[a].of \in Executions /\ execution[attempt[a].of] = "work"
  /\ attempt[a].left = "cancel" =>
       attempt[a].of \in Executions /\ execution[attempt[a].of] = "terminal"

\* An active or canceled attempt is the last of its execution: nothing starts
\* another one after it.
Holding(a) == Active(a) \/ attempt[a].left = "cancel"

\* No two attempts are the last of one execution.
WorkflowInv ==
  /\ \A a \in Attempts : Closing(a)
  /\ \A a, b \in Attempts :
       Holding(a) /\ Holding(b) /\ attempt[a].of = attempt[b].of => a = b

\* A remedy is half done only while the worker is where the pump may run.
RemedyInv ==
  operator # NoRemedy =>
    /\ operator.a \in Attempts /\ operator.remedy # "none"
    /\ \A o \in Pollers : worker[o].at \in {"idle", "running", "down"}

-----------------------------------------------------------------------------
(* The worker: what holds of attempt a while worker o is at a step for it.  *)

\* Before its fenced writes the worker serves an active attempt.  A supervised
\* runner may find its attempt canceled, but not moved on otherwise; a question
\* is asked for an attempt that may be over, but not canceled.
InWorkflow(o, a) ==
  LET at == worker[o].at IN
  /\ at \in {"running", "record"} => Active(a) \/ attempt[a].left = "cancel"
  /\ at \in {"attend", "link"} => attempt[a].status # "none" /\ attempt[a].left # "cancel"
  /\ at = "drop" => attempt[a].left = "skill"
  /\ at = "finish" => attempt[a].left = "result"
  /\ at \in {"claimed", "prepare", "preparing", "noting", "ready", "busy",
            "blocked", "skill", "prepared", "launch", "asking", "asked",
            "cleanup", "uncleaned", "unclean", "commit"} => Active(a)

\* The status of the dispatch row follows the worker, its claim token is the one
\* the worker knows, and a worker asks under the name and from the safe step of
\* the status.
InLedger(o, a) ==
  LET at == worker[o].at
      status == dispatch[a].status
  IN
  /\ at = "claimed" =>
       /\ worker[o].path # "replay"
       /\ status = "claimed" /\ o \in dispatch[a].tokens
  /\ at \in {"prepare", "preparing", "noting"} =>
       status = IF worker[o].path = "replay" THEN "result_ready" ELSE "preparing"
  /\ at \in {"ready", "busy", "blocked", "skill", "drop"} =>
       worker[o].path # "replay" /\ status = "preparing"
  /\ at = "prepared" => status = "prepared" /\ o \in dispatch[a].tokens
  /\ at \in {"launch", "running", "asking", "asked", "record"} /\ Active(a) =>
       status = "dispatching" /\ o \in dispatch[a].tokens
  /\ at \in {"cleanup", "uncleaned", "unclean", "commit", "finish"} =>
       status = "result_ready"
  /\ at \in {"attend", "link"} =>
       /\ status \in Unfinished
       /\ worker[o].category = "ambiguous-dispatch" <=> status = "dispatching"
       /\ worker[o].phase = "result_ready" <=> status = "result_ready"

\* A request is open before anything refers to it.
InAttention(o, a) ==
  LET at == worker[o].at IN
  /\ at = "link" => Open(a, worker[o].category)
  /\ at \in {"noting", "blocked", "uncleaned", "unclean"} => Open(a, "engine")
  /\ at \in {"asking", "asked"} => Open(a, "runner")

\* The runner row and the process, as supervision leaves them.
InRunner(o, a) ==
  LET at == worker[o].at IN
  /\ at = "running" /\ Active(a) => run[a] = "running"
  /\ at = "asking" => run[a] = "running"
  /\ at = "asked" => run[a] = "waiting_input"
  /\ at \in {"launch", "record"} => ~child[a] /\ run[a] # "waiting_input"

\* Everything a worker relies on.
InStep(o, a) ==
  InWorkflow(o, a) /\ InLedger(o, a) /\ InAttention(o, a) /\ InRunner(o, a)

\* A worker that is not resting works on an attempt it can rely on.
StepInv ==
  \A o \in Pollers :
    /\ worker[o].at \notin {"idle", "down"} => worker[o].a \in Attempts
    /\ \A a \in Attempts : worker[o].a = a => InStep(o, a)

-----------------------------------------------------------------------------
(* The rows of one attempt.                                                 *)

\* An attempt that does not exist has no rows.
Unborn(a) ==
  attempt[a].status = "none" =>
    /\ dispatch[a].status = "none" /\ ~dispatch[a].result
    /\ run[a] = "none"

\* Cancel leaves nothing open; this is CanceledIsClosed for one attempt.
Canceled(a) ==
  attempt[a].left = "cancel" =>
    /\ dispatch[a].status \in {"none", "completed", "superseded"}
    /\ \A c \in Categories : ~Open(a, c)
    /\ run[a] \notin {"running", "waiting_input", "resume_authorized"}

\* A row in attention nobody answered links an open request.
Answerable(a) ==
  dispatch[a].status = "attention" /\ dispatch[a].remedy = "none" =>
    dispatch[a].link \in Categories /\ Open(a, dispatch[a].link)

\* The dispatch is at its result, or asks from there.
AtResult(a) ==
  \/ dispatch[a].status = "result_ready"
  \/ dispatch[a].status = "attention" /\ dispatch[a].phase = "result_ready"

\* An active attempt is at its result exactly when the result is durable.
Stored(a) ==
  /\ AtResult(a) => dispatch[a].result
  /\ Active(a) /\ dispatch[a].result => AtResult(a)

\* A runner that waits for an answer has its request open, and its dispatch asks
\* before the result, under a name that keeps a retry possible or refuses it.
Waiting(a) ==
  run[a] = "waiting_input" =>
    /\ Open(a, "runner")
    /\ Active(a) /\ dispatch[a].status # "dispatching" =>
         /\ dispatch[a].status = "attention" /\ dispatch[a].remedy = "none"
         /\ dispatch[a].phase # "result_ready"
         /\ dispatch[a].link \in {"runner", "ambiguous-dispatch"}

\* A process may live on only under a launch intent: while the row says so, or
\* asks for nothing but cancel, or after the cancel.
Alive(a) ==
  child[a] =>
    \/ attempt[a].left = "cancel"
    \/ /\ Active(a)
       /\ \/ dispatch[a].status = "dispatching"
          \/ /\ dispatch[a].status = "attention" /\ dispatch[a].remedy = "none"
             /\ dispatch[a].link = "ambiguous-dispatch"

\* The rows of every attempt.
RowInv ==
  \A a \in Attempts :
    Unborn(a) /\ Canceled(a) /\ Answerable(a) /\ Stored(a) /\ Waiting(a) /\ Alive(a)

\* The inductive invariant.
SafetyInv == WorkflowInv /\ RemedyInv /\ StepInv /\ RowInv

\* An empty ledger and resting workers satisfy it.
LEMMA InitSafe == Init => SafetyInv
<1> SUFFICES ASSUME Init PROVE SafetyInv
  OBVIOUS
<1> USE DEF Init, LedgerInit
<1>1. WorkflowInv
  BY DEF WorkflowInv, Closing, Holding, Active
<1>2. RemedyInv
  BY DEF RemedyInv
<1>3. StepInv
  BY DEF StepInv, InStep, InWorkflow, InLedger, InAttention, InRunner, Idle
<1>4. RowInv
  BY DEF RowInv, Unborn, Canceled, Answerable, AtResult, Stored, Waiting, Alive,
     Active, Open, NoDispatch
<1> QED BY <1>1, <1>2, <1>3, <1>4 DEF SafetyInv

-----------------------------------------------------------------------------
(* What a step of a worker writes into its control state.                   *)

\* A worker that goes on keeps its attempt, its path and its request.
LEMMA GoWrites ==
  ASSUME WorkerTable, NEW o \in Pollers, NEW step, Go(o, step)
  PROVE  /\ worker'[o].at = step
         /\ worker'[o].a = worker[o].a /\ worker'[o].path = worker[o].path
         /\ worker'[o].category = worker[o].category
         /\ worker'[o].phase = worker[o].phase
<1>1. \A w \in WorkerState :
        LET new == [w EXCEPT !.at = step]
        IN  /\ new.at = step /\ new.a = w.a /\ new.path = w.path
            /\ new.category = w.category /\ new.phase = w.phase
  BY DEF WorkerState
<1> QED BY <1>1 DEF WorkerTable, Go

\* A worker that has finished its turn, or died, works on nothing.
LEMMA RestWrites ==
  ASSUME WorkerTable, NEW o \in Pollers, NEW w \in {Idle, Down},
         worker' = [worker EXCEPT ![o] = w]
  PROVE  worker'[o].at \in {"idle", "down"}
<1>1. Idle.at = "idle" /\ Down.at = "down"
  BY DEF Idle, Down
<1> QED BY <1>1 DEF WorkerTable

\* A turn begins with an attempt, a path and a step.
LEMMA TurnWrites ==
  ASSUME WorkerTable, NEW o \in Pollers, NEW a, NEW path, NEW step,
         Turn(o, a, path, step)
  PROVE  worker'[o].at = step /\ worker'[o].a = a /\ worker'[o].path = path
BY DEF WorkerTable, Turn, Idle

-----------------------------------------------------------------------------

\* A step created attempt b.
Born(b) ==
  /\ attempt[b].status = "none"
  /\ attempt'[b].status = "active" /\ attempt'[b].left = "none"

\* accept_transition ends the attempt it is given, may create one, and leaves
\* every other attempt alone.
LEMMA EndedBy ==
  ASSUME TypeInv, WorkflowInv, NEW a \in Attempts, Active(a),
         NEW why \in {"result", "skill", "operator"},
         AcceptTransition(attempt[a].of, Ended(a, why))
  PROVE  /\ WorkflowInv'
         /\ attempt'[a].status = "completed" /\ attempt'[a].left = why
         /\ \A b \in Attempts \ {a} : attempt'[b] = attempt[b] \/ Born(b)
<1> DEFINE e == attempt[a].of
<1>1. e \in Executions /\ execution[e] = "work"
  BY DEF WorkflowInv, Closing
<1>2. \A b \in Attempts : b # a /\ Holding(b) => attempt[b].of # e
  BY DEF WorkflowInv, Holding
<1>3. /\ Ended(a, why) \in [Attempts -> AttemptRow]
      /\ Ended(a, why)[a].status = "completed" /\ Ended(a, why)[a].left = why
      /\ \A b \in Attempts \ {a} : Ended(a, why)[b] = attempt[b]
  BY EndedTyped, EndedWrites DEF TypeInv, AttemptTable
<1>4. CASE /\ \E kind \in {"human", "terminal"} :
                execution' = [execution EXCEPT ![e] = kind]
           /\ attempt' = Ended(a, why)
  <2>1. WorkflowInv'
    BY <1>1, <1>2, <1>3, <1>4
       DEF WorkflowInv, Closing, Holding, Active, TypeInv, ExecutionTable
  <2> QED BY <1>3, <1>4, <2>1
<1>5. ASSUME NEW b \in Attempts, Fresh(b),
             execution' = [execution EXCEPT ![e] = "work"],
             attempt' = [Ended(a, why) EXCEPT ![b] =
                           [status |-> "active", of |-> e, left |-> "none"]]
      PROVE  /\ WorkflowInv'
             /\ attempt'[a].status = "completed" /\ attempt'[a].left = why
             /\ \A c \in Attempts \ {a} : attempt'[c] = attempt[c] \/ Born(c)
  <2>1. b # a /\ attempt[b].status = "none"
    BY <1>5 DEF Fresh, Active
  <2>2. WorkflowInv'
    BY <1>1, <1>2, <1>3, <1>5, <2>1
       DEF WorkflowInv, Closing, Holding, Active, TypeInv, ExecutionTable
  <2> QED BY <1>3, <1>5, <2>1, <2>2 DEF Born
<1> QED BY <1>4, <1>5 DEF AcceptTransition

\* Cancel ends one attempt and its execution and creates none.
LEMMA CanceledBy ==
  ASSUME TypeInv, WorkflowInv, NEW a \in Attempts, Active(a),
         attempt' = Ended(a, "cancel"),
         execution' = [execution EXCEPT ![attempt[a].of] = "terminal"]
  PROVE  /\ WorkflowInv'
         /\ attempt'[a].status = "completed" /\ attempt'[a].left = "cancel"
         /\ \A b \in Attempts \ {a} : attempt'[b] = attempt[b]
<1>1. /\ attempt'[a].status = "completed" /\ attempt'[a].left = "cancel"
      /\ attempt'[a].of = attempt[a].of
      /\ \A b \in Attempts \ {a} : attempt'[b] = attempt[b]
  BY EndedWrites DEF TypeInv, AttemptTable
<1>2. attempt[a].of \in Executions
  BY DEF WorkflowInv, Closing
<1>3. \A b \in Attempts : b # a /\ Holding(b) => attempt[b].of # attempt[a].of
  BY DEF WorkflowInv, Holding
<1>4. WorkflowInv'
  BY <1>1, <1>2, <1>3
     DEF WorkflowInv, Closing, Holding, Active, TypeInv, ExecutionTable
<1> QED BY <1>1, <1>4

-----------------------------------------------------------------------------

\* The row invariant of one attempt.
RowOf(a) ==
  Unborn(a) /\ Canceled(a) /\ Answerable(a) /\ Stored(a) /\ Waiting(a) /\ Alive(a)

\* A step on attempt a leaves the rows of every other attempt alone, or creates
\* the attempt.
Frame(a) ==
  /\ WorkflowInv'
  /\ operator' = operator
  /\ \A b \in Attempts \ {a} :
       /\ attempt'[b] = attempt[b] \/ Born(b)
       /\ dispatch'[b] = dispatch[b] /\ attention'[b] = attention[b]
       /\ run'[b] = run[b] /\ child'[b] = child[b]

\* The worker rests or can go on with attempt a.
Placed(o, a) ==
  \/ worker[o].at \in {"idle", "down"}
  \/ worker[o].a = a /\ InStep(o, a)

\* What a step of worker o for attempt a has to establish.
Outcome(o, a) == Frame(a) /\ Placed(o, a)' /\ RowOf(a)'

\* The invariant under the instance lock.
Inv == SingleWriter /\ TypeInv /\ SafetyInv

\* The parts of the invariant the step lemmas use.
LEMMA Reads ==
  ASSUME Inv
  PROVE  /\ WorkerTable /\ DispatchTable /\ AttentionTable /\ RunTable /\ HistoryTyped
         /\ WorkflowInv /\ RemedyInv /\ StepInv /\ \A b \in Attempts : RowOf(b)
BY DEF Inv, TypeInv, Workers, SafetyInv, RowInv, RowOf

\* A worker at an attempt can rely on its step and on the rows.
LEMMA AtStep ==
  ASSUME Inv, NEW o \in Pollers, NEW a \in Attempts, worker[o].a = a
  PROVE  InStep(o, a) /\ RowOf(a)
BY Reads DEF StepInv, At

\* A step that writes rows of one attempt only, and no workflow.
LEMMA Framed ==
  ASSUME Inv, NEW a \in Attempts, UNCHANGED <<attempt, execution, operator>>,
         \A b \in Attempts \ {a} :
           /\ dispatch'[b] = dispatch[b] /\ attention'[b] = attention[b]
           /\ run'[b] = run[b] /\ child'[b] = child[b]
  PROVE  Frame(a)
<1>1. WorkflowInv'
  BY Reads DEF WorkflowInv, Closing, Holding, Active
<1> QED BY <1>1 DEF Frame

\* A row a step left alone, or an attempt it created, satisfies the row
\* invariant afterwards.
LEMMA RowKept ==
  ASSUME NEW b \in Attempts, RowOf(b), TypeInv, WorkflowInv,
         attempt'[b] = attempt[b] \/ Born(b),
         dispatch'[b] = dispatch[b], attention'[b] = attention[b],
         run'[b] = run[b], child'[b] = child[b]
  PROVE  RowOf(b)'
<1>1. CASE attempt'[b] = attempt[b]
  <2>1. Active(b)' = Active(b) /\ \A c : Open(b, c)' = Open(b, c)
    BY <1>1 DEF Active, Open
  <2>2. Alive(b)'
    BY <1>1, <2>1 DEF RowOf, Alive
  <2>3. Unborn(b)' /\ Canceled(b)' /\ Answerable(b)'
    BY <1>1, <2>1 DEF RowOf, Unborn, Canceled, Answerable
  <2>4. Stored(b)' /\ Waiting(b)'
    BY <1>1, <2>1 DEF RowOf, Stored, AtResult, Waiting
  <2> QED BY <2>2, <2>3, <2>4 DEF RowOf
<1>2. CASE Born(b)
  <2>1. attempt[b].left = "none" /\ ~Active(b)
    BY <1>2 DEF Born, WorkflowInv, Closing, Active
  <2>2. ~child'[b] /\ run'[b] = "none" /\ dispatch'[b].status = "none" /\ ~dispatch'[b].result
    BY <1>2, <2>1 DEF RowOf, Born, Alive, Unborn
  <2> QED BY <1>2, <2>2
             DEF RowOf, Born, Unborn, Canceled, Answerable, AtResult, Stored,
                 Waiting, Alive
<1> QED BY <1>1, <1>2

\* One row and a frame are all rows.
LEMMA RowsSafe ==
  ASSUME Inv, NEW a, Frame(a), a \in Attempts => RowOf(a)'
  PROVE  RowInv'
<1> SUFFICES ASSUME NEW b \in Attempts PROVE RowOf(b)'
  BY DEF RowInv, RowOf
<1> QED BY RowKept, Reads DEF Frame, Inv

\* An outcome keeps the invariant: there is no other worker.
LEMMA OutcomeSafe ==
  ASSUME Inv, NEW o \in Pollers, NEW a \in Attempts, Outcome(o, a),
         operator = NoRemedy
  PROVE  SafetyInv'
<1>1. \A p \in Pollers : p = o
  BY DEF Inv, SingleWriter
<1>2. StepInv'
  <2>1. worker'[o].at \notin {"idle", "down"} => worker'[o].a \in Attempts
    BY DEF Outcome, Placed
  <2>2. ASSUME NEW b \in Attempts, worker'[o].a = b
        PROVE  InStep(o, b)'
    <3>1. CASE worker'[o].at \in {"idle", "down"}
      BY <3>1 DEF InStep, InWorkflow, InLedger, InAttention, InRunner
    <3>2. CASE worker'[o].a = a /\ InStep(o, a)'
      BY <2>2, <3>2
    <3> QED BY <3>1, <3>2 DEF Outcome, Placed
  <2> QED BY <1>1, <2>1, <2>2 DEF StepInv
<1>3. RowInv'
  BY RowsSafe DEF Outcome
<1>4. RemedyInv'
  BY DEF Outcome, Frame, RemedyInv
<1> QED BY <1>2, <1>3, <1>4 DEF SafetyInv, Outcome, Frame

\* A step that writes none of the rows the invariant is about.
LEMMA RowsUntouched ==
  ASSUME Inv, NEW a \in Attempts,
         UNCHANGED <<attempt, execution, operator, dispatch, attention, run, child>>
  PROVE  Frame(a) /\ RowOf(a)'
<1>1. Frame(a)
  BY Framed
<1> QED BY <1>1, RowKept, Reads DEF Inv

\* A worker may ask about any unfinished row nobody canceled, under the name and
\* from the safe step of its status.
MayAsk(a, category, phase) ==
  /\ attempt[a].status # "none" /\ attempt[a].left # "cancel"
  /\ dispatch[a].status \in Unfinished
  /\ category = "ambiguous-dispatch" <=> dispatch[a].status = "dispatching"
  /\ phase = "result_ready" <=> dispatch[a].status = "result_ready"

\* A worker that may ask can rely on what it needs to ask.
LEMMA AttendPlaced ==
  ASSUME NEW o \in Pollers, NEW a \in Attempts,
         worker'[o].at = "attend", worker'[o].a = a,
         MayAsk(a, worker'[o].category, worker'[o].phase),
         UNCHANGED <<attempt, dispatch>>
  PROVE  Placed(o, a)'
BY DEF MayAsk, Placed, InStep, InWorkflow, InLedger, InAttention, InRunner, Active

\* Replay, recovery and claim of a row (reconcile and the start of tick).
LEMMA ReconcileOutcome ==
  ASSUME Inv, NEW o \in Pollers, NEW a \in Attempts, ReconcileStep(o, a)
  PROVE  Outcome(o, a)
<1> USE DEF workflow, prepared, rest, history, budget
<1>row. RowOf(a)
  BY Reads
<1>at. worker[o].a = a => InStep(o, a)
  BY AtStep
<1>closing. Closing(a)
  BY Reads DEF WorkflowInv
<1>1. CASE Resume(o, a)
  <2>1. worker[o].at = "idle"
    BY <1>1 DEF Resume, Resting
  <2>2. Frame(a)
    BY <1>1, Framed, Reads, ResumeWrites, SupersedeWrites DEF Resume, OthersKept
  <2>3. dispatch[a].phase # "attention"
    BY Reads DEF DispatchTable, DispatchRow, Phases, SafePhases
  <2>4. RowOf(a)'
    BY <1>row, <1>1, <2>3, Reads, ResumeWrites, SupersedeWrites
       DEF Resume, Resumable, RowOf, Unborn, Canceled, Answerable, Stored,
           AtResult, Waiting, Alive, Active, Open
  <2> QED BY <1>1, <2>1, <2>2, <2>4 DEF Outcome, Placed, Resume
<1>2. CASE RecoverDispatching(o, a)
  <2>1. Frame(a) /\ RowOf(a)'
    BY <1>2, RowsUntouched
       DEF RecoverDispatching, Reconciling, Recoverable, Unfinished, Attend,
           WorkerTable, ledgerVars
  <2>3. MayAsk(a, worker'[o].category, worker'[o].phase)
    BY <1>row, <1>at, <1>closing, <1>2, Reads
       DEF RecoverDispatching, Reconciling, Recoverable, Unfinished, Attend,
           WorkerTable, At, MayAsk, InStep, InWorkflow, InLedger, InAttention,
           InRunner, Active, Open, RowOf, Unborn, Canceled, Closing
  <2>4. Placed(o, a)'
    BY <1>2, <2>3, Reads, AttendPlaced
       DEF RecoverDispatching, Reconciling, Recoverable, Unfinished, Attend,
           WorkerTable, ledgerVars
  <2> QED BY <2>1, <2>4 DEF Outcome
<1>3. CASE RecoverAmbiguousPreparation(o, a)
  <2>1. Frame(a) /\ RowOf(a)'
    BY <1>3, RowsUntouched
       DEF RecoverAmbiguousPreparation, Reconciling, Recoverable, Unfinished,
           Attend, WorkerTable, ledgerVars
  <2>3. MayAsk(a, worker'[o].category, worker'[o].phase)
    BY <1>row, <1>at, <1>closing, <1>3, Reads
       DEF RecoverAmbiguousPreparation, Reconciling, Recoverable, Unfinished,
           Attend, WorkerTable, At, MayAsk, InStep, InWorkflow, InLedger,
           InAttention, InRunner, Active, Open, RowOf, Unborn, Canceled, Closing
  <2>4. Placed(o, a)'
    BY <1>3, <2>3, Reads, AttendPlaced
       DEF RecoverAmbiguousPreparation, Reconciling, Recoverable, Unfinished,
           Attend, WorkerTable, ledgerVars
  <2> QED BY <2>1, <2>4 DEF Outcome
<1>4. CASE RecoverCommitted(o, a)
  <2>1. Frame(a)
    BY <1>4, Framed, Reads, CompleteWrites
       DEF RecoverCommitted, Committed, OthersKept, At
  <2>2. RowOf(a)'
    BY <1>row, <1>at, <1>closing, <1>4, Reads, CompleteWrites
       DEF RecoverCommitted, Committed, At, RowOf, Unborn, Canceled, Answerable,
           Stored, AtResult, Waiting, Alive, Active, Open, Closing
  <2>3. Placed(o, a)'
    BY <1>4 DEF RecoverCommitted, Committed, Placed, Reconciling, Resting
  <2> QED BY <2>1, <2>2, <2>3 DEF Outcome
<1>5. CASE Takeover(o, a)
  <2>1. Frame(a)
    BY <1>5, Framed, Reads, TakeoverWrites, SupersedeWrites
       DEF Takeover, Reconciling, Recoverable, Resting, OthersKept, At
  <2>2. RowOf(a)'
    BY <1>row, <1>at, <1>closing, <1>5, Reads, TakeoverWrites, SupersedeWrites
       DEF Takeover, Reconciling, Recoverable, Resting, At, RowOf, Unborn,
           Canceled, Answerable, Stored, AtResult, Waiting, Alive, Active, Open,
           Closing
  <2>3. Placed(o, a)'
    BY <1>row, <1>at, <1>closing, <1>5, Reads, TurnWrites, TakeoverWrites
       DEF Takeover, Reconciling, Recoverable, Resting, At, Placed, InStep,
           InWorkflow, InLedger, InAttention, InRunner, Active, Open, RowOf,
           Unborn, Canceled, Waiting, Alive, Closing
  <2> QED BY <2>1, <2>2, <2>3 DEF Outcome
<1>6. CASE Claim(o, a)
  <2>0. ClaimDispatch(o, a) /\ Candidate(a)
    BY <1>6 DEF Claim, ClaimDispatch
  <2>1. Frame(a)
    BY <1>6, <2>0, Framed, Reads, ClaimWrites
       DEF Claim, Resting, Categories, OthersKept, At
  <2>2. RowOf(a)'
    BY <1>row, <1>at, <1>closing, <1>6, <2>0, Reads, ClaimWrites
       DEF Claim, Resting, Categories, Candidate, Claimable, At, RowOf, Unborn,
           Canceled, Answerable, Stored, AtResult, Waiting, Alive, Active, Open,
           Closing
  <2>3. Placed(o, a)'
    BY <1>row, <1>at, <1>closing, <1>6, <2>0, Reads, TurnWrites, ClaimWrites
       DEF Claim, Resting, Categories, Candidate, Claimable, At, Placed, InStep,
           InWorkflow, InLedger, InAttention, InRunner, Active, Open, RowOf,
           Unborn, Canceled, Waiting, Alive, Closing
  <2> QED BY <2>1, <2>2, <2>3 DEF Outcome
<1> QED BY <1>1, <1>2, <1>3, <1>4, <1>5, <1>6 DEF ReconcileStep

\* Where a caller of prepare goes with each disposition.
LEMMA DisposedWrites ==
  ASSUME WorkerTable, NEW o \in Pollers, NEW a, NEW disposition,
         worker[o].a = a, Disposed(o, a, disposition)
  PROVE  /\ worker'[o].a = a
         /\ \/ /\ worker[o].path = "replay" /\ disposition = "ready"
               /\ worker'[o].at = "cleanup"
            \/ /\ worker[o].path = "replay" /\ disposition # "ready"
               /\ worker'[o].at = "attend"
               /\ worker'[o].category = "result-recovery"
               /\ worker'[o].phase = "result_ready"
            \/ /\ worker[o].path # "replay" /\ disposition = "fatal"
               /\ worker'[o].at = "attend"
               /\ worker'[o].category = "preparation-fatal"
               /\ worker'[o].phase = "preparing"
            \/ /\ worker[o].path # "replay" /\ disposition # "fatal"
               /\ worker'[o].at = disposition /\ worker'[o].path = worker[o].path
<1>1. CASE worker[o].path = "replay" /\ disposition = "ready"
  BY <1>1, GoWrites DEF Disposed
<1>2. CASE worker[o].path = "replay" /\ disposition # "ready"
  BY <1>2 DEF Disposed, Attend, WorkerTable
<1>3. CASE worker[o].path # "replay" /\ disposition = "fatal"
  BY <1>3 DEF Disposed, Attend, WorkerTable
<1>4. CASE worker[o].path # "replay" /\ disposition # "fatal"
  BY <1>4, GoWrites DEF Disposed
<1> QED BY <1>1, <1>2, <1>3, <1>4

\* The two ways a disposition is placed.
LEMMA DisposedPlaced ==
  ASSUME Inv, NEW o \in Pollers, NEW a \in Attempts, NEW disposition,
         worker[o].a = a, Disposed(o, a, disposition), Active(a),
         InStep(o, a),
         worker[o].at \in {"prepare", "preparing", "noting"},
         disposition \in {"ready", "busy", "skill", "blocked", "fatal"},
         disposition = "blocked" => Open(a, "engine"),
         UNCHANGED <<attempt, dispatch, attention, run, child>>
  PROVE  Placed(o, a)'
<1>1. Closing(a) /\ WorkerTable
  BY Reads DEF WorkflowInv
<1>2. dispatch[a].status = IF worker[o].path = "replay" THEN "result_ready" ELSE "preparing"
  BY DEF InStep, InLedger
<1>3. CASE worker'[o].at = "attend"
  <2>1. MayAsk(a, worker'[o].category, worker'[o].phase) /\ worker'[o].a = a
    BY <1>1, <1>2, <1>3, DisposedWrites DEF MayAsk, Closing, Active, Unfinished
  <2> QED BY <2>1, <1>3, AttendPlaced
<1>4. CASE worker'[o].at = "cleanup" /\ worker[o].path = "replay"
  <2>1. worker'[o].a = a
    BY <1>1, DisposedWrites
  <2> QED BY <1>2, <1>4, <2>1
      DEF Placed, InStep, InWorkflow, InLedger, InAttention, InRunner, Active
<1>5. CASE worker'[o].at = disposition /\ worker[o].path # "replay"
  <2>1. worker'[o].a = a /\ worker'[o].path # "replay"
    BY <1>1, <1>5, DisposedWrites
  <2> QED BY <1>2, <1>5, <2>1
             DEF Placed, InStep, InWorkflow, InLedger, InAttention, InRunner,
                 Active, Open
<1> QED BY <1>1, <1>3, <1>4, <1>5, DisposedWrites

\* Preparation of an attempt up to its launch intent.
LEMMA PreparationOutcome ==
  ASSUME Inv, NEW o \in Pollers, NEW a \in Attempts, PreparationStep(o, a)
  PROVE  Outcome(o, a)
<1> USE DEF workflow, prepared, rest, history, budget
<1>row. RowOf(a)
  BY Reads
<1>at. worker[o].a = a => InStep(o, a)
  BY AtStep
<1>closing. Closing(a)
  BY Reads DEF WorkflowInv
<1>1. CASE MarkPreparing(o, a)
  <2>1. Frame(a)
    BY <1>1, Framed, Reads, SetStatusWrites
       DEF MarkPreparing, MarkDispatchPreparing, Holds, OthersKept, At, Preparing
  <2>2. RowOf(a)'
    BY <1>row, <1>at, <1>closing, <1>1, Reads, SetStatusWrites
       DEF MarkPreparing, MarkDispatchPreparing, Holds, At, Preparing, RowOf,
           Unborn, Canceled, Answerable, Stored, AtResult, Waiting, Alive, Active,
           Open, Closing
  <2>3. Placed(o, a)'
    BY <1>row, <1>at, <1>closing, <1>1, Reads, GoWrites, SetStatusWrites
       DEF MarkPreparing, MarkDispatchPreparing, Holds, At, Preparing, Placed,
           InStep, InWorkflow, InLedger, InAttention, InRunner, Active, Open,
           RowOf, Unborn, Canceled, Waiting, Alive, Closing
  <2> QED BY <2>1, <2>2, <2>3 DEF Outcome
<1>2. CASE DeferForBudget(o, a)
  <2>1. Frame(a)
    BY <1>2, Framed, Reads, DeferWrites DEF DeferForBudget, Holds, OthersKept, At
  <2>2. RowOf(a)'
    BY <1>row, <1>at, <1>closing, <1>2, Reads, DeferWrites
       DEF DeferForBudget, Holds, At, RowOf, Unborn, Canceled, Answerable, Stored,
           AtResult, Waiting, Alive, Active, Open, Closing
  <2>3. Placed(o, a)'
    BY <1>2, Reads, RestWrites DEF DeferForBudget, Holds, Placed, Rest
  <2> QED BY <2>1, <2>2, <2>3 DEF Outcome
<1>3. CASE BeginPreparation(o, a)
  <2>1. Frame(a) /\ RowOf(a)'
    BY <1>3, RowsUntouched DEF BeginPreparation, ledgerVars
  <2>3. Placed(o, a)'
    BY <1>row, <1>at, <1>closing, <1>3, Reads
       DEF BeginPreparation, At, Placed, InStep, InWorkflow, InLedger,
           InAttention, InRunner, Active, Open, RowOf, Unborn, Canceled, Waiting,
           Alive, Closing
  <2> QED BY <2>1, <2>3 DEF Outcome
<1>4. CASE ResolveSkills(o, a)
  <2>1. Frame(a) /\ RowOf(a)'
    BY <1>4, RowsUntouched DEF ResolveSkills, ledgerVars
  <2>3. Placed(o, a)'
    BY <1>at, <1>4, Reads, DisposedPlaced
       DEF ResolveSkills, At, Preparing, ledgerVars, InStep, InAttention
  <2> QED BY <2>1, <2>3 DEF Outcome
<1>5. CASE ReturnAtOnce(o, a)
  <2>1. Frame(a) /\ RowOf(a)'
    BY <1>5, RowsUntouched DEF ReturnAtOnce, ledgerVars
  <2>3. Placed(o, a)'
    BY <1>at, <1>5, Reads, DisposedPlaced
       DEF ReturnAtOnce, At, Preparing, ledgerVars, InStep, InAttention
  <2> QED BY <2>1, <2>3 DEF Outcome
<1>6. CASE ResumePreparation(o, a)
  <2>1. Frame(a) /\ RowOf(a)'
    BY <1>6, RowsUntouched DEF ResumePreparation, ledgerVars
  <2>3. Placed(o, a)'
    BY <1>row, <1>at, <1>closing, <1>6, Reads, GoWrites
       DEF ResumePreparation, At, Preparing, Placed, InStep, InWorkflow, InLedger,
           InAttention, InRunner, Active, Open, RowOf, Unborn, Canceled, Waiting,
           Alive, Closing
  <2> QED BY <2>1, <2>3 DEF Outcome
<1>7. CASE MarkPreparationReady(o, a)
  <2>1. Frame(a) /\ RowOf(a)'
    BY <1>7, RowsUntouched DEF MarkPreparationReady, ledgerVars
  <2>3. Placed(o, a)'
    BY <1>at, <1>7, Reads, DisposedPlaced
       DEF MarkPreparationReady, At, Preparing, ledgerVars, InStep, InAttention
  <2> QED BY <2>1, <2>3 DEF Outcome
<1>8. CASE FailPreparation(o, a)
  <2>1. Frame(a) /\ RowOf(a)'
    BY <1>8, RowsUntouched DEF FailPreparation, ledgerVars
  <2>3. Placed(o, a)'
    BY <1>at, <1>8, Reads, DisposedPlaced
       DEF FailPreparation, At, Preparing, ledgerVars, InStep, InAttention
  <2> QED BY <2>1, <2>3 DEF Outcome
<1>9. CASE EngineAsks(o, a)
  <2>1. /\ OpenAttention(a, "engine", "open") /\ Active(a) /\ worker[o].a = a
        /\ UNCHANGED <<attempt, execution, dispatch, run, child, operator>>
    BY <1>9 DEF EngineAsks, Preparing, At
  <2>2. /\ \A b \in Attempts \ {a} : attention'[b] = attention[b]
        /\ Open(a, "engine")' /\ \A c \in Categories : Open(a, c) => Open(a, c)'
    BY <2>1, OpenAttentionWrites, Reads DEF Categories
  <2>3. Frame(a)
    BY <2>1, <2>2, Framed
  <2>4. RowOf(a)'
    <3>1. Waiting(a)'
      BY <1>row, <2>1, <2>2 DEF RowOf, Waiting, Active, Categories
    <3>2. Canceled(a)'
      BY <1>closing, <2>1 DEF Closing, Canceled, Active
    <3> QED BY <1>row, <2>1, <2>2, <3>1, <3>2
        DEF RowOf, Unborn, Answerable, Stored, AtResult, Alive, Active
  <2>5. Placed(o, a)'
    BY <1>at, <1>9, <2>1, <2>2, GoWrites, Reads
       DEF EngineAsks, Preparing, At, Placed, InStep, InWorkflow, InLedger,
           InAttention, InRunner, Active
  <2> QED BY <2>3, <2>4, <2>5 DEF Outcome
<1>10. CASE NoteEngineRequest(o, a)
  <2>1. Frame(a) /\ RowOf(a)'
    BY <1>10, RowsUntouched DEF NoteEngineRequest
  <2>2. ASSUME Preparing(o, a, "noting"), Disposed(o, a, "blocked")
        PROVE  Placed(o, a)'
    BY <1>at, <1>10, <2>2, DisposedPlaced
       DEF NoteEngineRequest, Preparing, At, InStep, InAttention
  <2>3. ASSUME Preparing(o, a, "uncleaned"), Go(o, "unclean")
        PROVE  Placed(o, a)'
    BY <1>at, <1>10, <2>3, GoWrites, Reads DEF NoteEngineRequest, Preparing, At,
       Placed, InStep, InWorkflow, InLedger, InAttention, InRunner, Active, Open
  <2> QED BY <1>10, <2>1, <2>2, <2>3 DEF Outcome, NoteEngineRequest
<1>11. CASE Defer(o, a)
  <2>1. Frame(a)
    BY <1>11, Framed, Reads, DeferWrites
       DEF Defer, InPreparing, OthersKept, At, Preparing
  <2>2. RowOf(a)'
    BY <1>row, <1>at, <1>closing, <1>11, Reads, DeferWrites
       DEF Defer, InPreparing, At, Preparing, RowOf, Unborn, Canceled, Answerable,
           Stored, AtResult, Waiting, Alive, Active, Open, Closing
  <2>3. Placed(o, a)'
    BY <1>11, Reads, RestWrites DEF Defer, InPreparing, Placed, Rest
  <2> QED BY <2>1, <2>2, <2>3 DEF Outcome
<1>12. CASE LinkEngineRequest(o, a)
  <2>1. Frame(a)
    BY <1>12, Framed, Reads, MarkAttentionWrites
       DEF LinkEngineRequest, Unfinished, Categories, OthersKept, At
  <2>2. RowOf(a)'
    BY <1>row, <1>at, <1>closing, <1>12, Reads, MarkAttentionWrites
       DEF LinkEngineRequest, Unfinished, Categories, At, RowOf, Unborn, Canceled,
           Answerable, Stored, AtResult, Waiting, Alive, Active, Open, Closing,
           InStep, InWorkflow, InLedger, InAttention
  <2>3. Placed(o, a)'
    BY <1>12, Reads, RestWrites
       DEF LinkEngineRequest, Unfinished, Categories, Placed, Rest
  <2> QED BY <2>1, <2>2, <2>3 DEF Outcome
<1>13. CASE CommitSkillFailure(o, a)
  <2>1. Active(a) /\ AcceptTransition(attempt[a].of, Ended(a, "skill"))
    BY <1>13 DEF CommitSkillFailure
  <2>2. /\ worker[o].a = a /\ worker[o].at = "skill" /\ Go(o, "drop")
        /\ UNCHANGED <<dispatch, attention, run, child, operator>>
    BY <1>13 DEF CommitSkillFailure, At
  <2>3. Frame(a) /\ attempt'[a].status = "completed" /\ attempt'[a].left = "skill"
    BY <2>1, <2>2, EndedBy, Reads DEF Frame, Born, Inv
  <2>4. RowOf(a)'
    BY <1>row, <1>at, <2>1, <2>2, <2>3
       DEF InStep, InLedger, RowOf, Unborn, Canceled, Answerable, Stored,
           AtResult, Waiting, Alive, Active, Open
  <2>5. Placed(o, a)'
    BY <1>at, <2>1, <2>2, <2>3, GoWrites, Reads DEF Placed, InStep, InWorkflow,
       InLedger, InAttention, InRunner
  <2> QED BY <2>3, <2>4, <2>5 DEF Outcome
<1>14. CASE NoFailedExit(o, a)
  <2>1. Frame(a) /\ RowOf(a)'
    BY <1>14, RowsUntouched
       DEF NoFailedExit, Unfinished, Attend, WorkerTable, ledgerVars
  <2>3. MayAsk(a, worker'[o].category, worker'[o].phase)
    BY <1>row, <1>at, <1>closing, <1>14, Reads
       DEF NoFailedExit, Unfinished, Attend, WorkerTable, At, MayAsk, InStep,
           InWorkflow, InLedger, InAttention, InRunner, Active, Open, RowOf,
           Unborn, Canceled, Closing
  <2>4. Placed(o, a)'
    BY <1>14, <2>3, Reads, AttendPlaced
       DEF NoFailedExit, Unfinished, Attend, WorkerTable, ledgerVars
  <2> QED BY <2>1, <2>4 DEF Outcome
<1>15. CASE DropDispatch(o, a)
  <2>1. Frame(a)
    BY <1>15, Framed, Reads, SupersedeWrites DEF DropDispatch, OthersKept, At
  <2>2. RowOf(a)'
    BY <1>row, <1>at, <1>closing, <1>15, Reads, SupersedeWrites
       DEF DropDispatch, At, RowOf, Unborn, Canceled, Answerable, Stored,
           AtResult, Waiting, Alive, Active, Open, Closing, InStep, InWorkflow
  <2>3. Placed(o, a)'
    BY <1>15, Reads, RestWrites DEF DropDispatch, Placed, Rest
  <2> QED BY <2>1, <2>2, <2>3 DEF Outcome
<1>16. CASE MarkPrepared(o, a)
  <2>1. Frame(a)
    BY <1>16, Framed, Reads, PreparedWrites
       DEF MarkPrepared, InPreparing, OthersKept, At, Preparing
  <2>2. RowOf(a)'
    BY <1>row, <1>at, <1>closing, <1>16, Reads, PreparedWrites
       DEF MarkPrepared, InPreparing, At, Preparing, RowOf, Unborn, Canceled,
           Answerable, Stored, AtResult, Waiting, Alive, Active, Open, Closing
  <2>3. Placed(o, a)'
    BY <1>row, <1>at, <1>closing, <1>16, Reads, GoWrites, PreparedWrites
       DEF MarkPrepared, InPreparing, At, Preparing, Placed, InStep, InWorkflow,
           InLedger, InAttention, InRunner, Active, Open, RowOf, Unborn, Canceled,
           Waiting, Alive, Closing
  <2> QED BY <2>1, <2>2, <2>3 DEF Outcome
<1>17. CASE MarkLaunchIntent(o, a)
  <2>1. Frame(a)
    BY <1>17, Framed, Reads, SetStatusWrites
       DEF MarkLaunchIntent, MarkDispatching, Holds, OthersKept, At
  <2>2. RowOf(a)'
    BY <1>row, <1>at, <1>closing, <1>17, Reads, SetStatusWrites
       DEF MarkLaunchIntent, MarkDispatching, Holds, At, RowOf, Unborn, Canceled,
           Answerable, Stored, AtResult, Waiting, Alive, Active, Open, Closing
  <2>3. Placed(o, a)'
    BY <1>row, <1>at, <1>closing, <1>17, Reads, GoWrites, SetStatusWrites
       DEF MarkLaunchIntent, MarkDispatching, Holds, At, Placed, InStep,
           InWorkflow, InLedger, InAttention, InRunner, Active, Open, RowOf,
           Unborn, Canceled, Waiting, Alive, Closing
  <2> QED BY <2>1, <2>2, <2>3 DEF Outcome
<1> QED BY <1>1, <1>2, <1>3, <1>4, <1>5, <1>6, <1>7, <1>8, <1>9, <1>10, <1>11,
           <1>12, <1>13, <1>14, <1>15, <1>16, <1>17
           DEF PreparationStep

\* Launch and supervision of a runner up to its return or its question.
LEMMA RunnerOutcome ==
  ASSUME Inv, NEW o \in Pollers, NEW a \in Attempts, RunnerStep(o, a)
  PROVE  Outcome(o, a)
<1> USE DEF workflow, prepared, rest, history, budget
<1>row. RowOf(a)
  BY Reads
<1>at. worker[o].a = a => InStep(o, a)
  BY AtStep
<1>closing. Closing(a)
  BY Reads DEF WorkflowInv
<1>1. CASE Launch(o, a)
  <2>1. /\ Active(a) /\ worker[o].a = a /\ worker[o].at = "launch" /\ Go(o, "running")
        /\ run' = [run EXCEPT ![a] = "running"] /\ child' = [child EXCEPT ![a] = TRUE]
        /\ UNCHANGED <<attempt, execution, dispatch, attention, operator>>
    BY <1>1 DEF Launch, At, Supervised
  <2>2. Frame(a) /\ run'[a] = "running"
    BY <2>1, Framed, Reads DEF RunTable, HistoryTyped
  <2>3. dispatch[a].status = "dispatching" /\ o \in dispatch[a].tokens
    BY <1>at, <2>1 DEF InStep, InLedger
  <2>4. RowOf(a)'
    BY <1>row, <1>closing, <2>1, <2>2, <2>3
       DEF RowOf, Unborn, Canceled, Answerable, Stored, AtResult, Waiting, Alive,
           Active, Open, Closing
  <2>5. Placed(o, a)'
    BY <2>1, <2>2, <2>3, GoWrites, Reads DEF Placed, InStep, InWorkflow, InLedger,
       InAttention, InRunner, Active
  <2> QED BY <2>2, <2>4, <2>5 DEF Outcome
<1>2. CASE NoLaunch(o, a)
  <2>1. Frame(a) /\ RowOf(a)'
    BY <1>2, RowsUntouched DEF NoLaunch, ledgerVars
  <2>2. worker[o].a = a /\ worker[o].at = "launch" /\ Go(o, "record")
    BY <1>at, <1>2 DEF NoLaunch, At, InStep, InRunner
  <2>3. Placed(o, a)'
    BY <1>at, <1>2, <2>2, GoWrites, Reads
       DEF NoLaunch, ledgerVars, Placed, InStep, InWorkflow, InLedger,
           InAttention, InRunner, Active
  <2> QED BY <2>1, <2>3 DEF Outcome
<1>3. CASE RunnerReturns(o, a)
  <2>1. /\ worker[o].a = a /\ worker[o].at = "running" /\ Go(o, "record")
        /\ child' = [child EXCEPT ![a] = FALSE]
        /\ UNCHANGED <<attempt, execution, dispatch, attention, operator>>
    BY <1>3 DEF RunnerReturns, At, Supervised
  <2>2. /\ \A b \in Attempts \ {a} : run'[b] = run[b] /\ child'[b] = child[b]
        /\ ~child'[a]
    BY <1>3, Reads DEF RunnerReturns, RunTable, HistoryTyped
  <2>3. run'[a] \in {"result_ready", "failed", "canceled"}
    BY <1>3, Reads DEF RunnerReturns, RunTable
  <2>4. Frame(a)
    BY <2>1, <2>2, Framed
  <2>5. RowOf(a)'
    BY <1>row, <1>at, <1>closing, <2>1, <2>2, <2>3 DEF RowOf, Unborn, Canceled,
       Answerable, Stored, AtResult, Waiting, Alive, Active, Open, InStep,
       InWorkflow, Closing
  <2>6. Placed(o, a)'
    BY <1>at, <2>1, <2>2, <2>3, GoWrites, Reads
       DEF Placed, InStep, InWorkflow, InLedger, InAttention, InRunner, Active
  <2> QED BY <2>4, <2>5, <2>6 DEF Outcome
<1>4. CASE RunnerAsks(o, a)
  <2>1. /\ worker[o].a = a /\ worker[o].at = "running" /\ run[a] = "running"
        /\ Go(o, "asking") /\ OpenAttention(a, "runner", "open")
        /\ UNCHANGED <<attempt, execution, dispatch, run, child, operator>>
    BY <1>4 DEF RunnerAsks, At, Supervised
  <2>2. Active(a)
    BY <1>row, <1>at, <2>1 DEF RowOf, Canceled, InStep, InWorkflow
  <2>3. /\ \A b \in Attempts \ {a} : attention'[b] = attention[b]
        /\ Open(a, "runner")' /\ \A c \in Categories : Open(a, c) => Open(a, c)'
    BY <2>1, OpenAttentionWrites, Reads DEF Categories
  <2>4. Frame(a)
    BY <2>1, <2>3, Framed
  <2>5. RowOf(a)'
    <3>1. Canceled(a)'
      BY <1>closing, <2>1, <2>2 DEF Closing, Canceled, Active
    <3> QED BY <1>row, <2>1, <2>2, <2>3, <3>1
        DEF RowOf, Unborn, Answerable, Stored, AtResult, Waiting, Alive, Active
  <2>6. Placed(o, a)'
    BY <1>at, <2>1, <2>2, <2>3, GoWrites, Reads
       DEF Placed, InStep, InWorkflow, InLedger, InAttention, InRunner, Active
  <2> QED BY <2>4, <2>5, <2>6 DEF Outcome
<1>5. CASE MarkWaitingInput(o, a)
  <2>1. /\ worker[o].a = a /\ worker[o].at = "asking" /\ Active(a)
        /\ Go(o, "asked") /\ run' = [run EXCEPT ![a] = "waiting_input"]
        /\ UNCHANGED <<attempt, execution, dispatch, attention, child, operator>>
    BY <1>5 DEF MarkWaitingInput, At, Supervised
  <2>2. Frame(a) /\ run'[a] = "waiting_input"
    BY <2>1, Framed, Reads DEF RunTable
  <2>3. /\ dispatch[a].status = "dispatching" /\ o \in dispatch[a].tokens
        /\ Open(a, "runner")
    BY <1>at, <2>1 DEF InStep, InLedger, InAttention
  <2>4. RowOf(a)'
    BY <1>row, <1>closing, <2>1, <2>2, <2>3
       DEF RowOf, Unborn, Canceled, Answerable, Stored, AtResult, Waiting, Alive,
           Active, Open, Closing
  <2>5. Placed(o, a)'
    BY <2>1, <2>2, <2>3, GoWrites, Reads DEF Placed, InStep, InWorkflow, InLedger,
       InAttention, InRunner, Active, Open
  <2> QED BY <2>2, <2>4, <2>5 DEF Outcome
<1>6. CASE RaiseQuestion(o, a)
  <2>1. /\ worker[o].a = a /\ worker[o].at = "asked"
        /\ child' = [child EXCEPT ![a] = FALSE]
        /\ UNCHANGED <<attempt, execution, attention, run, operator>>
    BY <1>6 DEF RaiseQuestion, At
  <2>2. /\ Active(a) /\ dispatch[a].status = "dispatching" /\ Open(a, "runner")
    BY <1>at, <2>1 DEF InStep, InWorkflow, InLedger, InAttention
  <2>3. ~child'[a] /\ \A b \in Attempts \ {a} : child'[b] = child[b]
    BY <2>1, Reads DEF HistoryTyped
  <2>4. CASE MarkDispatchAttention(a, "runner", "preparing") /\ Rest(o)
    <3>1. Frame(a)
      BY <2>1, <2>3, <2>4, MarkAttentionWrites, Framed, Reads DEF OthersKept
    <3>2. RowOf(a)'
      BY <1>row, <1>closing, <2>1, <2>2, <2>3, <2>4, MarkAttentionWrites, Reads
         DEF RowOf, Unborn, Canceled, Answerable, Stored, AtResult, Waiting,
             Alive, Active, Open, Closing, Categories
    <3>3. Placed(o, a)'
      BY <2>4, RestWrites, Reads DEF Placed, Rest
    <3> QED BY <3>1, <3>2, <3>3 DEF Outcome
  <2>5. CASE /\ Attend(o, a, worker[o].path, "ambiguous-dispatch", "dispatching", TRUE)
             /\ UNCHANGED dispatch
    <3>1. Frame(a)
      BY <2>1, <2>3, <2>5, Framed
    <3>2. RowOf(a)'
      BY <1>row, <1>closing, <2>1, <2>2, <2>3, <2>5
         DEF RowOf, Unborn, Canceled, Answerable, Stored, AtResult, Waiting,
             Alive, Active, Open, Closing
    <3>3. /\ worker'[o].at = "attend" /\ worker'[o].a = a
          /\ worker'[o].category = "ambiguous-dispatch"
          /\ worker'[o].phase = "dispatching"
      BY <2>5, Reads DEF Attend, WorkerTable
    <3>4. MayAsk(a, worker'[o].category, worker'[o].phase)
      BY <1>closing, <2>2, <3>3 DEF MayAsk, Unfinished, Closing, Active
    <3> QED BY <2>1, <2>5, <3>1, <3>2, <3>3, <3>4, AttendPlaced DEF Outcome
  <2>6. dispatch[a].status \in Unfinished
    BY <2>2 DEF Unfinished
  <2> QED BY <1>6, <2>4, <2>5, <2>6 DEF RaiseQuestion
<1> QED BY <1>1, <1>2, <1>3, <1>4, <1>5, <1>6 DEF RunnerStep

\* With a single writer only an attempt that is over fences a write.
LEMMA FencedInactive ==
  ASSUME Inv, NEW o \in Pollers, NEW a \in Attempts, Fenced(o, a)
  PROVE  /\ ~Active(a) /\ attempt[a].status # "none" /\ worker[o].a = a
<1>1. worker[o].a = a /\ InStep(o, a)
  BY AtStep DEF Fenced, AttentionFenced, At
<1>2. Closing(a)
  BY Reads DEF WorkflowInv
<1>3. attempt[a].status # "none"
  BY <1>1, <1>2
     DEF Fenced, AttentionFenced, At, InStep, InWorkflow, Closing, Active
<1>4. ~Active(a)
  BY <1>1, <1>2 DEF Fenced, AttentionFenced, At, Holds, InPreparing, InStep,
     InWorkflow, InLedger, Closing, Active, Unfinished
<1> QED BY <1>1, <1>3, <1>4

\* What an exception handler asks fits the row.
LEMMA HandlerAsks ==
  ASSUME NEW o, NEW a \in Attempts, NEW category \in HandlerCategory(o, a),
         dispatch[a].status \in Phases
  PROVE  /\ category = "ambiguous-dispatch" <=> dispatch[a].status = "dispatching"
         /\ HandlerPhase(a) = "result_ready" <=> dispatch[a].status = "result_ready"
<1>1. CASE dispatch[a].status = "dispatching"
  BY <1>1 DEF HandlerCategory, HandlerPhase, Phases, SafePhases
<1>2. CASE dispatch[a].status = "result_ready" /\ worker[o].path = "tick"
  BY <1>2 DEF HandlerCategory, HandlerPhase, Phases, SafePhases
<1>3. CASE dispatch[a].status = "result_ready" /\ worker[o].path = "replay"
  BY <1>3 DEF HandlerCategory, HandlerPhase, Phases, SafePhases
<1>4. CASE dispatch[a].status = "result_ready" /\ worker[o].path \notin {"tick", "replay"}
  BY <1>4 DEF HandlerCategory, HandlerPhase, Phases, SafePhases
<1>5. CASE dispatch[a].status \notin {"dispatching", "result_ready"}
  BY <1>5 DEF HandlerCategory, HandlerPhase, Phases, SafePhases
<1> QED BY <1>1, <1>2, <1>3, <1>4, <1>5

\* A fault falls on an unfinished row of an attempt that nobody canceled.
LEMMA RaisedAt ==
  ASSUME Inv, NEW o \in Pollers, NEW a \in Attempts, ~Fenced(o, a),
         Refused(o, a) \/ \E step \in Faults : At(o, a, step)
  PROVE  /\ worker[o].a = a
         /\ attempt[a].status # "none" /\ attempt[a].left # "cancel"
         /\ dispatch[a].status \in Phases
<1>1. PICK step \in {"claimed", "prepare", "preparing", "launch", "record",
                     "cleanup", "commit", "skill", "finish"} : At(o, a, step)
  BY FaultsAssumption DEF Refused
<1>2. worker[o].a = a /\ worker[o].at = step /\ InStep(o, a)
  BY <1>1, AtStep DEF At
<1>3. Closing(a)
  BY Reads DEF WorkflowInv
<1>4. CASE step = "finish"
  BY <1>2, <1>3, <1>4
     DEF InStep, InWorkflow, InLedger, Closing, Phases, SafePhases
<1>5. CASE step # "finish"
  <2>1. Active(a)
    BY <1>1, <1>2, <1>5 DEF InStep, InWorkflow, Fenced, Holds
  <2> QED BY <1>2, <1>3, <1>5, <2>1
      DEF InStep, InLedger, Closing, Active, Phases, SafePhases
<1> QED BY <1>4, <1>5

\* Record, cleanup, commit and completion of a result, and every exception.
LEMMA ResultOutcome ==
  ASSUME Inv, NEW o \in Pollers, NEW a \in Attempts, ResultStep(o, a)
  PROVE  Outcome(o, a)
<1> USE DEF workflow, prepared, rest, history, budget
<1>row. RowOf(a)
  BY Reads
<1>at. worker[o].a = a => InStep(o, a)
  BY AtStep
<1>closing. Closing(a)
  BY Reads DEF WorkflowInv
<1>1. CASE RecordResult(o, a)
  <2>1. /\ worker[o].a = a /\ worker[o].at = "record" /\ Active(a)
        /\ RecordDispatchResult(a) /\ Go(o, "cleanup")
        /\ UNCHANGED <<attempt, execution, attention, run, child, operator>>
    BY <1>1 DEF RecordResult, At, Holds
  <2>2. Frame(a) /\ dispatch'[a].status = "result_ready" /\ dispatch'[a].result
    BY <2>1, Framed, Reads, RecordWrites DEF OthersKept
  <2>3. ~child[a] /\ run[a] # "waiting_input"
    BY <1>at, <2>1 DEF InStep, InRunner
  <2>4. RowOf(a)'
    BY <1>closing, <2>1, <2>2, <2>3
       DEF RowOf, Unborn, Canceled, Answerable, Stored, AtResult, Waiting, Alive,
           Active, Closing
  <2>5. Placed(o, a)'
    BY <2>1, <2>2, GoWrites, Reads DEF Placed, InStep, InWorkflow, InLedger,
       InAttention, InRunner, Active
  <2> QED BY <2>2, <2>4, <2>5 DEF Outcome
<1>2. CASE CleanupAttempt(o, a)
  <2>1. Frame(a) /\ RowOf(a)'
    BY <1>2, RowsUntouched DEF CleanupAttempt, ledgerVars
  <2>2. Placed(o, a)'
    BY <1>at, <1>2, GoWrites, Reads DEF CleanupAttempt, ledgerVars, At, Placed,
       InStep, InWorkflow, InLedger, InAttention, InRunner, Active
  <2> QED BY <2>1, <2>2 DEF Outcome
<1>3. CASE CommitResult(o, a)
  <2>1. Active(a) /\ AcceptTransition(attempt[a].of, Ended(a, "result"))
    BY <1>3 DEF CommitResult
  <2>2. /\ worker[o].a = a /\ worker[o].at = "commit" /\ Go(o, "finish")
        /\ UNCHANGED <<dispatch, attention, run, child, operator>>
    BY <1>3 DEF CommitResult, At
  <2>3. Frame(a) /\ attempt'[a].status = "completed" /\ attempt'[a].left = "result"
    BY <2>1, <2>2, EndedBy, Reads DEF Frame, Born, Inv
  <2>4. RowOf(a)'
    BY <1>row, <1>at, <2>1, <2>2, <2>3
       DEF InStep, InLedger, RowOf, Unborn, Canceled, Answerable, Stored,
           AtResult, Waiting, Alive, Active, Open
  <2>5. Placed(o, a)'
    BY <1>at, <2>1, <2>2, <2>3, GoWrites, Reads DEF Placed, InStep, InWorkflow,
       InLedger, InAttention, InRunner
  <2> QED BY <2>3, <2>4, <2>5 DEF Outcome
<1>4. CASE FinishDispatch(o, a)
  <2>1. /\ worker[o].a = a /\ worker[o].at = "finish" /\ CompleteDispatch(a) /\ Rest(o)
        /\ UNCHANGED <<attempt, execution, attention, run, child, operator>>
    BY <1>4 DEF FinishDispatch, At
  <2>2. Frame(a) /\ dispatch'[a].status = "completed"
    BY <2>1, Framed, Reads, CompleteWrites DEF OthersKept
  <2>3. attempt[a].left = "result" /\ ~Active(a) /\ attempt[a].status # "none"
    BY <1>at, <1>closing, <2>1 DEF InStep, InWorkflow, Closing, Active
  <2>4. RowOf(a)'
    BY <1>row, <2>1, <2>2, <2>3 DEF RowOf, Unborn, Canceled, Answerable, Stored,
       AtResult, Waiting, Alive, Active, Open
  <2> QED BY <2>1, <2>2, <2>4, RestWrites, Reads DEF Outcome, Placed, Rest
<1>5. CASE Stale(o, a)
  <2>1. ~Active(a) /\ attempt[a].status # "none"
    BY <1>5, FencedInactive DEF Stale
  <2>2. /\ SupersedeDispatch(a) \/ UNCHANGED dispatch
        /\ Rest(o)
        /\ UNCHANGED <<attempt, execution, attention, run, child, operator>>
    BY <1>5 DEF Stale, SupersedeDispatch
  <2>3. Frame(a) /\ (dispatch'[a].status = "superseded" \/ UNCHANGED dispatch)
    BY <2>2, Framed, Reads, SupersedeWrites DEF OthersKept
  <2>4. RowOf(a)'
    BY <1>row, <2>1, <2>2, <2>3 DEF RowOf, Unborn, Canceled, Answerable, Stored,
       AtResult, Waiting, Alive, Active, Open
  <2> QED BY <2>2, <2>3, <2>4, RestWrites, Reads DEF Outcome, Placed, Rest
<1>6. CASE Raise(o, a)
  <2>1. /\ worker[o].a = a
        /\ attempt[a].status # "none" /\ attempt[a].left # "cancel"
        /\ dispatch[a].status \in Phases
        /\ UNCHANGED <<attempt, execution, attention, run, child, operator>>
    BY <1>6, RaisedAt DEF Raise
  <2>2. CASE CompleteDispatch(a) /\ Rest(o) /\ Committed(a)
    <3>1. Frame(a) /\ dispatch'[a].status = "completed"
      BY <2>1, <2>2, Framed, Reads, CompleteWrites DEF OthersKept
    <3>2. ~Active(a)
      BY <1>closing, <2>2 DEF Committed, Closing, Active
    <3>3. RowOf(a)'
      BY <1>row, <2>1, <3>1, <3>2 DEF RowOf, Unborn, Canceled, Answerable, Stored,
         AtResult, Waiting, Alive, Active, Open
    <3> QED BY <2>2, <3>1, <3>3, RestWrites, Reads DEF Outcome, Placed, Rest
  <2>3. ASSUME NEW category \in HandlerCategory(o, a), UNCHANGED dispatch,
               Attend(o, a, worker[o].path, category, HandlerPhase(a), TRUE)
        PROVE  Outcome(o, a)
    <3>1. Frame(a) /\ RowOf(a)'
      BY <2>1, <2>3, RowsUntouched
    <3>2. /\ worker'[o].at = "attend" /\ worker'[o].a = a
          /\ worker'[o].category = category /\ worker'[o].phase = HandlerPhase(a)
      BY <2>3, Reads DEF Attend, WorkerTable
    <3>3. MayAsk(a, category, HandlerPhase(a))
      BY <2>1, HandlerAsks DEF MayAsk, Phases, SafePhases, Unfinished
    <3> QED BY <2>1, <2>3, <3>1, <3>2, <3>3, AttendPlaced DEF Outcome
  <2> QED BY <1>6, <2>2, <2>3 DEF Raise
<1>7. CASE HoldPreparation(o, a)
  <2>1. Frame(a) /\ RowOf(a)'
    BY <1>7, RowsUntouched DEF HoldPreparation
  <2>2. Placed(o, a)'
    BY <1>at, <1>7 DEF HoldPreparation, At, Placed, InStep, InWorkflow, InLedger,
       InAttention, InRunner, Active, Open
  <2> QED BY <2>1, <2>2 DEF Outcome
<1>8. CASE OpenRequest(o, a)
  <2>1. /\ worker[o].a = a /\ worker[o].at = "attend" /\ Go(o, "link")
        /\ OpenAttention(a, worker[o].category, worker[o].phase)
        /\ UNCHANGED <<attempt, execution, dispatch, run, child, operator>>
    BY <1>8 DEF OpenRequest, At
  <2>2. worker[o].category \in Categories /\ worker[o].phase \in Phases
    BY <1>8, AskingTyped DEF OpenRequest, Inv, TypeInv
  <2>3. /\ \A b \in Attempts \ {a} : attention'[b] = attention[b]
        /\ attention'[a][worker[o].category] # "closed"
        /\ \A c \in Categories : Open(a, c) => Open(a, c)'
    BY <2>1, <2>2, OpenAttentionWrites, Reads DEF Open
  <2>4. Frame(a)
    BY <2>1, <2>3, Framed
  <2>5. RowOf(a)'
    BY <1>row, <1>at, <2>1, <2>3 DEF InStep, InWorkflow, RowOf, Unborn, Canceled,
       Answerable, Stored, AtResult, Waiting, Alive, Active, Categories
  <2>6. Placed(o, a)'
    BY <1>at, <2>1, <2>3, GoWrites, Reads
       DEF Placed, InStep, InWorkflow, InLedger, InAttention, InRunner, Active,
           Open
  <2> QED BY <2>4, <2>5, <2>6 DEF Outcome
<1>9. CASE LinkRequest(o, a)
  <2>1. /\ worker[o].a = a /\ worker[o].at = "link" /\ Rest(o)
        /\ MarkDispatchAttention(a, worker[o].category, worker[o].phase)
        /\ UNCHANGED <<attempt, execution, attention, run, child, operator>>
    BY <1>9 DEF LinkRequest, At
  <2>2. worker[o].category \in Categories
    BY <1>9, AskingTyped DEF LinkRequest, Inv, TypeInv
  <2>3. /\ Frame(a) /\ dispatch[a].status # "attention"
        /\ dispatch'[a].status = "attention" /\ dispatch'[a].remedy = "none"
        /\ dispatch'[a].link = worker[o].category
        /\ dispatch'[a].phase = worker[o].phase
        /\ dispatch'[a].result = dispatch[a].result
    BY <1>at, <2>1, MarkAttentionWrites, Framed, Reads
       DEF OthersKept, InStep, InLedger, Unfinished
  <2>4. RowOf(a)'
    BY <1>row, <1>at, <2>1, <2>2, <2>3
       DEF InStep, InWorkflow, InLedger, InAttention, RowOf, Unborn, Canceled,
           Answerable, Stored, AtResult, Waiting, Alive, Active, Open
  <2> QED BY <2>1, <2>3, <2>4, RestWrites, Reads DEF Outcome, Placed, Rest
<1>10. CASE Escape(o, a)
  <2>1. Frame(a) /\ RowOf(a)'
    BY <1>10, RowsUntouched DEF Escape, ledgerVars
  <2> QED BY <1>10, <2>1, RestWrites, Reads DEF Escape, Outcome, Placed
<1> QED BY <1>1, <1>2, <1>3, <1>4, <1>5, <1>6, <1>7, <1>8, <1>9, <1>10
           DEF ResultStep

-----------------------------------------------------------------------------
(* The operator and the environment.                                        *)

\* A running attempt keeps its rows or is canceled.
Undisturbed(b) ==
  \/ /\ attempt'[b] = attempt[b] /\ run'[b] = run[b]
     /\ dispatch'[b].status = dispatch[b].status
     /\ dispatch'[b].tokens = dispatch[b].tokens
  \/ attempt'[b].left = "cancel" /\ attempt'[b].status = "completed"

\* While the pump runs the worker is between two ticks, supervises or is down.
LEMMA PumpedQuiet ==
  ASSUME Inv, Pumped
  PROVE  \A o \in Pollers : worker[o].at \in {"idle", "running", "down"}
BY DEF Inv, SingleWriter, Pumped

\* A command keeps what the worker relies on if it leaves the attempt of a
\* supervised runner undisturbed.
LEMMA QuietSteps ==
  ASSUME Inv, UNCHANGED worker,
         \A o \in Pollers : worker[o].at \in {"idle", "running", "down"},
         \A o \in Pollers, b \in Attempts :
           worker[o].at = "running" /\ worker[o].a = b => Undisturbed(b)
  PROVE  StepInv'
<1> SUFFICES ASSUME NEW o \in Pollers
             PROVE  /\ worker[o].at \notin {"idle", "down"} => worker[o].a \in Attempts
                    /\ \A b \in Attempts : worker[o].a = b => InStep(o, b)'
  BY DEF StepInv
<1>1. worker[o].at \notin {"idle", "down"} => worker[o].a \in Attempts
  BY Reads DEF StepInv
<1>2. ASSUME NEW b \in Attempts, worker[o].a = b
      PROVE  InStep(o, b)'
  <2>1. InStep(o, b)
    BY <1>2, AtStep
  <2>2. CASE worker[o].at = "running"
    BY <1>2, <2>1, <2>2
       DEF Undisturbed, InStep, InWorkflow, InLedger, InAttention, InRunner,
           Active
  <2>3. CASE worker[o].at \in {"idle", "down"}
    BY <2>3 DEF InStep, InWorkflow, InLedger, InAttention, InRunner
  <2> QED BY <2>2, <2>3
<1> QED BY <1>1, <1>2

\* While a runner of an active attempt is supervised or may live, control
\* commands are refused.
LEMMA Refuses ==
  ASSUME Inv, NEW a \in Attempts, Active(a), ~AmbiguousDispatch(attempt[a].of)
  PROVE  /\ \A o \in Pollers : worker[o].at = "running" => worker[o].a # a
         /\ ~child[a] /\ dispatch[a].status # "dispatching"
         /\ ~Open(a, "ambiguous-dispatch")
<1>1. dispatch[a].status # "dispatching" /\ ~Open(a, "ambiguous-dispatch")
  BY DEF AmbiguousDispatch
<1>2. \A o \in Pollers : worker[o].at = "running" => worker[o].a # a
  BY <1>1, AtStep DEF InStep, InLedger
<1>3. ~child[a]
  <2>1. Alive(a) /\ Answerable(a) /\ Closing(a)
    BY Reads DEF RowOf, WorkflowInv
  <2> QED BY <1>1, <2>1 DEF Alive, Answerable, Closing, Active
<1> QED BY <1>1, <1>2, <1>3

\* A person's transition disturbs no attempt there is.
LEMMA HumanMoves ==
  ASSUME Inv, NEW e \in Executions, HumanTransition(e)
  PROVE  SafetyInv'
<1>1. /\ execution[e] = "human" /\ AcceptTransition(e, attempt) /\ Pumped
      /\ UNCHANGED <<dispatch, attention, run, child, operator, worker>>
  BY DEF HumanTransition, Serving, history
<1>2. \A b \in Attempts : Holding(b) => attempt[b].of # e
  BY <1>1, Reads DEF WorkflowInv, Closing, Holding
<1>3. Frame(0)
  <2>1. CASE /\ \E kind \in {"human", "terminal"} :
                  execution' = [execution EXCEPT ![e] = kind]
             /\ attempt' = attempt
    <3>1. WorkflowInv'
      BY <1>1, <1>2, <2>1, Reads
         DEF WorkflowInv, Closing, Holding, Active, Inv, TypeInv, ExecutionTable
    <3> QED BY <1>1, <2>1, <3>1 DEF Frame, Inv, TypeInv, ExecutionTable
  <2>2. ASSUME NEW b \in Attempts, Fresh(b),
               execution' = [execution EXCEPT ![e] = "work"],
               attempt' = [attempt EXCEPT ![b] =
                             [status |-> "active", of |-> e, left |-> "none"]]
        PROVE  Frame(0)
    <3>1. attempt[b].status = "none"
      BY <2>2 DEF Fresh
    <3>2. WorkflowInv'
      BY <1>1, <1>2, <2>2, <3>1, Reads
         DEF WorkflowInv, Closing, Holding, Active, Inv, TypeInv, ExecutionTable,
             AttemptTable
    <3> QED BY <1>1, <2>2, <3>1, <3>2
        DEF Frame, Born, Inv, TypeInv, ExecutionTable, AttemptTable
  <2> QED BY <1>1, <2>1, <2>2 DEF AcceptTransition
<1>4. RowInv'
  BY <1>3, RowsSafe DEF Attempts
<1>5. StepInv'
  <2>1. \A o \in Pollers, b \in Attempts :
          worker[o].at = "running" /\ worker[o].a = b => Undisturbed(b)
    <3> SUFFICES ASSUME NEW o \in Pollers, NEW b \in Attempts,
                        worker[o].at = "running", worker[o].a = b
                 PROVE  Undisturbed(b)
      OBVIOUS
    <3>1. attempt[b].status # "none"
      BY AtStep, Reads DEF InStep, InWorkflow, Active, WorkflowInv, Closing
    <3>2. attempt'[b] = attempt[b]
      BY <1>3, <3>1 DEF Frame, Born, Attempts
    <3> QED BY <1>1, <3>2 DEF Undisturbed
  <2> QED BY <1>1, <2>1, PumpedQuiet, QuietSteps
<1>6. RemedyInv'
  BY <1>1, Reads DEF RemedyInv
<1> QED BY <1>3, <1>4, <1>5, <1>6 DEF SafetyInv, Frame

\* What an operator's command does to one attempt, put together.
LEMMA CommandSafe ==
  ASSUME Inv, NEW a \in Attempts, Frame(a), RowOf(a)', UNCHANGED worker,
         \A o \in Pollers : worker[o].at \in {"idle", "running", "down"},
         \A o \in Pollers : worker[o].at = "running" /\ worker[o].a = a => Undisturbed(a)
  PROVE  WorkflowInv' /\ StepInv' /\ RowInv'
<1>1. \A o \in Pollers, b \in Attempts :
        worker[o].at = "running" /\ worker[o].a = b => Undisturbed(b)
  <2> SUFFICES ASSUME NEW o \in Pollers, NEW b \in Attempts, b # a,
                      worker[o].at = "running", worker[o].a = b
               PROVE  Undisturbed(b)
    OBVIOUS
  <2>1. attempt[b].status # "none"
    BY AtStep, Reads DEF InStep, InWorkflow, Active, WorkflowInv, Closing
  <2> QED BY <2>1 DEF Frame, Born, Undisturbed
<1> QED BY <1>1, QuietSteps, RowsSafe DEF Frame

\* Resolving the engine's request keeps every row.
LEMMA EngineResolved ==
  ASSUME Inv, NEW a \in Attempts, NEW remedy, remedy # "none",
         ResolveAttention(a, "engine", remedy),
         UNCHANGED <<attempt, execution, run, child>>
  PROVE  RowInv'
<1>1. "engine" \in Categories
  BY DEF Categories
<1>2. ASSUME NEW b \in Attempts, b # a PROVE RowOf(b)'
  BY <1>2, <1>1, ResolveWrites, RowKept, Reads DEF Inv, OthersKept
<1>3. Unborn(a)' /\ Stored(a)'
  BY <1>1, ResolveWrites, Reads DEF RowOf, Unborn, Stored, AtResult, Active
<1>4. Canceled(a)' /\ Answerable(a)'
  BY <1>1, ResolveWrites, Reads DEF RowOf, Canceled, Answerable, Open
<1>5. Waiting(a)' /\ Alive(a)'
  BY <1>1, ResolveWrites, Reads
     DEF RowOf, Waiting, Alive, Active, Open, Categories
<1> QED BY <1>2, <1>3, <1>4, <1>5 DEF RowInv, RowOf

\* Every command of control.py and both halves of a remedy.
LEMMA OperatorSafe ==
  ASSUME Inv, OperatorStep
  PROVE  SafetyInv'
<1> USE DEF workflow, prepared, rest, history, budget, Serving
<1>1. ASSUME NEW e \in Executions, HumanTransition(e)
      PROVE  SafetyInv'
  BY <1>1, HumanMoves
<1>2. ASSUME NEW a \in Attempts, ControlTransition(a)
      PROVE  SafetyInv'
  <2>1. /\ Pumped /\ Active(a) /\ ~AmbiguousDispatch(attempt[a].of)
        /\ AcceptTransition(attempt[a].of, Ended(a, "operator"))
        /\ UNCHANGED <<dispatch, attention, run, child, operator, worker>>
    BY <1>2 DEF ControlTransition
  <2>2. Frame(a) /\ attempt'[a].status = "completed" /\ attempt'[a].left = "operator"
    BY <2>1, EndedBy, Reads DEF Frame, Born, Inv
  <2>3. RowOf(a)'
    BY <2>1, <2>2, Refuses, Reads DEF RowOf, Unborn, Canceled, Answerable, Stored,
       AtResult, Waiting, Alive, Active, Open
  <2>4. \A o \in Pollers : worker[o].at = "running" => worker[o].a # a
    BY <2>1, Refuses
  <2>5. RemedyInv'
    BY <2>1, Reads DEF RemedyInv
  <2> QED BY <2>1, <2>2, <2>3, <2>4, <2>5, PumpedQuiet, CommandSafe DEF SafetyInv
<1>3. ASSUME NEW a \in Attempts, ControlCancel(a)
      PROVE  SafetyInv'
  <2>1. /\ Pumped /\ Active(a) /\ TerminalizeCanceledAttempt(a)
        /\ attempt' = Ended(a, "cancel")
        /\ execution' = [execution EXCEPT ![attempt[a].of] = "terminal"]
        /\ UNCHANGED <<child, operator, worker>>
    BY <1>3 DEF ControlCancel
  <2>3. /\ WorkflowInv'
        /\ attempt'[a].status = "completed" /\ attempt'[a].left = "cancel"
        /\ \A b \in Attempts \ {a} : attempt'[b] = attempt[b]
    BY <2>1, CanceledBy, Reads DEF Inv
  <2>4. Frame(a)
    BY <2>1, <2>3, TerminalizeWrites, Reads DEF Frame, OthersKept, RunTable
  <2>5. RowOf(a)'
    BY <2>1, <2>3, TerminalizeWrites, Reads DEF RunTable, RowOf, Unborn, Canceled,
       Answerable, Stored, AtResult, Waiting, Alive, Active
  <2>6. Undisturbed(a)
    BY <2>3 DEF Undisturbed
  <2>7. RemedyInv'
    BY <2>1, Reads DEF RemedyInv
  <2> QED BY <2>1, <2>4, <2>5, <2>6, <2>7, PumpedQuiet, CommandSafe DEF SafetyInv
<1>4. ASSUME NEW a \in Attempts, NEW c \in SchedulerCategories, RemedyScheduler(a, c)
      PROVE  SafetyInv'
  <2>1. /\ Pumped /\ Active(a) /\ ~AmbiguousDispatch(attempt[a].of) /\ Open(a, c)
        /\ c \in Categories /\ c \notin {"runner", "engine"}
        /\ ResolveAttention(a, c, "retry")
        /\ UNCHANGED <<attempt, execution, run, child, operator, worker>>
    BY <1>4 DEF RemedyScheduler, Remedied, Categories, SchedulerCategories
  <2>2. c # "ambiguous-dispatch" /\ ~child[a]
    BY <2>1, Refuses
  <2>3. Frame(a)
    BY <2>1, Framed, ResolveWrites, Reads DEF OthersKept
  <2>4. RowOf(a)'
    BY <2>1, <2>2, ResolveWrites, Reads
       DEF RowOf, Unborn, Canceled, Answerable, Stored, AtResult, Waiting, Alive,
           Active, Open, WorkflowInv, Closing, Categories
  <2>5. \A o \in Pollers : worker[o].at = "running" => worker[o].a # a
    BY <2>1, Refuses
  <2>6. RemedyInv'
    BY <2>1, Reads DEF RemedyInv
  <2> QED BY <2>1, <2>3, <2>4, <2>5, <2>6, PumpedQuiet, CommandSafe DEF SafetyInv
<1>5. ASSUME NEW a \in Attempts, NEW r \in {"retry", "other"}, RemedyEngine(a, r)
      PROVE  SafetyInv'
  <2>1. /\ Pumped /\ operator' = [a |-> a, remedy |-> r]
        /\ UNCHANGED <<attempt, execution, dispatch, attention, run, child, worker>>
    BY <1>5 DEF RemedyEngine, Remedied
  <2>2. RemedyInv'
    BY <2>1, PumpedQuiet DEF RemedyInv
  <2>3. WorkflowInv'
    BY <2>1, Reads DEF WorkflowInv, Closing, Holding, Active
  <2>4. StepInv'
    BY <2>1, PumpedQuiet, QuietSteps DEF Undisturbed
  <2>5. RowInv'
    <3>1. ASSUME NEW b \in Attempts PROVE RowOf(b)'
      BY <2>1, RowKept, Reads DEF Inv
    <3> QED BY <3>1 DEF RowInv, RowOf
  <2> QED BY <2>2, <2>3, <2>4, <2>5 DEF SafetyInv
<1>6. ASSUME NEW a \in Attempts, NEW r \in {"retry", "other"}, RemedyRunner(a, r)
      PROVE  SafetyInv'
  <2>1. /\ Pumped /\ Active(a) /\ ~AmbiguousDispatch(attempt[a].of)
        /\ run[a] = "waiting_input"
        /\ ResolveAttention(a, "runner", r)
        /\ UNCHANGED <<attempt, execution, child, operator, worker>>
    BY <1>6 DEF RemedyRunner, Remedied
  <2>2. ~child[a] /\ "runner" \in Categories
    BY <2>1, Refuses DEF Categories
  <2>3. /\ run'[a] \in {"resume_authorized", "canceled"}
        /\ \A b \in Attempts \ {a} : run'[b] = run[b]
    BY <1>6, Reads DEF RemedyRunner, RunTable
  <2>4. Frame(a)
    BY <2>1, <2>2, <2>3, Framed, ResolveWrites, Reads DEF OthersKept
  <2>5. RowOf(a)'
    BY <2>1, <2>2, <2>3, ResolveWrites, Reads
       DEF RowOf, Unborn, Canceled, Answerable, Stored, AtResult, Waiting, Alive,
           Active, Open, WorkflowInv, Closing
  <2>6. \A o \in Pollers : worker[o].at = "running" => worker[o].a # a
    BY <2>1, Refuses
  <2>7. RemedyInv'
    BY <2>1, Reads DEF RemedyInv
  <2> QED BY <2>1, <2>4, <2>5, <2>6, <2>7, PumpedQuiet, CommandSafe DEF SafetyInv
<1>7. CASE ResolveEngineRequest
  <2> DEFINE a == operator.a
  <2>1. /\ a \in Attempts /\ operator.remedy # "none" /\ "engine" \in Categories
        /\ \A o \in Pollers : worker[o].at \in {"idle", "running", "down"}
    BY <1>7, Reads DEF ResolveEngineRequest, RemedyInv, Categories
  <2>2. /\ ResolveAttention(a, "engine", operator.remedy) /\ operator' = NoRemedy
        /\ UNCHANGED <<attempt, execution, run, child, worker>>
    BY <1>7 DEF ResolveEngineRequest
  <2> HIDE DEF a
  <2>3. /\ WorkflowInv' /\ RemedyInv'
    BY <2>2, Reads DEF WorkflowInv, Closing, Holding, Active, RemedyInv
  <2>5. RowInv'
    BY <2>1, <2>2, EngineResolved
  <2>6. StepInv'
    <3>1. \A b \in Attempts : Undisturbed(b)
      BY <2>1, <2>2, ResolveWrites, Reads DEF Undisturbed, OthersKept
    <3> QED BY <2>1, <2>2, <3>1, QuietSteps
  <2> QED BY <2>3, <2>5, <2>6 DEF SafetyInv
<1> QED BY <1>1, <1>2, <1>3, <1>4, <1>5, <1>6, <1>7 DEF OperatorStep

\* Neither a claim token nor a timer is a matter of the row invariant.
LEMMA RowAgreed ==
  ASSUME NEW b \in Attempts, RowOf(b),
         UNCHANGED <<attempt, execution, attention, run>>, child'[b] => child[b],
         dispatch'[b].status = dispatch[b].status, dispatch'[b].link = dispatch[b].link,
         dispatch'[b].remedy = dispatch[b].remedy, dispatch'[b].phase = dispatch[b].phase,
         dispatch'[b].result = dispatch[b].result
  PROVE  RowOf(b)'
<1>1. Active(b)' = Active(b) /\ \A c : Open(b, c)' = Open(b, c)
  BY DEF Active, Open
<1>2. Unborn(b)' /\ Canceled(b)' /\ Answerable(b)' /\ Stored(b)'
  BY <1>1 DEF RowOf, Unborn, Canceled, Answerable, Stored, AtResult
<1>3. Waiting(b)' /\ Alive(b)'
  BY <1>1 DEF RowOf, Waiting, Alive
<1> QED BY <1>2, <1>3 DEF RowOf

\* A crash, a restart, the clock and the death of an orphan.
LEMMA EnvironmentSafe ==
  ASSUME Inv, Environment
  PROVE  SafetyInv'
<1> USE DEF workflow, prepared, rest, history, budget
<1>1. ASSUME NEW o \in Pollers, Crash(o)
      PROVE  SafetyInv'
  <2>1. /\ UNCHANGED <<attempt, execution, attention, run, child>>
        /\ operator' = NoRemedy /\ worker' = [worker EXCEPT ![o] = Down]
        /\ dispatch' = [a \in Attempts |-> [dispatch[a] EXCEPT !.tokens = @ \ {o}]]
    BY <1>1 DEF Crash
  <2>2. \A row \in DispatchRow :
          LET new == [row EXCEPT !.tokens = @ \ {o}]
          IN  /\ new.status = row.status /\ new.link = row.link
              /\ new.remedy = row.remedy /\ new.phase = row.phase
              /\ new.result = row.result
    BY DEF DispatchRow
  <2>3. RowInv'
    <3>1. ASSUME NEW b \in Attempts PROVE RowOf(b)'
      BY <2>1, <2>2, RowAgreed, Reads DEF DispatchTable
    <3> QED BY <3>1 DEF RowInv, RowOf
  <2>4. StepInv'
    <3>1. \A p \in Pollers : worker'[p].at = "down"
      BY <2>1, Reads DEF Inv, SingleWriter, WorkerTable, Down, Idle
    <3> QED BY <3>1
               DEF StepInv, InStep, InWorkflow, InLedger, InAttention, InRunner
  <2>5. WorkflowInv' /\ RemedyInv'
    BY <2>1, Reads DEF WorkflowInv, Closing, Holding, Active, RemedyInv
  <2> QED BY <2>3, <2>4, <2>5 DEF SafetyInv
<1>2. ASSUME operator' = operator \/ operator' = NoRemedy,
             UNCHANGED <<attempt, execution, attention, run, dispatch>>,
             UNCHANGED worker \/ \E o \in Pollers : Restart(o),
             \A b \in Attempts : child'[b] => child[b]
      PROVE  SafetyInv'
  <2>1. RowInv'
    <3>1. ASSUME NEW b \in Attempts PROVE RowOf(b)'
      BY <1>2, RowAgreed, Reads
    <3> QED BY <3>1 DEF RowInv, RowOf
  <2>2. StepInv'
    <3>1. CASE UNCHANGED worker
      BY <1>2, <3>1, Reads DEF StepInv, InStep, InWorkflow, InLedger, InAttention,
         InRunner, Active, Open
    <3>2. ASSUME NEW o \in Pollers, Restart(o)
          PROVE  StepInv'
      <4>1. \A p \in Pollers : worker'[p].at = "idle"
        BY <3>2, Reads DEF Restart, Inv, SingleWriter, WorkerTable, Idle
      <4> QED BY <4>1
                 DEF StepInv, InStep, InWorkflow, InLedger, InAttention, InRunner
    <3> QED BY <1>2, <3>1, <3>2
  <2>3. RemedyInv'
    BY <1>2, Reads DEF RemedyInv, Restart
  <2>4. WorkflowInv'
    BY <1>2, Reads DEF WorkflowInv, Closing, Holding, Active
  <2> QED BY <2>1, <2>2, <2>3, <2>4 DEF SafetyInv
<1>3. CASE CrashControl
  BY <1>2, <1>3 DEF CrashControl, ledgerVars
<1>4. ASSUME NEW o \in Pollers, Restart(o)
      PROVE  SafetyInv'
  BY <1>2, <1>4 DEF Restart, ledgerVars
<1>5. ASSUME NEW a \in Attempts, Elapse(a)
      PROVE  SafetyInv'
  <2>1. /\ UNCHANGED <<attempt, execution, attention, run, child, operator, worker>>
        /\ dispatch' = [dispatch EXCEPT ![a] = [@ EXCEPT !.timer = "elapsed"]]
    BY <1>5 DEF Elapse
  <2>2. \A row \in DispatchRow :
          LET new == [row EXCEPT !.timer = "elapsed"]
          IN  /\ new.status = row.status /\ new.link = row.link
              /\ new.remedy = row.remedy /\ new.phase = row.phase
              /\ new.result = row.result /\ new.tokens = row.tokens
    BY DEF DispatchRow
  <2>3. \A b \in Attempts :
          /\ dispatch'[b].status = dispatch[b].status /\ dispatch'[b].link = dispatch[b].link
          /\ dispatch'[b].remedy = dispatch[b].remedy /\ dispatch'[b].phase = dispatch[b].phase
          /\ dispatch'[b].result = dispatch[b].result /\ dispatch'[b].tokens = dispatch[b].tokens
    BY <2>1, <2>2, Reads DEF DispatchTable
  <2>4. RowInv'
    <3>1. ASSUME NEW b \in Attempts PROVE RowOf(b)'
      BY <2>1, <2>3, RowAgreed, Reads
    <3> QED BY <3>1 DEF RowInv, RowOf
  <2>5. StepInv'
    BY <2>1, <2>3, Reads DEF StepInv, InStep, InWorkflow, InLedger, InAttention,
       InRunner, Active, Open
  <2>6. WorkflowInv' /\ RemedyInv'
    BY <2>1, Reads DEF WorkflowInv, Closing, Holding, Active, RemedyInv
  <2> QED BY <2>4, <2>5, <2>6 DEF SafetyInv
<1>6. ASSUME NEW a \in Attempts, OrphanExits(a)
      PROVE  SafetyInv'
  <2>1. \A b \in Attempts : child'[b] => child[b]
    BY <1>6, Reads DEF OrphanExits, HistoryTyped
  <2> QED BY <1>2, <1>6, <2>1 DEF OrphanExits, ledgerVars
<1> QED BY <1>1, <1>3, <1>4, <1>5, <1>6 DEF Environment

\* A worker moves only while no remedy is half done.
LEMMA OwnThread ==
  ASSUME NEW o \in Pollers, NEW a \in Attempts,
         \/ ReconcileStep(o, a) \/ PreparationStep(o, a)
         \/ RunnerStep(o, a) \/ ResultStep(o, a)
  PROVE  operator = NoRemedy
<1> USE DEF At, Resting, Preparing
<1>1. CASE ReconcileStep(o, a)
  BY <1>1 DEF ReconcileStep, Resume, RecoverDispatching,
     RecoverAmbiguousPreparation, RecoverCommitted, Takeover, Claim, Reconciling
<1>2. CASE PreparationStep(o, a)
  BY <1>2
     DEF PreparationStep, MarkPreparing, DeferForBudget, BeginPreparation,
         ResolveSkills, ReturnAtOnce, ResumePreparation, MarkPreparationReady,
         FailPreparation, EngineAsks, NoteEngineRequest, Defer, LinkEngineRequest,
         CommitSkillFailure, NoFailedExit, DropDispatch, MarkPrepared,
         MarkLaunchIntent
<1>3. CASE RunnerStep(o, a)
  BY <1>3 DEF RunnerStep, Launch, NoLaunch, RunnerReturns, RunnerAsks,
     MarkWaitingInput, RaiseQuestion
<1>4. CASE ResultStep(o, a)
  BY <1>4 DEF ResultStep, RecordResult, CleanupAttempt, CommitResult,
     FinishDispatch, Stale, Raise, HoldPreparation, OpenRequest, LinkRequest,
     Escape, Fenced, AttentionFenced, Refused
<1> QED BY <1>1, <1>2, <1>3, <1>4

\* Every step, and every stutter, keeps the invariant.
LEMMA SafetyStep ==
  ASSUME SingleWriter
  PROVE  TypeInv /\ SafetyInv /\ [Next]_vars => SafetyInv'
<1> SUFFICES ASSUME Inv, [Next]_vars PROVE SafetyInv'
  BY DEF Inv
<1>1. ASSUME NEW o \in Pollers, SchedulerStep(o)
      PROVE  SafetyInv'
  <2>1. PICK a \in Attempts : \/ ReconcileStep(o, a) \/ PreparationStep(o, a)
                              \/ RunnerStep(o, a) \/ ResultStep(o, a)
    BY <1>1 DEF SchedulerStep
  <2>2. Outcome(o, a)
    BY <2>1, ReconcileOutcome, PreparationOutcome, RunnerOutcome, ResultOutcome
  <2> QED BY <2>1, <2>2, OwnThread, OutcomeSafe
<1>2. CASE OperatorStep
  BY <1>2, OperatorSafe
<1>3. CASE Environment
  BY <1>3, EnvironmentSafe
<1>4. CASE UNCHANGED vars
  <2>1. UNCHANGED <<attempt, execution, dispatch, attention, run, child, operator, worker>>
    BY <1>4 DEF vars, ledgerVars, history
  <2>2. WorkflowInv' /\ RemedyInv'
    BY <2>1, Reads DEF WorkflowInv, Closing, Holding, Active, RemedyInv
  <2>3. StepInv'
    BY <2>1, Reads DEF StepInv, InStep, InWorkflow, InLedger, InAttention,
       InRunner, Active, Open
  <2>4. RowInv'
    <3>1. ASSUME NEW b \in Attempts PROVE RowOf(b)'
      BY <2>1, RowAgreed, Reads
    <3> QED BY <3>1 DEF RowInv, RowOf
  <2> QED BY <2>2, <2>3, <2>4 DEF SafetyInv
<1> QED BY <1>1, <1>2, <1>3, <1>4 DEF Next

-----------------------------------------------------------------------------
(* What the invariant is for.                                               *)

\* Cancel leaves no live dispatch, no open request and no runner row a later
\* process would resume, whatever the scheduler, the engine and the runner were
\* in the middle of and however often they crash afterwards.
THEOREM CancelCloses ==
  ASSUME SingleWriter PROVE Spec => []CanceledIsClosed
<1>1. Init => TypeInv /\ SafetyInv
  BY InitTyped, InitSafe
<1>2. TypeInv /\ SafetyInv /\ [Next]_vars => TypeInv' /\ SafetyInv'
  BY StepTyped, SafetyStep
<1>3. SafetyInv => CanceledIsClosed
  BY DEF SafetyInv, RowInv, Canceled, CanceledIsClosed
<1> QED BY <1>1, <1>2, <1>3, PTL DEF Spec

\* A dispatch in attention is always either still asking or already answered,
\* across every crash between opening, linking and resolving the request.
THEOREM QuestionsAreAnswerable ==
  ASSUME SingleWriter PROVE Spec => []AttentionIsAnswerable
<1>1. Init => TypeInv /\ SafetyInv
  BY InitTyped, InitSafe
<1>2. TypeInv /\ SafetyInv /\ [Next]_vars => TypeInv' /\ SafetyInv'
  BY StepTyped, SafetyStep
<1>3. SafetyInv => AttentionIsAnswerable
  BY DEF SafetyInv, RowInv, Answerable, AttentionIsAnswerable
<1> QED BY <1>1, <1>2, <1>3, PTL DEF Spec

\* A set whose elements are equal has at most one.
LEMMA AtMostOne ==
  ASSUME NEW S, \A x, y \in S : x = y
  PROVE  Cardinality(S) <= 1
<1>1. CASE S = {}
  BY <1>1, FS_EmptySet
<1>2. CASE S # {}
  <2>1. PICK x \in S : TRUE
    BY <1>2
  <2>2. S = {x}
    BY <2>1
  <2> QED BY <2>2, FS_Singleton
<1> QED BY <1>1, <1>2

\* Two live processes of one execution would belong to two attempts that are
\* both its last.
LEMMA AliveHolds ==
  ASSUME SafetyInv
  PROVE  ExclusiveWorkspace
<1> SUFFICES ASSUME NEW e \in Executions,
                    NEW a \in Attempts, NEW b \in Attempts,
                    child[a] /\ attempt[a].of = e, child[b] /\ attempt[b].of = e
             PROVE  a = b
  <2>1. ASSUME NEW e \in Executions
        PROVE  \A x, y \in {a \in Attempts : child[a] /\ attempt[a].of = e} : x = y
    OBVIOUS
  <2> QED BY <2>1, AtMostOne DEF ExclusiveWorkspace
<1>1. Alive(a) /\ Alive(b)
  BY DEF SafetyInv, RowInv
<1> QED BY <1>1 DEF Alive, SafetyInv, WorkflowInv, Holding

\* Two runner processes never work for one execution, hence in one worktree,
\* counting those that outlive a crashed scheduler and a canceled attempt.
THEOREM OneRunnerPerWorkspace ==
  ASSUME SingleWriter PROVE Spec => []ExclusiveWorkspace
<1>1. Init => TypeInv /\ SafetyInv
  BY InitTyped, InitSafe
<1>2. TypeInv /\ SafetyInv /\ [Next]_vars => TypeInv' /\ SafetyInv'
  BY StepTyped, SafetyStep
<1>3. SafetyInv => ExclusiveWorkspace
  BY AliveHolds
<1> QED BY <1>1, <1>2, <1>3, PTL DEF Spec

-----------------------------------------------------------------------------
(* The scheduler implements AttemptPromise.  The abstract launch asks for   *)
(* launches <= permits and the abstract permit for launches > permits, and  *)
(* the code looks at neither count: it looks at the runner's row.  RunsInv  *)
(* says what each status of that row stands for.                            *)

\* Before the first launch nothing was permitted; an authorization not yet used
\* is one permit; a running or waiting runner has used them all.
RunsInv ==
  \A a \in Attempts :
    /\ run[a] = "none" => launches[a] = 0 /\ resumes[a] = 0
    /\ run[a] = "resume_authorized" => launches[a] = resumes[a]
    /\ run[a] \in {"running", "waiting_input"} => launches[a] = 1 + resumes[a]

\* Only the runner's own steps, its remedy and cancel write its row, and each
\* keeps what the row stands for.
LEMMA RunsStep ==
  ASSUME SingleWriter
  PROVE  TypeInv /\ SafetyInv /\ RunsInv /\ [Next]_vars => RunsInv'
<1> SUFFICES ASSUME Inv, RunsInv, [Next]_vars PROVE RunsInv'
  BY DEF Inv
<1>runs. RunTable /\ HistoryTyped
  BY Reads
<1>still. ASSUME UNCHANGED runner PROVE RunsInv'
  BY <1>still DEF RunsInv, runner
<1>1. ASSUME NEW o \in Pollers, SchedulerStep(o)
      PROVE  RunsInv'
  <2>1. PICK a \in Attempts : \/ ReconcileStep(o, a) \/ PreparationStep(o, a)
                              \/ RunnerStep(o, a) \/ ResultStep(o, a)
    BY <1>1 DEF SchedulerStep
  <2>2. CASE RunnerStep(o, a)
    <3>1. CASE Launch(o, a)
      BY <1>runs, <3>1 DEF Launch, Supervised, RunsInv, RunTable, HistoryTyped
    <3>2. CASE NoLaunch(o, a)
      BY <1>still, <3>2 DEF NoLaunch, ledgerVars, rest, history, runner
    <3>3. CASE RunnerReturns(o, a)
      BY <1>runs, <3>3 DEF RunnerReturns, Supervised, RunsInv, RunTable
    <3>4. CASE RunnerAsks(o, a)
      BY <1>still, <3>4 DEF RunnerAsks, Supervised, runner
    <3>5. CASE MarkWaitingInput(o, a)
      <4>1. run[a] = "running"
        BY <3>5, AtStep DEF MarkWaitingInput, At, InStep, InRunner
      <4> QED BY <1>runs, <3>5, <4>1
                 DEF MarkWaitingInput, Supervised, RunsInv, RunTable
    <3>6. CASE RaiseQuestion(o, a)
      BY <1>still, <3>6 DEF RaiseQuestion, runner
    <3> QED BY <2>2, <3>1, <3>2, <3>3, <3>4, <3>5, <3>6 DEF RunnerStep
  <2> QED BY <1>still, <2>1, <2>2, RunnerLeftAlone
<1>2. CASE OperatorStep
  <2>1. ASSUME NEW a \in Attempts, NEW r \in {"retry", "other"}, RemedyRunner(a, r)
        PROVE  RunsInv'
    BY <1>runs, <2>1 DEF RemedyRunner, RunsInv, RunTable, HistoryTyped
  <2>2. ASSUME NEW a \in Attempts, ControlCancel(a)
        PROVE  RunsInv'
    BY <1>runs, <2>2
       DEF ControlCancel, TerminalizeCanceledAttempt, Serving, history, RunsInv,
           RunTable
  <2>3. CASE UNCHANGED runner
    BY <1>still, <2>3
  <2> QED BY <1>2, <2>1, <2>2, <2>3
      DEF OperatorStep, HumanTransition, ControlTransition, RemedyScheduler,
          RemedyEngine, ResolveEngineRequest, Serving, history, runner
<1>3. CASE Environment
  BY <1>still, <1>3
     DEF Environment, Crash, CrashControl, Restart, Elapse, OrphanExits, runner,
         ledgerVars, rest, history
<1>4. CASE UNCHANGED vars
  BY <1>still, <1>4 DEF vars, runner, ledgerVars, history
<1> QED BY <1>1, <1>2, <1>3, <1>4 DEF Next

\* What a step may leave alone of the three things the promise speaks of: why
\* an attempt was closed, its result, and the counts.
LeftKept == \A b \in Attempts : attempt'[b].left = attempt[b].left
ResultsKept == \A b \in Attempts : dispatch'[b].result = dispatch[b].result
CountsKept == UNCHANGED <<launches, resumes>>

\* A step that closes no attempt, records no result and counts nothing is a
\* stutter of the promise.
LEMMA Stutters ==
  ASSUME LeftKept, ResultsKept, CountsKept
  PROVE  UNCHANGED Promise!promiseVars
BY DEF LeftKept, ResultsKept, CountsKept, Promise!promiseVars

\* A step that ends an attempt closes it in the promise.
LEMMA Closes ==
  ASSUME NEW a \in Attempts, NEW why \in {"result", "skill", "operator", "cancel"},
         attempt[a].left = "none", attempt'[a].left = why,
         why = "result" => dispatch[a].result,
         \A b \in Attempts \ {a} : attempt'[b].left = attempt[b].left,
         ResultsKept, CountsKept
  PROVE  Promise!Next
<1>1. Promise!Close(a)
  BY DEF Promise!Close, Promise!Reasons, ResultsKept, CountsKept
<1> QED BY <1>1 DEF Promise!Next

\* accept_transition ends the attempt it is given and closes no other.
LEMMA Ends ==
  ASSUME Inv, NEW a \in Attempts, Active(a), NEW why \in {"result", "skill", "operator"},
         AcceptTransition(attempt[a].of, Ended(a, why))
  PROVE  /\ attempt[a].left = "none" /\ attempt'[a].left = why
         /\ \A b \in Attempts \ {a} : attempt'[b].left = attempt[b].left
<1>1. /\ attempt'[a].left = why
      /\ \A b \in Attempts \ {a} : attempt'[b] = attempt[b] \/ Born(b)
  BY EndedBy, Reads DEF Inv
<1>2. \A b \in Attempts : Closing(b)
  BY Reads DEF WorkflowInv
<1> QED BY <1>1, <1>2 DEF Closing, Active, Born

\* A step that writes one row, keeps its result and ends nothing is a stutter.
LEMMA RowStutters ==
  ASSUME NEW a \in Attempts, UNCHANGED attempt, CountsKept,
         dispatch'[a].result = dispatch[a].result,
         \A b \in Attempts \ {a} : dispatch'[b] = dispatch[b]
  PROVE  UNCHANGED Promise!promiseVars
BY Stutters DEF LeftKept, ResultsKept

\* Recovery writes nothing of the promise: it launches, records and closes
\* nothing.
LEMMA ReconcileStutters ==
  ASSUME Inv, NEW o \in Pollers, NEW a \in Attempts, ReconcileStep(o, a)
  PROVE  UNCHANGED Promise!promiseVars
<1>1. UNCHANGED attempt /\ CountsKept
  BY DEF ReconcileStep, Resume, RecoverDispatching, RecoverAmbiguousPreparation,
         RecoverCommitted, Takeover, Claim, ledgerVars, workflow, rest, history,
         CountsKept
<1>2. OthersKept(a) /\ dispatch'[a].result = dispatch[a].result
  <2>1. CASE Resume(o, a)
    BY <2>1, Reads, ResumeWrites, SupersedeWrites DEF Resume
  <2>2. CASE RecoverDispatching(o, a) \/ RecoverAmbiguousPreparation(o, a)
    BY <2>2
       DEF RecoverDispatching, RecoverAmbiguousPreparation, ledgerVars, OthersKept
  <2>3. CASE RecoverCommitted(o, a)
    BY <2>3, Reads, CompleteWrites DEF RecoverCommitted
  <2>4. CASE Takeover(o, a)
    BY <2>4, Reads, TakeoverWrites, SupersedeWrites DEF Takeover
  <2>5. CASE Claim(o, a)
    BY <2>5, Reads, ClaimWrites DEF Claim
  <2> QED BY <2>1, <2>2, <2>3, <2>4, <2>5 DEF ReconcileStep
<1> QED BY <1>1, <1>2, RowStutters DEF OthersKept

\* Of the preparation, only the commit of a skill failure closes an attempt.
LEMMA PreparationPromise ==
  ASSUME Inv, NEW o \in Pollers, NEW a \in Attempts, PreparationStep(o, a)
  PROVE  Promise!Next \/ UNCHANGED Promise!promiseVars
<1>1. CountsKept
  BY RunnerLeftAlone DEF runner, CountsKept
<1>2. CASE CommitSkillFailure(o, a)
  BY <1>1, <1>2, Ends, Closes DEF CommitSkillFailure, ResultsKept
<1>3. CASE UNCHANGED <<attempt, dispatch>>
  BY <1>1, <1>3, RowStutters
<1>4. CASE UNCHANGED attempt /\ OthersKept(a) /\ dispatch'[a].result = dispatch[a].result
  BY <1>1, <1>4, RowStutters DEF OthersKept
<1>5. CASE MarkPreparing(o, a) \/ MarkLaunchIntent(o, a)
  BY <1>4, <1>5, Reads, SetStatusWrites
     DEF MarkPreparing, MarkLaunchIntent, MarkDispatchPreparing, MarkDispatching,
         workflow
<1>6. CASE DeferForBudget(o, a) \/ Defer(o, a)
  BY <1>4, <1>6, Reads, DeferWrites DEF DeferForBudget, Defer, workflow
<1>7. CASE LinkEngineRequest(o, a)
  BY <1>4, <1>7, Reads, MarkAttentionWrites DEF LinkEngineRequest, workflow
<1>8. CASE DropDispatch(o, a)
  BY <1>4, <1>8, Reads, SupersedeWrites DEF DropDispatch, workflow
<1>9. CASE MarkPrepared(o, a)
  BY <1>4, <1>9, Reads, PreparedWrites DEF MarkPrepared, workflow
<1> QED BY <1>2, <1>3, <1>5, <1>6, <1>7, <1>8, <1>9
    DEF PreparationStep, BeginPreparation, ResolveSkills, ReturnAtOnce,
        ResumePreparation, MarkPreparationReady, FailPreparation, EngineAsks,
        NoteEngineRequest, NoFailedExit, workflow, ledgerVars

\* A row that is dispatching has no result yet, and its attempt is open.
LEMMA DispatchingIsPending ==
  ASSUME Inv, NEW a \in Attempts, Active(a), dispatch[a].status = "dispatching"
  PROVE  attempt[a].left = "none" /\ ~dispatch[a].result
<1>1. RowOf(a) /\ Closing(a)
  BY Reads DEF WorkflowInv
<1> QED BY <1>1 DEF RowOf, Stored, AtResult, Closing, Active

\* Of the runner, only the launch counts, and its row allows it.
LEMMA RunnerPromise ==
  ASSUME Inv, RunsInv, NEW o \in Pollers, NEW a \in Attempts, RunnerStep(o, a)
  PROVE  Promise!Next \/ UNCHANGED Promise!promiseVars
<1>1. UNCHANGED attempt
  BY DEF RunnerStep, Launch, NoLaunch, RunnerReturns, RunnerAsks,
         MarkWaitingInput, RaiseQuestion, Supervised, ledgerVars, workflow
<1>2. CASE Launch(o, a)
  <2>1. /\ Active(a) /\ UNCHANGED <<dispatch, resumes>>
        /\ launches' = [launches EXCEPT ![a] = @ + 1]
        /\ run[a] \in {"none", "resume_authorized"}
    BY <1>2 DEF Launch, Supervised
  <2>2. dispatch[a].status = "dispatching"
    BY <1>2, AtStep DEF Launch, At, InStep, InLedger
  <2>3. attempt[a].left = "none" /\ ~dispatch[a].result
    BY <2>1, <2>2, DispatchingIsPending
  <2>4. launches[a] <= resumes[a]
    BY <2>1, Reads DEF RunsInv, HistoryTyped
  <2>5. Promise!Launch(a)
    BY <1>1, <2>1, <2>3, <2>4 DEF Promise!Launch, Promise!Pending
  <2> QED BY <2>5 DEF Promise!Next
<1>3. CASE ~Launch(o, a)
  <2>1. CountsKept
    BY <1>3 DEF RunnerStep, NoLaunch, RunnerReturns, RunnerAsks, MarkWaitingInput,
       RaiseQuestion, Supervised, rest, history, CountsKept
  <2>2. OthersKept(a) /\ dispatch'[a].result = dispatch[a].result
    <3>1. CASE UNCHANGED dispatch
      BY <3>1 DEF OthersKept
    <3>2. CASE MarkDispatchAttention(a, "runner", "preparing")
      BY <3>2, MarkAttentionWrites, Reads
    <3> QED BY <1>3, <3>1, <3>2
               DEF RunnerStep, NoLaunch, RunnerReturns, RunnerAsks,
                   MarkWaitingInput, RaiseQuestion, Supervised, ledgerVars
  <2> QED BY <1>1, <2>1, <2>2, RowStutters DEF OthersKept
<1> QED BY <1>2, <1>3

\* The record is the promised one, and a commit by result follows it.
LEMMA ResultPromise ==
  ASSUME Inv, NEW o \in Pollers, NEW a \in Attempts, ResultStep(o, a)
  PROVE  Promise!Next \/ UNCHANGED Promise!promiseVars
<1>1. CountsKept
  BY RunnerLeftAlone DEF runner, CountsKept
<1>2. CASE RecordResult(o, a)
  <2>1. /\ Active(a) /\ dispatch[a].status = "dispatching" /\ UNCHANGED attempt
        /\ RecordDispatchResult(a)
    BY <1>2 DEF RecordResult, Holds, workflow
  <2>2. attempt[a].left = "none" /\ ~dispatch[a].result
    BY <2>1, DispatchingIsPending
  <2>3. dispatch'[a].result = TRUE /\ \A b \in Attempts \ {a} : dispatch'[b] = dispatch[b]
    BY <2>1, Reads, RecordWrites
       DEF OthersKept, RecordDispatchResult, DispatchTable, DispatchRow
  <2>4. Promise!Record(a)
    BY <1>1, <2>1, <2>2, <2>3 DEF Promise!Record, Promise!Pending, CountsKept
  <2> QED BY <2>4 DEF Promise!Next
<1>3. CASE CommitResult(o, a)
  <2>1. Active(a) /\ AcceptTransition(attempt[a].of, Ended(a, "result")) /\ UNCHANGED dispatch
    BY <1>3 DEF CommitResult
  <2>2. dispatch[a].status = "result_ready" /\ RowOf(a)
    BY <1>3, AtStep DEF CommitResult, At, InStep, InLedger
  <2>3. dispatch[a].result
    BY <2>2 DEF RowOf, Stored, AtResult
  <2> QED BY <1>1, <2>1, <2>3, Ends, Closes DEF ResultsKept
<1>4. CASE UNCHANGED attempt /\ OthersKept(a) /\ dispatch'[a].result = dispatch[a].result
  BY <1>1, <1>4, RowStutters DEF OthersKept
<1>5. CASE UNCHANGED <<attempt, dispatch>>
  BY <1>1, <1>5, RowStutters
<1>6. CASE FinishDispatch(o, a)
  BY <1>4, <1>6, Reads, CompleteWrites DEF FinishDispatch, workflow
<1>7. CASE Stale(o, a)
  <2>1. UNCHANGED attempt /\ (SupersedeDispatch(a) \/ UNCHANGED dispatch)
    BY <1>7 DEF Stale, SupersedeDispatch, workflow
  <2> QED BY <1>4, <1>5, <2>1, Reads, SupersedeWrites
<1>8. CASE Raise(o, a)
  <2>1. UNCHANGED attempt /\ (CompleteDispatch(a) \/ UNCHANGED dispatch)
    BY <1>8 DEF Raise, workflow
  <2> QED BY <1>4, <1>5, <2>1, Reads, CompleteWrites
<1>9. CASE LinkRequest(o, a)
  BY <1>4, <1>9, Reads, MarkAttentionWrites DEF LinkRequest, workflow
<1> QED BY <1>2, <1>3, <1>5, <1>6, <1>7, <1>8, <1>9
           DEF ResultStep, CleanupAttempt, HoldPreparation, OpenRequest, Escape,
               workflow, ledgerVars

\* Transition and cancel close an attempt, a retried question permits a launch,
\* and every other command is a stutter.
LEMMA OperatorPromise ==
  ASSUME Inv, RunsInv, OperatorStep
  PROVE  Promise!Next \/ UNCHANGED Promise!promiseVars
<1> USE DEF Serving, history
<1>closing. \A b \in Attempts : Closing(b)
  BY Reads DEF WorkflowInv
<1>1. ASSUME NEW e \in Executions, HumanTransition(e)
      PROVE  UNCHANGED Promise!promiseVars
  <2>1. AcceptTransition(e, attempt) /\ UNCHANGED dispatch /\ CountsKept
    BY <1>1 DEF HumanTransition, CountsKept
  <2>2. LeftKept
    <3>1. CASE attempt' = attempt
      BY <3>1 DEF LeftKept
    <3>2. ASSUME NEW b \in Attempts, Fresh(b),
                 attempt' = [attempt EXCEPT ![b] =
                               [status |-> "active", of |-> e, left |-> "none"]]
          PROVE  LeftKept
      <4>1. attempt[b].left = "none"
        BY <1>closing, <3>2 DEF Fresh, Closing
      <4> QED BY <3>2, <4>1 DEF LeftKept, Inv, TypeInv, AttemptTable
    <3> QED BY <2>1, <3>1, <3>2 DEF AcceptTransition
  <2> QED BY <2>1, <2>2, Stutters DEF ResultsKept
<1>2. ASSUME NEW a \in Attempts, ControlTransition(a)
      PROVE  Promise!Next
  <2>1. /\ Active(a) /\ AcceptTransition(attempt[a].of, Ended(a, "operator"))
        /\ UNCHANGED dispatch /\ CountsKept
    BY <1>2 DEF ControlTransition, CountsKept
  <2> QED BY <2>1, Ends, Closes DEF ResultsKept
<1>3. ASSUME NEW a \in Attempts, ControlCancel(a)
      PROVE  Promise!Next
  <2>1. /\ Active(a) /\ TerminalizeCanceledAttempt(a) /\ attempt' = Ended(a, "cancel")
        /\ CountsKept
    BY <1>3 DEF ControlCancel, CountsKept
  <2>2. ResultsKept
    BY <2>1, Reads, TerminalizeWrites DEF ResultsKept, OthersKept, RunTable
  <2>3. /\ attempt[a].left = "none" /\ attempt'[a].left = "cancel"
        /\ \A b \in Attempts \ {a} : attempt'[b] = attempt[b]
    BY <1>closing, <2>1, EndedWrites
       DEF Closing, Active, Inv, TypeInv, AttemptTable
  <2> QED BY <2>1, <2>2, <2>3, Closes
<1>4. ASSUME NEW a \in Attempts, NEW c \in Categories, NEW r,
             ResolveAttention(a, c, r), UNCHANGED attempt, CountsKept
      PROVE  UNCHANGED Promise!promiseVars
  BY <1>4, Reads, ResolveWrites, RowStutters DEF OthersKept
<1>5. ASSUME NEW a \in Attempts, NEW c \in SchedulerCategories, RemedyScheduler(a, c)
      PROVE  UNCHANGED Promise!promiseVars
  BY <1>4, <1>5 DEF RemedyScheduler, Categories, workflow, CountsKept
<1>6. ASSUME NEW a \in Attempts, NEW r \in {"retry", "other"}, RemedyEngine(a, r)
      PROVE  UNCHANGED Promise!promiseVars
  BY <1>6, RowStutters DEF RemedyEngine, workflow, CountsKept
<1>7. ASSUME NEW a \in Attempts, NEW r \in {"retry", "other"}, RemedyRunner(a, r)
      PROVE  Promise!Next \/ UNCHANGED Promise!promiseVars
  <2>1. /\ Active(a) /\ ~AmbiguousDispatch(attempt[a].of) /\ run[a] = "waiting_input"
        /\ ResolveAttention(a, "runner", r) /\ UNCHANGED <<attempt, launches>>
        /\ resumes' = [resumes EXCEPT ![a] = IF r = "retry" THEN @ + 1 ELSE @]
    BY <1>7 DEF RemedyRunner, Remedied, workflow
  <2>2. "runner" \in Categories
    BY DEF Categories
  <2>3. CASE r = "retry"
    <3>1. RowOf(a) /\ dispatch[a].status # "dispatching"
      BY <2>1, Refuses, Reads
    <3>2. ~dispatch[a].result
      BY <2>1, <3>1 DEF RowOf, Waiting, Stored, AtResult
    <3>3. launches[a] > resumes[a]
      BY <2>1, Reads DEF RunsInv, HistoryTyped
    <3>4. ResultsKept
      BY <2>1, <2>2, Reads, ResolveWrites DEF ResultsKept, OthersKept
    <3>5. Promise!Permit(a)
      BY <1>closing, <2>1, <2>3, <3>2, <3>3, <3>4
         DEF Promise!Permit, Promise!Pending, ResultsKept, Closing, Active
    <3> QED BY <3>5 DEF Promise!Next
  <2>4. CASE r # "retry"
    <3>1. CountsKept
      BY <2>1, <2>4, Reads DEF CountsKept, HistoryTyped
    <3> QED BY <1>4, <2>1, <2>2, <3>1
  <2> QED BY <2>3, <2>4
<1>8. CASE ResolveEngineRequest
  <2>1. /\ operator.a \in Attempts /\ "engine" \in Categories
        /\ ResolveAttention(operator.a, "engine", operator.remedy)
        /\ UNCHANGED attempt /\ CountsKept
    BY <1>8, Reads
       DEF ResolveEngineRequest, RemedyInv, Categories, workflow, CountsKept
  <2> QED BY <1>4, <2>1
<1> QED BY <1>1, <1>2, <1>3, <1>5, <1>6, <1>7, <1>8 DEF OperatorStep

\* A crash, a restart, a clock and a dying process write nothing of the promise.
LEMMA EnvironmentStutters ==
  ASSUME Inv, Environment
  PROVE  UNCHANGED Promise!promiseVars
<1>1. UNCHANGED attempt /\ CountsKept
  BY DEF Environment, Crash, CrashControl, Restart, Elapse, OrphanExits,
         ledgerVars, rest, history, workflow, CountsKept
<1>2. ResultsKept
  <2>1. ASSUME NEW o \in Pollers, Crash(o)
        PROVE  ResultsKept
    <3>1. \A row \in DispatchRow : [row EXCEPT !.tokens = @ \ {o}].result = row.result
      BY DEF DispatchRow
    <3> QED BY <2>1, <3>1, Reads DEF Crash, ResultsKept, DispatchTable
  <2>2. ASSUME NEW a \in Attempts, Elapse(a)
        PROVE  ResultsKept
    <3>1. \A row \in DispatchRow : [row EXCEPT !.timer = "elapsed"].result = row.result
      BY DEF DispatchRow
    <3>2. dispatch' = [dispatch EXCEPT ![a] = [@ EXCEPT !.timer = "elapsed"]]
      BY <2>2 DEF Elapse
    <3> QED BY <3>1, <3>2, Reads DEF ResultsKept, DispatchTable
  <2> QED BY <2>1, <2>2
             DEF Environment, CrashControl, Restart, OrphanExits, ledgerVars,
                 ResultsKept
<1> QED BY <1>1, <1>2, Stutters DEF LeftKept

\* Every step of the scheduler is a step of the promise or a stutter.
LEMMA PromiseStep ==
  ASSUME SingleWriter
  PROVE  TypeInv /\ SafetyInv /\ RunsInv /\ [Next]_vars
           => [Promise!Next]_(Promise!promiseVars)
<1> SUFFICES ASSUME Inv, RunsInv, [Next]_vars
             PROVE  Promise!Next \/ UNCHANGED Promise!promiseVars
  BY DEF Inv
<1>1. ASSUME NEW o \in Pollers, SchedulerStep(o)
      PROVE  Promise!Next \/ UNCHANGED Promise!promiseVars
  BY <1>1, ReconcileStutters, PreparationPromise, RunnerPromise, ResultPromise
     DEF SchedulerStep
<1>2. CASE UNCHANGED vars
  BY <1>2, Stutters
     DEF vars, ledgerVars, history, LeftKept, ResultsKept, CountsKept
<1> QED BY <1>1, <1>2, OperatorPromise, EnvironmentStutters DEF Next

\* The scheduler implements AttemptPromise: a runner is launched once, and again
\* only with a fresh permit and never after its result; a result is recorded
\* once; an attempt is closed once, by its result only after it was recorded.
THEOREM PromiseIsKept ==
  ASSUME SingleWriter PROVE Spec => KeepsPromise
<1>1. Init => TypeInv /\ SafetyInv
  BY InitTyped, InitSafe
<1>2. TypeInv /\ SafetyInv /\ [Next]_vars => TypeInv' /\ SafetyInv'
  BY StepTyped, SafetyStep
<1>3. Init => RunsInv
  BY DEF Init, LedgerInit, RunsInv
<1>4. TypeInv /\ SafetyInv /\ RunsInv /\ [Next]_vars => RunsInv'
  BY RunsStep
<1>5. Init => Promise!Init
  BY DEF Init, LedgerInit, NoDispatch, Promise!Init
<1>6. TypeInv /\ SafetyInv /\ RunsInv /\ [Next]_vars
        => [Promise!Next]_(Promise!promiseVars)
  BY PromiseStep
<1> QED BY <1>1, <1>2, <1>3, <1>4, <1>5, <1>6, PTL
           DEF Spec, KeepsPromise, Promise!Spec
-----------------------------------------------------------------------------
(* Two runners never work for one attempt, however many schedulers poll the *)
(* ledger, until the first crash or remedy.  No instance lock is assumed:   *)
(* what keeps schedulers apart is the claim token and the owner of a row.   *)
(*                                                                          *)
(* OneLauncher is not inductive.  Its inductive form, Orderly, says of an   *)
(* attempt that is not over: a worker past its claim finds the row where it *)
(* left it, under its own token only, unless somebody asked for attention;  *)
(* a row a scheduler could recover belongs to a turn of that scheduler that *)
(* is still going on, so recovery has nothing to take over; and no answered *)
(* request makes a row claimable again.  A crash breaks the second and a    *)
(* remedy the third, and OneLauncher with them.                             *)

\* The attempt is over: nothing is launched for it any more.
Over(a) == attempt[a].status = "completed"

\* The steps of a turn by the status a worker keeps its row in.
Engaged == {"prepare", "preparing", "noting", "ready", "busy", "blocked", "skill"}
Launching == {"launch", "running", "asking", "asked", "record"}
Settling == {"cleanup", "uncleaned", "unclean", "commit"}

\* The steps of a worker that is in no turn.
Off == {"idle", "down"}

\* The row is where worker o left it, or in attention.
Keeps(o, a, status) ==
  \/ dispatch[a].status = "attention"
  \/ dispatch[a].status = status /\ dispatch[a].tokens = {o}

\* A row has at most one current holder, its owner, and no answered request.
OrderlyRow(a) ==
  /\ dispatch[a].remedy = "none"
  /\ \A o \in dispatch[a].tokens :
       dispatch[a].tokens = {o} /\ dispatch[a].owner = o
  /\ dispatch[a].status = "attention" => dispatch[a].tokens = {}
  /\ dispatch[a].status # "none" => attempt[a].status # "none"
  /\ attempt[a].left # "none" => Over(a)

\* A worker in its turn keeps its row while the attempt is not over.
OrderlyTurn(o, a) ==
  /\ attempt[a].status # "none"
  /\ Over(a) \/ (worker[o].path = "tick" /\ worker[o].at \notin {"drop", "finish"})
  /\ ~Over(a) =>
       /\ worker[o].at \in Engaged => Keeps(o, a, "preparing")
       /\ worker[o].at \in Launching => Keeps(o, a, "dispatching")
       /\ worker[o].at \in Settling => Keeps(o, a, "result_ready")

\* A row recovery would look at is in its owner's turn.
OrderlyOwner(o, a) ==
  ~Over(a) /\ dispatch[a].owner = o =>
    /\ dispatch[a].status = "preparing" =>
         worker[o].a = a /\ worker[o].at \in Engaged \cup {"attend", "link"}
    /\ dispatch[a].status = "dispatching" =>
         worker[o].a = a /\ worker[o].at \in Launching \cup {"attend", "link"}
    /\ dispatch[a].status = "result_ready" =>
         worker[o].a = a /\ worker[o].at \in Settling \cup {"attend", "link"}

\* The inductive form of OneLauncher.
Orderly ==
  /\ operator = NoRemedy
  /\ \A a \in Attempts : OrderlyRow(a)
  /\ \A o \in Pollers : worker[o].at \notin Off => worker[o].a \in Attempts
  /\ \A o \in Pollers, a \in Attempts :
       /\ worker[o].at \notin Off /\ worker[o].a = a => OrderlyTurn(o, a)
       /\ OrderlyOwner(o, a)
  /\ OneLauncher

\* It lasts until the first crash or remedy.
LauncherInv == crashes = 0 /\ remedies = 0 => Orderly

\* An empty ledger and resting workers satisfy it.
LEMMA InitOrderly == Init => LauncherInv
<1> SUFFICES ASSUME Init PROVE Orderly
  BY DEF LauncherInv
<1> USE DEF Init, LedgerInit, Idle
<1>1. \A a \in Attempts : OrderlyRow(a)
  BY DEF OrderlyRow, NoDispatch
<1>2. \A o \in Pollers, a \in Attempts : OrderlyOwner(o, a)
  BY DEF OrderlyOwner, NoDispatch
<1>3. OneLauncher
  BY DEF OneLauncher
<1> QED BY <1>1, <1>2, <1>3 DEF Orderly, Off

(* What the transactions write of a row's owner, tokens and remedy.         *)

\* claim_dispatch makes the claimer the owner.
LEMMA ClaimOwns ==
  ASSUME DispatchTable, NEW o, NEW a \in Attempts, ClaimDispatch(o, a)
  PROVE  /\ dispatch'[a].owner = o
         /\ dispatch'[a].remedy = dispatch[a].remedy
<1>1. \A row \in DispatchRow :
        LET new == [row EXCEPT !.status = "claimed", !.owner = o,
                               !.tokens = {o}, !.timer = "running"]
        IN  new.owner = o /\ new.remedy = row.remedy
  BY DEF DispatchRow
<1> QED BY <1>1 DEF DispatchTable, ClaimDispatch

\* A write of a status leaves them alone.
LEMMA SetStatusOwns ==
  ASSUME DispatchTable, NEW a \in Attempts, NEW status, NEW timer,
         SetStatus(a, status, timer)
  PROVE  /\ dispatch'[a].owner = dispatch[a].owner
         /\ dispatch'[a].remedy = dispatch[a].remedy
<1>1. \A row \in DispatchRow :
        LET new == [row EXCEPT !.status = status, !.timer = timer]
        IN  new.owner = row.owner /\ new.remedy = row.remedy
  BY DEF DispatchRow
<1> QED BY <1>1 DEF DispatchTable, SetStatus

\* mark_dispatch_prepared tells its caller the token and nobody else.
LEMMA PreparedOwns ==
  ASSUME DispatchTable, NEW o, NEW a \in Attempts, MarkDispatchPrepared(o, a)
  PROVE  /\ dispatch'[a].owner = dispatch[a].owner
         /\ dispatch'[a].remedy = dispatch[a].remedy
         /\ dispatch'[a].tokens = dispatch[a].tokens \cup {o}
<1>1. \A row \in DispatchRow : \A t :
        LET new == [row EXCEPT !.status = "prepared", !.timer = "running",
                               !.tokens = t]
        IN  new.owner = row.owner /\ new.remedy = row.remedy /\ new.tokens = t
  BY DEF DispatchRow
<1> QED BY <1>1 DEF DispatchTable, MarkDispatchPrepared

\* record_dispatch_result leaves them alone.
LEMMA RecordOwns ==
  ASSUME DispatchTable, NEW a \in Attempts, RecordDispatchResult(a)
  PROVE  /\ dispatch'[a].owner = dispatch[a].owner
         /\ dispatch'[a].remedy = dispatch[a].remedy
         /\ dispatch'[a].tokens = dispatch[a].tokens
<1>1. \A row \in DispatchRow :
        LET new == [row EXCEPT !.status = "result_ready", !.result = TRUE]
        IN  /\ new.owner = row.owner /\ new.remedy = row.remedy
            /\ new.tokens = row.tokens
  BY DEF DispatchRow
<1> QED BY <1>1 DEF DispatchTable, RecordDispatchResult

\* A row that is given up has no holder and no answered request.
GivenUp(a) == dispatch'[a].tokens = {} /\ dispatch'[a].remedy = "none"

\* defer_dispatch gives up the row.
LEMMA DeferGivesUp ==
  ASSUME DispatchTable, NEW a \in Attempts, DeferDispatch(a),
         dispatch[a].remedy = "none"
  PROVE  GivenUp(a)
<1>1. \A row \in DispatchRow :
        LET new == [row EXCEPT !.status = "waiting", !.timer = "running",
                               !.tokens = {}]
        IN  new.tokens = {} /\ new.remedy = row.remedy
  BY DEF DispatchRow
<1> QED BY <1>1 DEF DispatchTable, DeferDispatch, GivenUp

\* So does mark_dispatch_attention.
LEMMA MarkAttentionGivesUp ==
  ASSUME DispatchTable, NEW a \in Attempts, NEW category, NEW phase,
         MarkDispatchAttention(a, category, phase), OrderlyRow(a)
  PROVE  GivenUp(a) /\ dispatch'[a].status = "attention"
<1>1. \A row \in DispatchRow :
        LET new == [row EXCEPT !.status = "attention", !.timer = "none",
                               !.tokens = {}, !.link = category,
                               !.remedy = "none", !.phase = phase]
        IN  new.tokens = {} /\ new.remedy = "none" /\ new.status = "attention"
  BY DEF DispatchRow
<1> QED BY <1>1 DEF DispatchTable, MarkDispatchAttention, GivenUp, OrderlyRow

\* So does complete_dispatch.
LEMMA CompleteGivesUp ==
  ASSUME DispatchTable, NEW a \in Attempts, CompleteDispatch(a),
         dispatch[a].remedy = "none"
  PROVE  GivenUp(a)
<1>1. \A row \in DispatchRow :
        LET new == [row EXCEPT !.status = "completed", !.timer = "none",
                               !.tokens = {}]
        IN  new.tokens = {} /\ new.remedy = row.remedy
  BY DEF DispatchRow
<1> QED BY <1>1 DEF DispatchTable, CompleteDispatch, GivenUp

\* So does superseding it.
LEMMA SupersededGivesUp ==
  ASSUME NEW row \in DispatchRow
  PROVE  Superseded(row).tokens = {} /\ Superseded(row).remedy = "none"
BY DEF DispatchRow, Superseded

\* supersede_dispatch gives up the row it supersedes.
LEMMA SupersedeGivesUp ==
  ASSUME DispatchTable, NEW a \in Attempts, SupersedeDispatch(a)
  PROVE  GivenUp(a)
BY SupersededGivesUp DEF DispatchTable, SupersedeDispatch, GivenUp

(* How attempts age.                                                        *)

\* In a step an attempt stays as it is, is created, or is over.
Ages(b) ==
  \/ attempt'[b] = attempt[b]
  \/ Born(b)
  \/ attempt[b].status # "none" /\ attempt'[b].status = "completed"

\* accept_transition ages attempts in no other way.
LEMMA TransitionAges ==
  ASSUME AttemptTable, NEW a \in Attempts, Active(a), NEW why,
         AcceptTransition(attempt[a].of, Ended(a, why))
  PROVE  /\ attempt'[a].status = "completed"
         /\ \A b \in Attempts : Ages(b)
<1>1. /\ Ended(a, why)[a].status = "completed"
      /\ \A b \in Attempts \ {a} : Ended(a, why)[b] = attempt[b]
  BY EndedWrites DEF AttemptTable
<1>2. DOMAIN Ended(a, why) = Attempts
  BY DEF Ended, AttemptTable
<1>3. CASE attempt' = Ended(a, why)
  BY <1>1, <1>3 DEF Ages, Active
<1>4. ASSUME NEW b \in Attempts, Fresh(b),
             attempt' = [Ended(a, why) EXCEPT ![b] =
                           [status |-> "active", of |-> attempt[a].of, left |-> "none"]]
      PROVE  /\ attempt'[a].status = "completed"
             /\ \A c \in Attempts : Ages(c)
  <2>1. b # a
    BY <1>4 DEF Fresh, Active
  <2>2. \A c \in Attempts :
          attempt'[c] = IF c = b
                        THEN [status |-> "active", of |-> attempt[a].of, left |-> "none"]
                        ELSE Ended(a, why)[c]
    BY <1>2, <1>4 DEF Ended
  <2>3. Born(b)
    BY <1>4, <2>2 DEF Born, Fresh
  <2>4. attempt'[a].status = "completed" /\ attempt[a].status # "none"
    BY <1>1, <2>1, <2>2 DEF Active
  <2> QED BY <1>1, <2>2, <2>3, <2>4 DEF Ages
<1> QED BY <1>3, <1>4 DEF AcceptTransition

\* What is over stays over, and an attempt is over before it is left.
LEMMA AgesWell ==
  ASSUME NEW b \in Attempts, Ages(b)
  PROVE  /\ Over(b) => Over(b)'
         /\ attempt[b].status # "none" => attempt'[b].status # "none"
         /\ (attempt[b].left # "none" => Over(b)) =>
              (attempt'[b].left # "none" => Over(b)')
BY DEF Ages, Born, Over

(* One worker's step.                                                       *)

\* No other worker is past its claim of attempt a.
Free(o, a) ==
  \A p \in Pollers \ {o} :
    worker[p].a = a => worker[p].at \notin Engaged \cup Launching \cup Settling

\* What the step leaves alone: every other worker and row, and of the attempts
\* all but what ages.
Frames(o, a) ==
  /\ \A p \in Pollers \ {o} : worker'[p] = worker[p]
  /\ OthersKept(a)
  /\ \A b \in Attempts : Ages(b)
  /\ operator' = operator
  /\ worker[o].at # "idle" => worker[o].a = a

\* The row as the others see it: the attempt is over, or its row is as it was, or
\* asks for attention, or nobody else is in a turn that needs it.
Yields(o, a) ==
  \/ Over(a)'
  \/ dispatch'[a] = dispatch[a]
  \/ dispatch'[a].status = "attention"
  \/ /\ Free(o, a)
     /\ \/ dispatch'[a].owner = o
        \/ dispatch'[a].status \notin {"preparing", "dispatching", "result_ready"}

\* What is to be shown of the step of worker o for attempt a.
Advances(o, a) ==
  /\ OrderlyRow(a)'
  /\ Yields(o, a)
  /\ worker'[o].at \notin Off => worker'[o].a = a /\ OrderlyTurn(o, a)'
  /\ OrderlyOwner(o, a)'
  /\ worker'[o].at \in Launching => worker[o].at \in Launching \/ Free(o, a)

\* Resting workers are in no turn.
LEMMA OffIsOff ==
  /\ Off \cap Launching = {} /\ Off \cap Engaged = {} /\ Off \cap Settling = {}
  /\ "attend" \notin Off /\ "link" \notin Off
BY DEF Off, Launching, Engaged, Settling

\* A row the step leaves alone stays orderly.
LEMMA OtherRowOrderly ==
  ASSUME Orderly, NEW o \in Pollers, NEW a \in Attempts, Frames(o, a),
         NEW b \in Attempts \ {a}
  PROVE  OrderlyRow(b)'
<1>1. dispatch'[b] = dispatch[b] /\ Ages(b) /\ OrderlyRow(b)
  BY DEF Frames, OthersKept, Orderly
<1> QED BY <1>1, AgesWell DEF OrderlyRow

\* So do the turns and the owners of the rows it leaves alone.
LEMMA OtherTurnOrderly ==
  ASSUME Orderly, NEW o \in Pollers, NEW a \in Attempts, Frames(o, a),
         Advances(o, a), NEW p \in Pollers, NEW b \in Attempts \ {a}
  PROVE  /\ worker'[p].at \notin Off /\ worker'[p].a = b => OrderlyTurn(p, b)'
         /\ OrderlyOwner(p, b)'
<1>1. dispatch'[b] = dispatch[b] /\ Ages(b)
  BY DEF Frames, OthersKept
<1>2. CASE p = o
  <2>1. worker'[o].at \notin Off => worker'[o].a = a
    BY DEF Advances
  <2>2. OrderlyOwner(o, b)
    BY DEF Orderly
  <2>3. worker[o].at = "idle" \/ worker[o].a # b
    BY DEF Frames
  <2>4. OrderlyOwner(o, b)'
    BY <1>1, <2>2, <2>3, AgesWell DEF OrderlyOwner, Engaged, Launching, Settling
  <2> QED BY <1>2, <2>1, <2>4
<1>3. CASE p # o
  <2>1. worker'[p] = worker[p]
    BY <1>3 DEF Frames
  <2>2. /\ worker[p].at \notin Off /\ worker[p].a = b => OrderlyTurn(p, b)
        /\ OrderlyOwner(p, b)
    BY DEF Orderly
  <2>3. OrderlyOwner(p, b)'
    BY <1>1, <2>1, <2>2, AgesWell DEF OrderlyOwner
  <2>4. worker'[p].at \notin Off /\ worker'[p].a = b => OrderlyTurn(p, b)'
    BY <1>1, <2>1, <2>2, AgesWell DEF OrderlyTurn, Keeps
  <2> QED BY <2>3, <2>4
<1> QED BY <1>2, <1>3

\* So do the other workers' turns for the attempt of the step.
LEMMA OthersSeeOrder ==
  ASSUME Orderly, NEW o \in Pollers, NEW a \in Attempts, Frames(o, a),
         Advances(o, a), NEW p \in Pollers \ {o}
  PROVE  /\ worker'[p].at \notin Off /\ worker'[p].a = a => OrderlyTurn(p, a)'
         /\ OrderlyOwner(p, a)'
<1>1. worker'[p] = worker[p] /\ Ages(a) /\ Yields(o, a)
  BY DEF Frames, Advances
<1>2. /\ worker[p].at \notin Off /\ worker[p].a = a => OrderlyTurn(p, a)
      /\ OrderlyOwner(p, a)
  BY DEF Orderly
<1>3. CASE Over(a)'
  BY <1>1, <1>2, <1>3, AgesWell DEF OrderlyTurn, OrderlyOwner
<1>4. CASE dispatch'[a] = dispatch[a]
  BY <1>1, <1>2, <1>4, AgesWell DEF OrderlyTurn, OrderlyOwner, Keeps
<1>5. CASE dispatch'[a].status = "attention"
  BY <1>1, <1>2, <1>5, AgesWell DEF OrderlyTurn, OrderlyOwner, Keeps
<1>6. CASE /\ Free(o, a)
           /\ \/ dispatch'[a].owner = o
              \/ dispatch'[a].status \notin {"preparing", "dispatching", "result_ready"}
  <2>1. worker[p].a = a => worker[p].at \notin Engaged \cup Launching \cup Settling
    BY <1>6 DEF Free
  <2>2. worker'[p].at \notin Off /\ worker'[p].a = a => OrderlyTurn(p, a)'
    BY <1>1, <1>2, <2>1, AgesWell DEF OrderlyTurn
  <2>3. OrderlyOwner(p, a)'
    BY <1>6 DEF OrderlyOwner
  <2> QED BY <2>2, <2>3
<1> QED BY <1>1, <1>3, <1>4, <1>5, <1>6 DEF Yields

\* A step that advances keeps the order.
LEMMA AdvanceOrderly ==
  ASSUME Orderly, NEW o \in Pollers, NEW a \in Attempts, Frames(o, a),
         Advances(o, a)
  PROVE  Orderly'
<1>1. \A b \in Attempts : OrderlyRow(b)'
  BY OtherRowOrderly DEF Advances
<1>2. \A p \in Pollers : worker'[p].at \notin Off => worker'[p].a \in Attempts
  BY DEF Orderly, Frames, Advances
<1>3. \A p \in Pollers, b \in Attempts :
        /\ worker'[p].at \notin Off /\ worker'[p].a = b => OrderlyTurn(p, b)'
        /\ OrderlyOwner(p, b)'
  <2> TAKE p \in Pollers, b \in Attempts
  <2>1. CASE b # a
    BY <2>1, OtherTurnOrderly
  <2>2. CASE b = a /\ p # o
    BY <2>2, OthersSeeOrder
  <2>3. CASE b = a /\ p = o
    BY <2>3 DEF Advances
  <2> QED BY <2>1, <2>2, <2>3
<1>4. OneLauncher'
  <2> SUFFICES ASSUME NEW p \in Pollers, NEW q \in Pollers,
                      worker'[p].at \in Launching, worker'[q].at \in Launching,
                      worker'[p].a = worker'[q].a
               PROVE  p = q
    BY DEF OneLauncher, Launching
  <2>1. \A r, s \in Pollers :
          worker[r].at \in Launching /\ worker[s].at \in Launching
            /\ worker[r].a = worker[s].a => r = s
    BY DEF Orderly, OneLauncher, Launching
  <2>2. worker'[o].at \in Launching =>
          /\ worker'[o].a = a
          /\ (worker[o].at \in Launching /\ worker[o].a = a) \/ Free(o, a)
    BY OffIsOff DEF Advances, Frames, Launching
  <2>3. \A r \in Pollers \ {o} : worker'[r] = worker[r]
    BY DEF Frames
  <2> QED BY <2>1, <2>2, <2>3 DEF Free
<1>5. operator' = NoRemedy
  BY DEF Orderly, Frames
<1> QED BY <1>1, <1>2, <1>3, <1>4, <1>5 DEF Orderly

\* A step that moves no worker but up, and changes no row of an attempt that is
\* not over in anything but its timer, keeps the order.
LEMMA RowsOrderly ==
  ASSUME Orderly, operator' = operator,
         \A o \in Pollers :
           \/ worker'[o] = worker[o]
           \/ worker[o].at \in Off /\ worker'[o].at \in Off,
         \A b \in Attempts :
           /\ Ages(b) /\ OrderlyRow(b)'
           /\ \/ Over(b)'
              \/ /\ dispatch'[b].status = dispatch[b].status
                 /\ dispatch'[b].owner = dispatch[b].owner
                 /\ dispatch'[b].tokens = dispatch[b].tokens
  PROVE  Orderly'
<1>1. \A p \in Pollers : worker'[p].at \notin Off => worker'[p].a \in Attempts
  BY DEF Orderly
<1>2. ASSUME NEW p \in Pollers, NEW b \in Attempts
      PROVE  /\ worker'[p].at \notin Off /\ worker'[p].a = b => OrderlyTurn(p, b)'
             /\ OrderlyOwner(p, b)'
  <2>1. /\ worker[p].at \notin Off /\ worker[p].a = b => OrderlyTurn(p, b)
        /\ OrderlyOwner(p, b) /\ Ages(b)
    BY DEF Orderly
  <2>2. worker'[p].at \notin Off /\ worker'[p].a = b => OrderlyTurn(p, b)'
    BY <2>1, AgesWell DEF OrderlyTurn, Keeps
  <2>3. worker'[p] = worker[p] \/ worker[p].at \in Off
    OBVIOUS
  <2>4. OrderlyOwner(p, b)'
    BY <2>1, <2>3, AgesWell, OffIsOff DEF OrderlyOwner
  <2> QED BY <2>2, <2>4
<1>3. OneLauncher'
  BY OffIsOff DEF Orderly, OneLauncher, Launching
<1> QED BY <1>1, <1>2, <1>3 DEF Orderly

(* The steps.                                                               *)

\* The parts of the type invariant the steps use.
LEMMA Tables ==
  ASSUME TypeInv
  PROVE  /\ WorkerTable /\ DispatchTable /\ AttemptTable
         /\ \A a \in Attempts : attempt[a].status \in {"none", "active", "completed"}
BY DEF TypeInv, Workers, AttemptTable, AttemptRow

\* No other worker moves.
OnlyMoves(o) == \A p \in Pollers \ {o} : worker'[p] = worker[p]

\* A worker's own control state is all it writes.
LEMMA MovesItself ==
  ASSUME WorkerTable, NEW o \in Pollers, NEW a
  PROVE  /\ UNCHANGED worker => OnlyMoves(o)
         /\ \A w : worker' = [worker EXCEPT ![o] = w] => OnlyMoves(o)
         /\ \A step : Go(o, step) => OnlyMoves(o)
         /\ \A path, step : Turn(o, a, path, step) => OnlyMoves(o)
         /\ \A path, category, phase, h :
              Attend(o, a, path, category, phase, h) => OnlyMoves(o)
         /\ \A disposition : Disposed(o, a, disposition) => OnlyMoves(o)
<1>1. UNCHANGED worker => OnlyMoves(o)
  BY DEF OnlyMoves
<1>2. \A w : worker' = [worker EXCEPT ![o] = w] => OnlyMoves(o)
  BY DEF OnlyMoves, WorkerTable
<1>3. \A step : Go(o, step) => OnlyMoves(o)
  BY DEF Go, OnlyMoves, WorkerTable
<1>4. \A path, step : Turn(o, a, path, step) => OnlyMoves(o)
  BY <1>2 DEF Turn
<1>5. \A path, category, phase, h :
        Attend(o, a, path, category, phase, h) => OnlyMoves(o)
  BY <1>2 DEF Attend
<1>6. \A disposition : Disposed(o, a, disposition) => OnlyMoves(o)
  BY <1>3, <1>5 DEF Disposed
<1> QED BY <1>1, <1>2, <1>3, <1>4, <1>5, <1>6

\* A worker that asks for attention keeps its attempt and the path given.
LEMMA AttendWrites ==
  ASSUME WorkerTable, NEW o \in Pollers, NEW a, NEW path, NEW category, NEW phase,
         NEW h, Attend(o, a, path, category, phase, h)
  PROVE  worker'[o].at = "attend" /\ worker'[o].a = a /\ worker'[o].path = path
BY DEF WorkerTable, Attend

\* Whatever prepare returned, its caller keeps its attempt and its path.
LEMMA DisposedKeeps ==
  ASSUME WorkerTable, NEW o \in Pollers, NEW a, NEW disposition,
         worker[o].a = a, Disposed(o, a, disposition)
  PROVE  /\ worker'[o].a = a /\ worker'[o].path = worker[o].path
         /\ \/ worker'[o].at = "attend"
            \/ worker[o].path = "replay" /\ worker'[o].at = "cleanup"
            \/ disposition # "fatal" /\ worker'[o].at = disposition
<1>1. CASE worker[o].path = "replay" /\ disposition = "ready"
  BY <1>1, GoWrites DEF Disposed
<1>2. CASE worker[o].path = "replay" /\ disposition # "ready"
  BY <1>2, AttendWrites DEF Disposed
<1>3. CASE worker[o].path # "replay" /\ disposition = "fatal"
  BY <1>3, AttendWrites DEF Disposed
<1>4. CASE worker[o].path # "replay" /\ disposition # "fatal"
  BY <1>4, GoWrites DEF Disposed
<1> QED BY <1>1, <1>2, <1>3, <1>4

\* A row that is in no turn, or whose token o knows, is in no other turn.
LEMMA RowIsFree ==
  ASSUME Orderly, NEW o \in Pollers, NEW a \in Attempts, ~Over(a),
         dispatch[a].status # "attention",
         \/ dispatch[a].status \notin {"preparing", "dispatching", "result_ready"}
         \/ o \in dispatch[a].tokens
  PROVE  Free(o, a)
<1> SUFFICES ASSUME NEW p \in Pollers \ {o}, worker[p].a = a,
                    worker[p].at \in Engaged \cup Launching \cup Settling
             PROVE  FALSE
  BY DEF Free
<1>1. OrderlyTurn(p, a)
  BY OffIsOff DEF Orderly
<1> QED BY <1>1 DEF OrderlyTurn, Keeps

\* An active attempt is not over; one in a turn that is not active is.
LEMMA ActiveOrOver ==
  ASSUME TypeInv, Orderly, NEW o \in Pollers, NEW a \in Attempts
  PROVE  /\ Active(a) => ~Over(a)
         /\ worker[o].at \notin Off /\ worker[o].a = a => OrderlyTurn(o, a)
         /\ worker[o].at \notin Off /\ worker[o].a = a /\ ~Active(a) => Over(a)
BY Tables DEF Orderly, OrderlyTurn, Active, Over

\* Where a worker may go on to without a write of its row.
GoesTo(o, a) ==
  \/ worker'[o].at \in {"attend", "link"}
  \/ worker[o].at \in Engaged /\ worker'[o].at \in Engaged
  \/ worker[o].at \in Launching /\ worker'[o].at \in Launching
  \/ worker[o].at \in Settling /\ worker'[o].at \in Settling
  \/ Over(a) /\ worker'[o].at \notin Launching

\* A worker that goes on in its turn, its row as it was, keeps the order.
LEMMA GoesOn ==
  ASSUME TypeInv, Orderly, NEW o \in Pollers, NEW a \in Attempts,
         worker[o].a = a, worker[o].at \notin Off,
         UNCHANGED <<attempt, dispatch, operator>>, OnlyMoves(o),
         worker'[o].a = a, worker'[o].path = worker[o].path, GoesTo(o, a)
  PROVE  Orderly'
<1>1. Frames(o, a)
  BY DEF Frames, OnlyMoves, OthersKept, Ages
<1>2. OrderlyTurn(o, a) /\ OrderlyOwner(o, a) /\ OrderlyRow(a)
  BY DEF Orderly
<1>3. OrderlyRow(a)'
  BY <1>2 DEF OrderlyRow, Over
<1>4. OrderlyTurn(o, a)'
  BY <1>2 DEF OrderlyTurn, GoesTo, Over, Keeps, Engaged, Launching, Settling
<1>5. OrderlyOwner(o, a)'
  BY <1>2 DEF OrderlyOwner, GoesTo, Over, Engaged, Launching, Settling
<1>6. worker'[o].at \in Launching => worker[o].at \in Launching
  BY DEF GoesTo, Launching, Engaged, Settling
<1>7. Advances(o, a)
  BY <1>3, <1>4, <1>5, <1>6 DEF Advances, Yields
<1> QED BY <1>1, <1>7, AdvanceOrderly

\* A worker that ends its turn keeps the order when its row cannot be recovered.
LEMMA EndsTurn ==
  ASSUME TypeInv, Orderly, NEW o \in Pollers, NEW a \in Attempts,
         worker[o].at = "idle" \/ worker[o].a = a,
         UNCHANGED <<attempt, operator>>, OnlyMoves(o), OthersKept(a),
         worker'[o].at \in Off,
         OrderlyRow(a)', Yields(o, a),
         \/ Over(a)
         \/ dispatch'[a].status \notin {"preparing", "dispatching", "result_ready"}
         \/ dispatch'[a].owner # o
  PROVE  Orderly'
<1>1. Frames(o, a)
  BY DEF Frames, OnlyMoves, Ages
<1>2. OrderlyOwner(o, a)'
  BY DEF OrderlyOwner, Over
<1>3. Advances(o, a)
  BY <1>2, OffIsOff DEF Advances
<1> QED BY <1>1, <1>3, AdvanceOrderly

\* A row given up is orderly.
LEMMA GivenUpOrderly ==
  ASSUME Orderly, NEW a \in Attempts, UNCHANGED attempt, GivenUp(a),
         attempt[a].status # "none"
  PROVE  OrderlyRow(a)'
BY DEF Orderly, OrderlyRow, GivenUp, Over

\* A worker that commits a transition for its active attempt ends the attempt.
LEMMA CommitOrderly ==
  ASSUME TypeInv, Orderly, NEW o \in Pollers, NEW a \in Attempts, NEW why,
         NEW step \in Steps \ Launching,
         worker[o].a = a, worker[o].at \notin Off, Active(a),
         AcceptTransition(attempt[a].of, Ended(a, why)), Go(o, step),
         UNCHANGED <<dispatch, operator>>
  PROVE  Orderly'
<1>1. attempt'[a].status = "completed" /\ \A b \in Attempts : Ages(b)
  BY Tables, TransitionAges
<1>2. /\ worker'[o].at = step /\ worker'[o].a = a /\ OnlyMoves(o)
  BY Tables, GoWrites, MovesItself
<1>3. Frames(o, a)
  BY <1>1, <1>2 DEF Frames, OnlyMoves, OthersKept
<1>4. OrderlyRow(a)
  BY DEF Orderly
<1>5. OrderlyRow(a)' /\ OrderlyTurn(o, a)' /\ OrderlyOwner(o, a)'
  BY <1>1, <1>4 DEF OrderlyRow, OrderlyTurn, OrderlyOwner, Over
<1>6. Advances(o, a)
  BY <1>1, <1>2, <1>5 DEF Advances, Yields, Over
<1> QED BY <1>3, <1>6, AdvanceOrderly

\* So does a worker that turns to ask for attention in its turn.
LEMMA AttendOrderly ==
  ASSUME TypeInv, Orderly, NEW o \in Pollers, NEW a \in Attempts,
         worker[o].a = a, worker[o].at \notin Off,
         NEW category, NEW phase, NEW h,
         Attend(o, a, worker[o].path, category, phase, h),
         UNCHANGED <<attempt, dispatch, operator>>
  PROVE  Orderly'
<1>1. worker'[o].at = "attend" /\ worker'[o].a = a /\ worker'[o].path = worker[o].path
  BY Tables, AttendWrites
<1>2. OnlyMoves(o)
  BY Tables, MovesItself
<1> QED BY <1>1, <1>2, GoesOn DEF GoesTo

\* A worker whom prepare returned to goes on in its turn.
LEMMA DisposedOrderly ==
  ASSUME TypeInv, Orderly, NEW o \in Pollers, NEW a \in Attempts,
         worker[o].a = a, worker[o].at \in {"prepare", "preparing", "noting"},
         UNCHANGED <<attempt, dispatch, operator>>,
         NEW disposition \in {"ready", "busy", "skill", "blocked", "fatal"},
         Disposed(o, a, disposition)
  PROVE  Orderly'
<1>1. worker[o].at \notin Off /\ worker[o].at \in Engaged
  BY DEF Off, Engaged
<1>2. worker[o].path = "replay" => Over(a)
  BY <1>1, ActiveOrOver DEF OrderlyTurn
<1>3. /\ worker'[o].a = a /\ worker'[o].path = worker[o].path
      /\ \/ worker'[o].at = "attend"
         \/ worker[o].path = "replay" /\ worker'[o].at = "cleanup"
         \/ disposition # "fatal" /\ worker'[o].at = disposition
  BY Tables, DisposedKeeps
<1>4. GoesTo(o, a)
  BY <1>1, <1>2, <1>3 DEF GoesTo, Engaged, Launching
<1>5. OnlyMoves(o)
  BY Tables, MovesItself
<1> QED BY <1>1, <1>3, <1>4, <1>5, GoesOn

\* Preparation keeps the order, up to the launch intent.
LEMMA PreparationOrderly ==
  ASSUME TypeInv, Orderly, NEW o \in Pollers, NEW a \in Attempts,
         PreparationStep(o, a)
  PROVE  Orderly'
<1> USE Tables DEF workflow, prepared, rest, history, budget
<1>row. OrderlyRow(a)
  BY DEF Orderly
<1>turn. /\ Active(a) => ~Over(a)
         /\ worker[o].at \notin Off /\ worker[o].a = a => OrderlyTurn(o, a)
  BY ActiveOrOver
<1>1. CASE MarkPreparing(o, a)
  <2>1. /\ worker[o].at = "claimed" /\ worker[o].a = a
        /\ o \in dispatch[a].tokens /\ dispatch[a].status = "claimed" /\ ~Over(a)
        /\ SetStatus(a, "preparing", "none") /\ Go(o, "prepare")
        /\ UNCHANGED <<attempt, operator>>
    BY <1>1, <1>turn DEF MarkPreparing, At, Holds, MarkDispatchPreparing
  <2>2. OrderlyTurn(o, a) /\ Free(o, a)
    BY <2>1, <1>turn, RowIsFree DEF Off
  <2>3. /\ OthersKept(a)
        /\ dispatch'[a].status = "preparing" /\ dispatch'[a].tokens = {o}
        /\ dispatch'[a].owner = o /\ dispatch'[a].remedy = "none"
    BY <2>1, <1>row, SetStatusWrites, SetStatusOwns DEF OrderlyRow
  <2>4. /\ worker'[o].at = "prepare" /\ worker'[o].a = a
        /\ worker'[o].path = worker[o].path /\ OnlyMoves(o)
    BY <2>1, GoWrites, MovesItself
  <2>5. Frames(o, a)
    BY <2>1, <2>3, <2>4 DEF Frames, OnlyMoves, Ages
  <2>6. OrderlyRow(a)' /\ OrderlyTurn(o, a)' /\ OrderlyOwner(o, a)'
    BY <2>1, <2>2, <2>3, <2>4, <1>row
       DEF OrderlyRow, OrderlyTurn, OrderlyOwner, Keeps, Over, Engaged, Launching,
           Settling
  <2>7. Advances(o, a)
    BY <2>2, <2>3, <2>4, <2>6 DEF Advances, Yields, Launching
  <2> QED BY <2>5, <2>7, AdvanceOrderly
<1>2. CASE DeferForBudget(o, a)
  <2>1. /\ worker[o].at = "prepare" /\ worker[o].a = a
        /\ o \in dispatch[a].tokens /\ dispatch[a].status = "preparing" /\ ~Over(a)
        /\ DeferDispatch(a) /\ worker' = [worker EXCEPT ![o] = Idle]
        /\ UNCHANGED <<attempt, operator>>
    BY <1>2, <1>turn DEF DeferForBudget, At, Holds, Rest
  <2>2. Free(o, a) /\ attempt[a].status # "none"
    BY <2>1, <1>turn, RowIsFree DEF Off, OrderlyTurn
  <2>3. OthersKept(a) /\ dispatch'[a].status = "waiting" /\ OrderlyRow(a)'
    BY <2>1, <2>2, <1>row, DeferWrites, DeferGivesUp, GivenUpOrderly DEF OrderlyRow
  <2>4. worker'[o].at \in Off /\ OnlyMoves(o)
    BY <2>1, RestWrites, MovesItself DEF Off
  <2> QED BY <2>1, <2>2, <2>3, <2>4, EndsTurn DEF Yields
<1>3. CASE BeginPreparation(o, a)
  BY <1>3, MovesItself, GoesOn DEF BeginPreparation, At, GoesTo, Engaged, Off
<1>4. CASE ResolveSkills(o, a)
  BY <1>4, DisposedOrderly DEF ResolveSkills, Preparing, At
<1>5. CASE ReturnAtOnce(o, a)
  BY <1>5, DisposedOrderly DEF ReturnAtOnce, Preparing, At, ledgerVars
<1>6. CASE ResumePreparation(o, a)
  BY <1>6, GoWrites, MovesItself, GoesOn
     DEF ResumePreparation, Preparing, At, GoesTo, Engaged, Off
<1>7. CASE MarkPreparationReady(o, a)
  BY <1>7, DisposedOrderly DEF MarkPreparationReady, Preparing, At
<1>8. CASE FailPreparation(o, a)
  BY <1>8, DisposedOrderly DEF FailPreparation, Preparing, At
<1>9. CASE EngineAsks(o, a)
  BY <1>9, GoWrites, MovesItself, GoesOn
     DEF EngineAsks, Preparing, At, GoesTo, Engaged, Settling, Off
<1>10. CASE NoteEngineRequest(o, a)
  <2>1. CASE Preparing(o, a, "noting") /\ Disposed(o, a, "blocked")
    BY <1>10, <2>1, DisposedOrderly DEF NoteEngineRequest, Preparing, At
  <2>2. CASE Preparing(o, a, "uncleaned") /\ Go(o, "unclean")
    BY <1>10, <2>2, GoWrites, MovesItself, GoesOn
       DEF NoteEngineRequest, Preparing, At, GoesTo, Settling, Off
  <2> QED BY <1>10, <2>1, <2>2 DEF NoteEngineRequest
<1>11. CASE Defer(o, a)
  <2>1. /\ worker[o].at = "busy" /\ worker[o].a = a
        /\ dispatch[a].status = "preparing" /\ ~Over(a)
        /\ DeferDispatch(a) /\ worker' = [worker EXCEPT ![o] = Idle]
        /\ UNCHANGED <<attempt, operator>>
    BY <1>11, <1>turn DEF Defer, At, InPreparing, Rest
  <2>2. o \in dispatch[a].tokens /\ attempt[a].status # "none"
    BY <2>1, <1>turn DEF Off, OrderlyTurn, Engaged, Keeps
  <2>3. Free(o, a)
    BY <2>1, <2>2, RowIsFree
  <2>4. OthersKept(a) /\ dispatch'[a].status = "waiting" /\ OrderlyRow(a)'
    BY <2>1, <2>2, <1>row, DeferWrites, DeferGivesUp, GivenUpOrderly DEF OrderlyRow
  <2>5. worker'[o].at \in Off /\ OnlyMoves(o)
    BY <2>1, RestWrites, MovesItself DEF Off
  <2> QED BY <2>1, <2>3, <2>4, <2>5, EndsTurn DEF Yields
<1>12. CASE LinkEngineRequest(o, a)
  <2>1. PICK phase : MarkDispatchAttention(a, "engine", phase)
    BY <1>12 DEF LinkEngineRequest
  <2>2. /\ worker[o].at \in {"blocked", "unclean"} /\ worker[o].a = a
        /\ worker' = [worker EXCEPT ![o] = Idle]
        /\ UNCHANGED <<attempt, operator>>
    BY <1>12 DEF LinkEngineRequest, At, Rest
  <2>3. attempt[a].status # "none"
    BY <2>2, <1>turn DEF Off, OrderlyTurn
  <2>4. OthersKept(a) /\ dispatch'[a].status = "attention" /\ OrderlyRow(a)'
    BY <2>1, <2>2, <2>3, <1>row, MarkAttentionWrites, MarkAttentionGivesUp,
       GivenUpOrderly
  <2>5. worker'[o].at \in Off /\ OnlyMoves(o)
    BY <2>2, RestWrites, MovesItself DEF Off
  <2> QED BY <2>2, <2>4, <2>5, EndsTurn DEF Yields
<1>13. CASE CommitSkillFailure(o, a)
  <2>1. /\ worker[o].at = "skill" /\ worker[o].a = a /\ Active(a)
        /\ AcceptTransition(attempt[a].of, Ended(a, "skill"))
        /\ Go(o, "drop") /\ UNCHANGED <<dispatch, operator>>
    BY <1>13 DEF CommitSkillFailure, At
  <2>2. "drop" \in Steps \ Launching /\ "skill" \notin Off
    BY DEF Steps, Launching, Off
  <2> QED BY <2>1, <2>2, CommitOrderly
<1>14. CASE NoFailedExit(o, a)
  <2>1. /\ worker[o].at = "skill" /\ worker[o].a = a
        /\ Attend(o, a, worker[o].path, "preparation-fatal", "preparing", FALSE)
        /\ UNCHANGED <<attempt, dispatch, operator>>
    BY <1>14 DEF NoFailedExit, At, ledgerVars
  <2> QED BY <2>1, AttendOrderly DEF Off
<1>15. CASE DropDispatch(o, a)
  <2>1. /\ worker[o].at = "drop" /\ worker[o].a = a
        /\ SupersedeDispatch(a) /\ worker' = [worker EXCEPT ![o] = Idle]
        /\ UNCHANGED <<attempt, operator>>
    BY <1>15 DEF DropDispatch, At, Rest
  <2>2. Over(a) /\ attempt[a].status # "none"
    BY <2>1, <1>turn DEF Off, OrderlyTurn
  <2>3. OthersKept(a) /\ OrderlyRow(a)'
    BY <2>1, <2>2, SupersedeWrites, SupersedeGivesUp, GivenUpOrderly
  <2>4. worker'[o].at \in Off /\ OnlyMoves(o)
    BY <2>1, RestWrites, MovesItself DEF Off
  <2> QED BY <2>1, <2>2, <2>3, <2>4, EndsTurn DEF Yields, Over
<1>16. CASE MarkPrepared(o, a)
  <2>1. /\ worker[o].at = "ready" /\ worker[o].a = a
        /\ dispatch[a].status = "preparing" /\ ~Over(a)
        /\ MarkDispatchPrepared(o, a) /\ Go(o, "prepared")
        /\ UNCHANGED <<attempt, operator>>
    BY <1>16, <1>turn DEF MarkPrepared, At, InPreparing
  <2>2. OrderlyTurn(o, a) /\ dispatch[a].tokens = {o}
    BY <2>1, <1>turn DEF Off, OrderlyTurn, Engaged, Keeps
  <2>3. Free(o, a)
    BY <2>1, <2>2, RowIsFree
  <2>4. /\ OthersKept(a)
        /\ dispatch'[a].status = "prepared" /\ dispatch'[a].tokens = {o}
        /\ dispatch'[a].owner = o /\ dispatch'[a].remedy = "none"
    BY <2>1, <2>2, <1>row, PreparedWrites, PreparedOwns DEF OrderlyRow
  <2>5. /\ worker'[o].at = "prepared" /\ worker'[o].a = a
        /\ worker'[o].path = worker[o].path /\ OnlyMoves(o)
    BY <2>1, GoWrites, MovesItself
  <2>6. Frames(o, a)
    BY <2>1, <2>4, <2>5 DEF Frames, OnlyMoves, Ages
  <2>7. OrderlyRow(a)' /\ OrderlyTurn(o, a)' /\ OrderlyOwner(o, a)'
    BY <2>1, <2>2, <2>4, <2>5, <1>row
       DEF OrderlyRow, OrderlyTurn, OrderlyOwner, Over, Engaged, Launching, Settling
  <2>8. Advances(o, a)
    BY <2>3, <2>4, <2>5, <2>7 DEF Advances, Yields, Launching
  <2> QED BY <2>6, <2>8, AdvanceOrderly
<1>17. CASE MarkLaunchIntent(o, a)
  <2>1. /\ worker[o].at = "prepared" /\ worker[o].a = a
        /\ o \in dispatch[a].tokens /\ dispatch[a].status = "prepared" /\ ~Over(a)
        /\ SetStatus(a, "dispatching", "none") /\ Go(o, "launch")
        /\ UNCHANGED <<attempt, operator>>
    BY <1>17, <1>turn DEF MarkLaunchIntent, At, Holds, MarkDispatching
  <2>2. OrderlyTurn(o, a) /\ Free(o, a)
    BY <2>1, <1>turn, RowIsFree DEF Off
  <2>3. /\ OthersKept(a)
        /\ dispatch'[a].status = "dispatching" /\ dispatch'[a].tokens = {o}
        /\ dispatch'[a].owner = o /\ dispatch'[a].remedy = "none"
    BY <2>1, <1>row, SetStatusWrites, SetStatusOwns DEF OrderlyRow
  <2>4. /\ worker'[o].at = "launch" /\ worker'[o].a = a
        /\ worker'[o].path = worker[o].path /\ OnlyMoves(o)
    BY <2>1, GoWrites, MovesItself
  <2>5. Frames(o, a)
    BY <2>1, <2>3, <2>4 DEF Frames, OnlyMoves, Ages
  <2>6. OrderlyRow(a)' /\ OrderlyTurn(o, a)' /\ OrderlyOwner(o, a)'
    BY <2>1, <2>2, <2>3, <2>4, <1>row
       DEF OrderlyRow, OrderlyTurn, OrderlyOwner, Keeps, Over, Engaged, Launching,
           Settling
  <2>7. Advances(o, a)
    BY <2>2, <2>3, <2>4, <2>6 DEF Advances, Yields
  <2> QED BY <2>5, <2>7, AdvanceOrderly
<1> QED BY <1>1, <1>2, <1>3, <1>4, <1>5, <1>6, <1>7, <1>8, <1>9, <1>10, <1>11,
           <1>12, <1>13, <1>14, <1>15, <1>16, <1>17 DEF PreparationStep

\* reconcile and claim keep the order: recovery finds no row to take over, and a
\* claim finds no worker past its own.
LEMMA ReconcileOrderly ==
  ASSUME TypeInv, Orderly, NEW o \in Pollers, NEW a \in Attempts,
         ReconcileStep(o, a)
  PROVE  Orderly'
<1> USE Tables DEF workflow, prepared, rest, history, budget
<1>row. OrderlyRow(a)
  BY DEF Orderly
<1>over. Reconciling(o, a) => Over(a) /\ attempt[a].status # "none"
  BY DEF Orderly, OrderlyOwner, Reconciling, Resting, Recoverable, Over, Engaged,
         Launching, Settling
<1>1. CASE Resume(o, a)
  BY <1>1, <1>row DEF Resume, Resumable, OrderlyRow
<1>2. ASSUME Reconciling(o, a), NEW category, NEW phase,
             Attend(o, a, "recover", category, phase, FALSE),
             UNCHANGED <<ledgerVars, rest>>
      PROVE  Orderly'
  <2>1. /\ worker'[o].at = "attend" /\ worker'[o].a = a /\ OnlyMoves(o)
    BY <1>2, AttendWrites, MovesItself
  <2>2. worker[o].at = "idle" /\ UNCHANGED <<attempt, dispatch, operator>>
    BY <1>2 DEF Reconciling, Resting, ledgerVars
  <2>3. Frames(o, a)
    BY <2>1, <2>2 DEF Frames, OnlyMoves, OthersKept, Ages
  <2>4. OrderlyRow(a)' /\ OrderlyTurn(o, a)' /\ OrderlyOwner(o, a)'
    BY <1>2, <1>over, <1>row, <2>2 DEF OrderlyRow, OrderlyTurn, OrderlyOwner, Over
  <2>5. Advances(o, a)
    BY <2>1, <2>2, <2>4 DEF Advances, Yields, Launching
  <2> QED BY <2>3, <2>5, AdvanceOrderly
<1>3. ASSUME Reconciling(o, a), CompleteDispatch(a) \/ SupersedeDispatch(a),
             UNCHANGED <<attempt, operator, worker>>
      PROVE  Orderly'
  <2>1. /\ worker'[o].at \in Off /\ worker[o].at = "idle" /\ OnlyMoves(o)
    BY <1>3 DEF Reconciling, Resting, Off, OnlyMoves
  <2>2. OthersKept(a) /\ OrderlyRow(a)'
    BY <1>3, <1>over, <1>row, CompleteWrites, CompleteGivesUp, SupersedeWrites,
       SupersedeGivesUp, GivenUpOrderly DEF OrderlyRow
  <2> QED BY <1>3, <1>over, <2>1, <2>2, EndsTurn DEF Yields, Over
<1>4. CASE Claim(o, a)
  <2>1. /\ worker[o].at = "idle" /\ Active(a) /\ Claimable(a)
        /\ ClaimDispatch(o, a) /\ Turn(o, a, "tick", "claimed")
        /\ UNCHANGED <<attempt, operator>>
    BY <1>4 DEF Claim, Resting, ClaimDispatch, Candidate
  <2>2. ~Over(a) /\ attempt[a].status # "none"
    BY <2>1 DEF Active, Over
  <2>3. Free(o, a)
    BY <2>1, <2>2, RowIsFree DEF Claimable
  <2>4. /\ OthersKept(a)
        /\ dispatch'[a].status = "claimed" /\ dispatch'[a].tokens = {o}
        /\ dispatch'[a].owner = o /\ dispatch'[a].remedy = "none"
    BY <2>1, <1>row, ClaimWrites, ClaimOwns DEF OrderlyRow
  <2>5. /\ worker'[o].at = "claimed" /\ worker'[o].a = a
        /\ worker'[o].path = "tick" /\ OnlyMoves(o)
    BY <2>1, TurnWrites, MovesItself
  <2>6. Frames(o, a)
    BY <2>1, <2>4, <2>5 DEF Frames, OnlyMoves, Ages
  <2>7. OrderlyRow(a)' /\ OrderlyTurn(o, a)' /\ OrderlyOwner(o, a)'
    BY <2>1, <2>2, <2>4, <2>5, <1>row
       DEF OrderlyRow, OrderlyTurn, OrderlyOwner, Over, Engaged, Launching, Settling
  <2>8. Advances(o, a)
    BY <2>3, <2>4, <2>5, <2>7 DEF Advances, Yields, Launching
  <2> QED BY <2>6, <2>8, AdvanceOrderly
<1>5. Active(a) => ~Over(a)
  BY ActiveOrOver
<1>6. CASE RecoverDispatching(o, a)
  BY <1>2, <1>6 DEF RecoverDispatching
<1>7. CASE RecoverAmbiguousPreparation(o, a)
  BY <1>2, <1>7 DEF RecoverAmbiguousPreparation
<1>8. CASE RecoverCommitted(o, a)
  BY <1>3, <1>8 DEF RecoverCommitted
<1>9. CASE Takeover(o, a)
  BY <1>3, <1>5, <1>9, <1>over DEF Takeover
<1> QED BY <1>1, <1>4, <1>6, <1>7, <1>8, <1>9 DEF ReconcileStep

\* The runner's steps keep the order: they lead from the launch to the record.
LEMMA RunnerOrderly ==
  ASSUME TypeInv, Orderly, NEW o \in Pollers, NEW a \in Attempts,
         RunnerStep(o, a)
  PROVE  Orderly'
<1> USE Tables DEF workflow, prepared, rest, history, budget, Supervised
<1>row. OrderlyRow(a)
  BY DEF Orderly
<1>turn. worker[o].at \notin Off /\ worker[o].a = a => OrderlyTurn(o, a)
  BY ActiveOrOver
<1>1. CASE Launch(o, a)
  BY <1>1, GoWrites, MovesItself, GoesOn DEF Launch, At, GoesTo, Launching, Off
<1>2. CASE NoLaunch(o, a)
  BY <1>2, GoWrites, MovesItself, GoesOn
     DEF NoLaunch, At, GoesTo, Launching, Off, ledgerVars
<1>3. CASE RunnerReturns(o, a)
  BY <1>3, GoWrites, MovesItself, GoesOn
     DEF RunnerReturns, At, GoesTo, Launching, Off
<1>4. CASE RunnerAsks(o, a)
  BY <1>4, GoWrites, MovesItself, GoesOn DEF RunnerAsks, At, GoesTo, Launching, Off
<1>5. CASE MarkWaitingInput(o, a)
  BY <1>5, GoWrites, MovesItself, GoesOn
     DEF MarkWaitingInput, At, GoesTo, Launching, Off
<1>6. CASE RaiseQuestion(o, a)
  <2>1. /\ worker[o].at = "asked" /\ worker[o].a = a
        /\ UNCHANGED <<attempt, operator>>
    BY <1>6 DEF RaiseQuestion, At
  <2>2. attempt[a].status # "none"
    BY <2>1, <1>turn DEF Off, OrderlyTurn
  <2>3. CASE /\ MarkDispatchAttention(a, "runner", "preparing")
             /\ worker' = [worker EXCEPT ![o] = Idle]
    <3>1. OthersKept(a) /\ dispatch'[a].status = "attention" /\ OrderlyRow(a)'
      BY <2>1, <2>2, <2>3, <1>row, MarkAttentionWrites, MarkAttentionGivesUp,
         GivenUpOrderly
    <3>2. worker'[o].at \in Off /\ OnlyMoves(o)
      BY <2>3, RestWrites, MovesItself DEF Off
    <3> QED BY <2>1, <3>1, <3>2, EndsTurn DEF Yields
  <2>4. CASE /\ dispatch[a].status \notin Unfinished \cup {"attention"}
             /\ worker' = [worker EXCEPT ![o] = Down]
             /\ UNCHANGED dispatch
    <3>1. OthersKept(a) /\ OrderlyRow(a)' /\ Yields(o, a)
      BY <2>1, <2>4, <1>row DEF OthersKept, OrderlyRow, Over, Yields
    <3>2. worker'[o].at \in Off /\ OnlyMoves(o)
      BY <2>4, RestWrites, MovesItself DEF Off
    <3> QED BY <2>1, <2>4, <3>1, <3>2, EndsTurn DEF Unfinished
  <2>5. CASE /\ Attend(o, a, worker[o].path, "ambiguous-dispatch", "dispatching", TRUE)
             /\ UNCHANGED dispatch
    BY <2>1, <2>5, AttendOrderly DEF Off
  <2> QED BY <1>6, <2>3, <2>4, <2>5 DEF RaiseQuestion, Rest
<1> QED BY <1>1, <1>2, <1>3, <1>4, <1>5, <1>6 DEF RunnerStep

\* A worker that finds a write fenced is in a turn; if its attempt is not over,
\* its row is somebody else's or no scheduler's, or it is superseded while nobody
\* else needs it.
LEMMA StaleRow ==
  ASSUME TypeInv, Orderly, NEW o \in Pollers, NEW a \in Attempts, Stale(o, a),
         ~Over(a)
  PROVE  \/ /\ dispatch' = dispatch
            /\ \/ dispatch[a].owner # o
               \/ dispatch[a].status \notin {"preparing", "dispatching", "result_ready"}
         \/ dispatch' = [dispatch EXCEPT ![a] = Superseded(@)] /\ Free(o, a)
<1>1. Fenced(o, a)
  BY DEF Stale
<1>2. worker[o].a = a /\ worker[o].at \notin Off
  BY <1>1 DEF Fenced, AttentionFenced, At, Off
<1>3. Active(a) /\ OrderlyTurn(o, a) /\ OrderlyOwner(o, a) /\ OrderlyRow(a)
  BY <1>2, ActiveOrOver DEF Orderly
<1>4. worker[o].path = "tick"
  BY <1>3 DEF OrderlyTurn
<1>5. CASE o \in dispatch[a].tokens /\ dispatch[a].status \in Unfinished \cup {"attention"}
  <2>1. Free(o, a)
    BY <1>3, <1>5, RowIsFree DEF OrderlyRow
  <2> QED BY <1>5, <2>1 DEF Stale
<1>6. CASE dispatch[a].status \notin Unfinished \cup {"attention"}
  BY <1>6 DEF Stale, Unfinished
<1>7. CASE o \notin dispatch[a].tokens
  <2>1. dispatch' = dispatch
    BY <1>4, <1>7 DEF Stale
  <2>2. SUFFICES ASSUME dispatch[a].owner = o,
                        dispatch[a].status \in {"preparing", "dispatching", "result_ready"}
                 PROVE  FALSE
    BY <2>1
  <2>3. worker[o].at \notin Engaged \cup Launching \cup Settling
    BY <1>3, <1>7, <2>2 DEF OrderlyTurn, Keeps
  <2>4. worker[o].at \in {"attend", "link"}
    BY <1>3, <2>2, <2>3 DEF OrderlyOwner
  <2> QED BY <1>1, <1>3, <2>2, <2>4 DEF Fenced, AttentionFenced, At, Unfinished
<1> QED BY <1>5, <1>6, <1>7

\* Result, attention and exceptions keep the order.
LEMMA ResultOrderly ==
  ASSUME TypeInv, Orderly, NEW o \in Pollers, NEW a \in Attempts,
         ResultStep(o, a)
  PROVE  Orderly'
<1> USE Tables DEF workflow, prepared, rest, history, budget
<1>row. OrderlyRow(a)
  BY DEF Orderly
<1>turn. /\ Active(a) => ~Over(a)
         /\ worker[o].at \notin Off /\ worker[o].a = a => OrderlyTurn(o, a)
         /\ worker[o].at \notin Off /\ worker[o].a = a /\ ~Active(a) => Over(a)
  BY ActiveOrOver
<1>1. CASE RecordResult(o, a)
  <2>1. /\ worker[o].at = "record" /\ worker[o].a = a
        /\ o \in dispatch[a].tokens /\ dispatch[a].status = "dispatching" /\ ~Over(a)
        /\ RecordDispatchResult(a) /\ Go(o, "cleanup")
        /\ UNCHANGED <<attempt, operator>>
    BY <1>1, <1>turn DEF RecordResult, At, Holds
  <2>2. OrderlyTurn(o, a) /\ Free(o, a)
    BY <2>1, <1>turn, RowIsFree DEF Off
  <2>3. /\ OthersKept(a)
        /\ dispatch'[a].status = "result_ready" /\ dispatch'[a].tokens = {o}
        /\ dispatch'[a].owner = o /\ dispatch'[a].remedy = "none"
    BY <2>1, <1>row, RecordWrites, RecordOwns DEF OrderlyRow
  <2>4. /\ worker'[o].at = "cleanup" /\ worker'[o].a = a
        /\ worker'[o].path = worker[o].path /\ OnlyMoves(o)
    BY <2>1, GoWrites, MovesItself
  <2>5. Frames(o, a)
    BY <2>1, <2>3, <2>4 DEF Frames, OnlyMoves, Ages
  <2>6. OrderlyRow(a)' /\ OrderlyTurn(o, a)' /\ OrderlyOwner(o, a)'
    BY <2>1, <2>2, <2>3, <2>4, <1>row
       DEF OrderlyRow, OrderlyTurn, OrderlyOwner, Keeps, Over, Engaged, Launching,
           Settling
  <2>7. Advances(o, a)
    BY <2>2, <2>3, <2>4, <2>6 DEF Advances, Yields, Launching
  <2> QED BY <2>5, <2>7, AdvanceOrderly
<1>2. CASE CleanupAttempt(o, a)
  BY <1>2, GoWrites, MovesItself, GoesOn
     DEF CleanupAttempt, At, GoesTo, Settling, Off, ledgerVars
<1>3. CASE CommitResult(o, a)
  <2>1. /\ worker[o].at = "commit" /\ worker[o].a = a /\ Active(a)
        /\ AcceptTransition(attempt[a].of, Ended(a, "result"))
        /\ Go(o, "finish") /\ UNCHANGED <<dispatch, operator>>
    BY <1>3 DEF CommitResult, At
  <2>2. "finish" \in Steps \ Launching /\ "commit" \notin Off
    BY DEF Steps, Launching, Off
  <2> QED BY <2>1, <2>2, CommitOrderly
<1>4. ASSUME CompleteDispatch(a), worker' = [worker EXCEPT ![o] = Idle],
             UNCHANGED <<attempt, operator>>, worker[o].a = a, Over(a)
      PROVE  Orderly'
  <2>1. OthersKept(a) /\ OrderlyRow(a)'
    BY <1>4, <1>row, CompleteWrites, CompleteGivesUp, GivenUpOrderly
       DEF OrderlyRow, Over
  <2>2. worker'[o].at \in Off /\ OnlyMoves(o)
    BY <1>4, RestWrites, MovesItself DEF Off
  <2> QED BY <1>4, <2>1, <2>2, EndsTurn DEF Yields, Over
<1>5. CASE FinishDispatch(o, a)
  <2>1. worker[o].at = "finish" /\ worker[o].a = a
    BY <1>5 DEF FinishDispatch, At
  <2>2. Over(a)
    BY <2>1, <1>turn DEF OrderlyTurn, Off
  <2> QED BY <1>4, <1>5, <2>1, <2>2 DEF FinishDispatch, Rest
<1>6. CASE Stale(o, a)
  <2>1. /\ worker[o].a = a /\ worker[o].at \notin Off
        /\ worker' = [worker EXCEPT ![o] = Idle] /\ UNCHANGED <<attempt, operator>>
    BY <1>6 DEF Stale, Fenced, AttentionFenced, At, Off, Rest
  <2>2. attempt[a].status # "none"
    BY <2>1, <1>turn DEF OrderlyTurn
  <2>3. worker'[o].at \in Off /\ OnlyMoves(o)
    BY <2>1, RestWrites, MovesItself DEF Off
  <2>4. CASE dispatch' = dispatch
    <3>1. OthersKept(a) /\ OrderlyRow(a)' /\ Yields(o, a)
      BY <2>1, <2>4, <1>row DEF OthersKept, OrderlyRow, Over, Yields
    <3>2. \/ Over(a) \/ dispatch[a].owner # o
          \/ dispatch[a].status \notin {"preparing", "dispatching", "result_ready"}
          \/ dispatch' = [dispatch EXCEPT ![a] = Superseded(@)]
      BY <1>6, StaleRow
    <3>3. dispatch' = [dispatch EXCEPT ![a] = Superseded(@)] =>
            dispatch'[a].status = "superseded"
      BY SupersededRow DEF DispatchTable
    <3> QED BY <2>1, <2>3, <2>4, <3>1, <3>2, <3>3, EndsTurn
  <2>5. CASE SupersedeDispatch(a)
    <3>1. /\ OthersKept(a) /\ OrderlyRow(a)'
          /\ dispatch'[a].status = "superseded"
      BY <2>1, <2>2, <2>5, SupersedeWrites, SupersedeGivesUp, GivenUpOrderly
    <3>2. Over(a) \/ Free(o, a) \/ dispatch'[a] = dispatch[a]
      BY <1>6, StaleRow
    <3>3. Yields(o, a)
      BY <2>1, <3>1, <3>2 DEF Yields, Over
    <3> QED BY <2>1, <2>3, <3>1, <3>3, EndsTurn
  <2> QED BY <1>6, <2>4, <2>5 DEF Stale, SupersedeDispatch
<1>7. CASE Raise(o, a)
  <2>1. /\ worker[o].a = a /\ worker[o].at \notin Off
        /\ UNCHANGED <<attempt, operator>>
    BY <1>7, FaultsAssumption DEF Raise, Refused, At, Off
  <2>2. worker[o].path # "tick" => Over(a)
    BY <2>1, <1>turn DEF OrderlyTurn
  <2>3. CASE CompleteDispatch(a) /\ Rest(o) /\ worker[o].path # "tick"
    BY <1>4, <2>1, <2>2, <2>3 DEF Rest
  <2>4. CASE /\ \E category \in HandlerCategory(o, a) :
                  Attend(o, a, worker[o].path, category, HandlerPhase(a), TRUE)
             /\ UNCHANGED dispatch
    BY <2>1, <2>4, AttendOrderly
  <2> QED BY <1>7, <2>3, <2>4 DEF Raise
<1>8. CASE HoldPreparation(o, a)
  BY <1>8, MovesItself, GoesOn DEF HoldPreparation, At, GoesTo, Off
<1>9. CASE OpenRequest(o, a)
  BY <1>9, GoWrites, MovesItself, GoesOn DEF OpenRequest, At, GoesTo, Off
<1>10. CASE LinkRequest(o, a)
  <2>1. /\ worker[o].at = "link" /\ worker[o].a = a
        /\ MarkDispatchAttention(a, worker[o].category, worker[o].phase)
        /\ worker' = [worker EXCEPT ![o] = Idle]
        /\ UNCHANGED <<attempt, operator>>
    BY <1>10 DEF LinkRequest, At, Rest
  <2>2. attempt[a].status # "none"
    BY <2>1, <1>turn DEF Off, OrderlyTurn
  <2>3. OthersKept(a) /\ dispatch'[a].status = "attention" /\ OrderlyRow(a)'
    BY <2>1, <2>2, <1>row, MarkAttentionWrites, MarkAttentionGivesUp, GivenUpOrderly
  <2>4. worker'[o].at \in Off /\ OnlyMoves(o)
    BY <2>1, RestWrites, MovesItself DEF Off
  <2> QED BY <2>1, <2>3, <2>4, EndsTurn DEF Yields
<1>11. CASE Escape(o, a)
  <2>1. /\ worker[o].at \in {"attend", "link"} /\ worker[o].a = a
        /\ worker' = [worker EXCEPT ![o] = Down]
        /\ UNCHANGED <<attempt, dispatch, operator>>
    BY <1>11 DEF Escape, AttentionFenced, At, ledgerVars
  <2>2. OthersKept(a) /\ OrderlyRow(a)' /\ Yields(o, a)
    BY <2>1, <1>row DEF OthersKept, OrderlyRow, Over, Yields
  <2>3. worker'[o].at \in Off /\ OnlyMoves(o)
    BY <2>1, RestWrites, MovesItself DEF Off
  <2>4. \/ Over(a)
        \/ dispatch[a].status \notin {"preparing", "dispatching", "result_ready"}
    BY <1>11, <2>1, <1>turn DEF Escape, AttentionFenced, Unfinished, Off
  <2> QED BY <2>1, <2>2, <2>3, <2>4, EndsTurn
<1> QED BY <1>1, <1>2, <1>3, <1>5, <1>6, <1>7, <1>8, <1>9, <1>10, <1>11 DEF ResultStep

\* The operator's commands, short of a remedy, keep the order.
LEMMA OperatorOrderly ==
  ASSUME TypeInv, Orderly, OperatorStep, remedies' = 0, remedies = 0
  PROVE  Orderly'
<1> USE Tables DEF Serving, history, budget
<1>rows. operator = NoRemedy /\ \A b \in Attempts : OrderlyRow(b)
  BY DEF Orderly
<1>1. ASSUME NEW e \in Executions, HumanTransition(e)
      PROVE  Orderly'
  <2>1. UNCHANGED <<dispatch, operator, worker>>
    BY <1>1 DEF HumanTransition
  <2>2. \A b \in Attempts : Ages(b)
    BY <1>1 DEF HumanTransition, AcceptTransition, Fresh, Ages, Born, AttemptTable
  <2>3. \A b \in Attempts : OrderlyRow(b)'
    BY <1>rows, <2>1, <2>2, AgesWell DEF OrderlyRow
  <2> QED BY <2>1, <2>2, <2>3, RowsOrderly
<1>2. ASSUME NEW a \in Attempts, ControlTransition(a)
      PROVE  Orderly'
  <2>1. UNCHANGED <<dispatch, operator, worker>>
    BY <1>2 DEF ControlTransition
  <2>2. \A b \in Attempts : Ages(b)
    BY <1>2, TransitionAges DEF ControlTransition
  <2>3. \A b \in Attempts : OrderlyRow(b)'
    BY <1>rows, <2>1, <2>2, AgesWell DEF OrderlyRow
  <2> QED BY <2>1, <2>2, <2>3, RowsOrderly
<1>3. ASSUME NEW a \in Attempts, ControlCancel(a)
      PROVE  Orderly'
  <2>1. UNCHANGED <<operator, worker>> /\ Active(a)
    BY <1>3 DEF ControlCancel
  <2>2. /\ attempt'[a].status = "completed"
        /\ \A b \in Attempts \ {a} : attempt'[b] = attempt[b]
    BY <1>3, EndedWrites DEF ControlCancel, AttemptTable
  <2>3. \A b \in Attempts : Ages(b)
    BY <2>1, <2>2 DEF Ages, Active
  <2>4. /\ \A b \in Attempts \ {a} : dispatch'[b] = dispatch[b]
        /\ dispatch'[a] = dispatch[a] \/ GivenUp(a)
    BY <1>3, SupersededGivesUp
       DEF ControlCancel, TerminalizeCanceledAttempt, DispatchTable, GivenUp
  <2>5. \A b \in Attempts : OrderlyRow(b)'
    BY <1>rows, <2>2, <2>3, <2>4, AgesWell DEF OrderlyRow, GivenUp, Over
  <2> QED BY <2>1, <2>2, <2>3, <2>4, <2>5, RowsOrderly DEF Over
<1>4. ASSUME NEW a \in Attempts, NEW category, Remedied(a, category)
      PROVE  FALSE
  BY <1>4 DEF Remedied
<1>5. ~ResolveEngineRequest
  BY <1>rows DEF ResolveEngineRequest
<1> QED BY <1>1, <1>2, <1>3, <1>4, <1>5
           DEF OperatorStep, RemedyScheduler, RemedyEngine, RemedyRunner

\* Restarts, expiries and orphans keep the order.
LEMMA EnvironmentOrderly ==
  ASSUME TypeInv, Orderly, Environment, crashes' = 0, crashes = 0
  PROVE  Orderly'
<1> USE Tables DEF workflow, prepared, rest, history, budget, ledgerVars
<1>rows. \A b \in Attempts : OrderlyRow(b)
  BY DEF Orderly
<1>1. ASSUME NEW o \in Pollers, Crash(o) \/ CrashControl
      PROVE  FALSE
  BY <1>1 DEF Crash, CrashControl
<1>2. ASSUME UNCHANGED <<attempt, dispatch, operator>>
      PROVE  \A b \in Attempts : Ages(b) /\ OrderlyRow(b)'
  BY <1>2, <1>rows DEF Ages, OrderlyRow, Over
<1>3. ASSUME NEW o \in Pollers, Restart(o)
      PROVE  Orderly'
  <2>1. UNCHANGED <<attempt, dispatch, operator>>
    BY <1>3 DEF Restart
  <2>2. worker[o].at \in Off /\ worker'[o].at \in Off /\ OnlyMoves(o)
    BY <1>3, RestWrites, MovesItself DEF Restart, Off
  <2> QED BY <1>2, <2>1, <2>2, RowsOrderly DEF OnlyMoves
<1>4. ASSUME NEW a \in Attempts, Elapse(a)
      PROVE  Orderly'
  <2>1. \A row \in DispatchRow :
          LET new == [row EXCEPT !.timer = "elapsed"]
          IN  /\ new.status = row.status /\ new.owner = row.owner
              /\ new.tokens = row.tokens /\ new.remedy = row.remedy
    BY DEF DispatchRow
  <2>2. \A b \in Attempts :
          /\ dispatch'[b].status = dispatch[b].status
          /\ dispatch'[b].owner = dispatch[b].owner
          /\ dispatch'[b].tokens = dispatch[b].tokens
          /\ dispatch'[b].remedy = dispatch[b].remedy
    BY <1>4, <2>1 DEF Elapse, DispatchTable
  <2>3. UNCHANGED <<attempt, operator, worker>>
    BY <1>4 DEF Elapse
  <2>4. \A b \in Attempts : Ages(b) /\ OrderlyRow(b)'
    BY <1>rows, <2>2, <2>3 DEF Ages, OrderlyRow, Over
  <2> QED BY <2>2, <2>3, <2>4, RowsOrderly
<1>5. ASSUME NEW a \in Attempts, OrphanExits(a)
      PROVE  Orderly'
  <2>1. UNCHANGED <<attempt, dispatch, operator, worker>>
    BY <1>5 DEF OrphanExits
  <2> QED BY <1>2, <2>1, RowsOrderly
<1>6. ~CrashControl
  BY DEF CrashControl
<1> QED BY <1>1, <1>3, <1>4, <1>5, <1>6 DEF Environment

\* No step takes back a crash or a remedy.
LEMMA CountsGrow ==
  ASSUME TypeInv, [Next]_vars
  PROVE  (crashes' = 0 => crashes = 0) /\ (remedies' = 0 => remedies = 0)
<1> USE DEF TypeInv, BudgetTyped
<1> USE DEF rest, history, budget, Serving, Supervised
<1>1. ASSUME NEW o \in Pollers, NEW a \in Attempts, ReconcileStep(o, a)
      PROVE  UNCHANGED budget
  BY <1>1 DEF ReconcileStep, Resume, RecoverDispatching,
     RecoverAmbiguousPreparation, RecoverCommitted, Takeover, Claim
<1>2. ASSUME NEW o \in Pollers, NEW a \in Attempts, PreparationStep(o, a)
      PROVE  UNCHANGED budget
  BY <1>2 DEF PreparationStep, MarkPreparing, DeferForBudget, BeginPreparation,
     ResolveSkills, ReturnAtOnce, ResumePreparation, MarkPreparationReady,
     FailPreparation, EngineAsks, NoteEngineRequest, Defer, LinkEngineRequest,
     CommitSkillFailure, NoFailedExit, DropDispatch, MarkPrepared, MarkLaunchIntent
<1>3. ASSUME NEW o \in Pollers, NEW a \in Attempts, RunnerStep(o, a)
      PROVE  UNCHANGED budget
  BY <1>3 DEF RunnerStep, Launch, NoLaunch, RunnerReturns, RunnerAsks,
     MarkWaitingInput, RaiseQuestion
<1>4. ASSUME NEW o \in Pollers, NEW a \in Attempts, ResultStep(o, a)
      PROVE  UNCHANGED budget
  BY <1>4 DEF ResultStep, RecordResult, CleanupAttempt, CommitResult,
     FinishDispatch, Stale, Raise, HoldPreparation, OpenRequest, LinkRequest, Escape
<1>5. CASE \E o \in Pollers : SchedulerStep(o)
  BY <1>1, <1>2, <1>3, <1>4, <1>5 DEF SchedulerStep
<1>6. CASE OperatorStep
  BY <1>6 DEF OperatorStep, HumanTransition, ControlTransition, ControlCancel,
     RemedyScheduler, RemedyEngine, RemedyRunner, ResolveEngineRequest, Remedied
<1>7. CASE Environment
  BY <1>7 DEF Environment, Crash, CrashControl, Restart, Elapse, OrphanExits
<1>8. CASE UNCHANGED vars
  BY <1>8 DEF vars
<1> QED BY <1>5, <1>6, <1>7, <1>8 DEF Next

\* Every step, and every stutter, keeps the launcher invariant: the counts of
\* crashes and remedies only grow.
LEMMA LauncherStep == TypeInv /\ LauncherInv /\ [Next]_vars => LauncherInv'
<1> SUFFICES ASSUME TypeInv, LauncherInv, [Next]_vars, crashes' = 0, remedies' = 0
             PROVE  Orderly'
  BY DEF LauncherInv
<1>1. crashes = 0 /\ remedies = 0
  BY CountsGrow
<1>2. Orderly
  BY <1>1 DEF LauncherInv
<1>3. ASSUME NEW o \in Pollers, SchedulerStep(o)
      PROVE  Orderly'
  BY <1>2, <1>3, ReconcileOrderly, PreparationOrderly, RunnerOrderly, ResultOrderly
     DEF SchedulerStep
<1>4. CASE UNCHANGED vars
  BY <1>2, <1>4
     DEF vars, ledgerVars, Orderly, OrderlyRow, OrderlyTurn, OrderlyOwner, Keeps,
         Over, OneLauncher
<1> QED BY <1>1, <1>2, <1>3, <1>4, OperatorOrderly, EnvironmentOrderly DEF Next

\* Until a scheduler crashes or an operator answers a request, no two schedulers
\* are between the launch of one attempt's runner and the record of its result:
\* for any number of schedulers on one ledger, whatever leases run out, writes
\* raise, requests are opened for each other's rows, and attempts are ended,
\* canceled or replaced meanwhile.
THEOREM OneLauncherUntilRecovery ==
  Spec => [](crashes = 0 /\ remedies = 0 => OneLauncher)
<1>1. Init => TypeInv /\ LauncherInv
  BY InitTyped, InitOrderly
<1>2. TypeInv /\ [Next]_vars => TypeInv'
  BY StepTyped
<1>3. TypeInv /\ LauncherInv /\ [Next]_vars => LauncherInv'
  BY LauncherStep
<1>4. LauncherInv => (crashes = 0 /\ remedies = 0 => OneLauncher)
  BY DEF LauncherInv, Orderly
<1> QED BY <1>1, <1>2, <1>3, <1>4, PTL DEF Spec
=============================================================================
