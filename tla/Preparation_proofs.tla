-------------------------- MODULE Preparation_proofs --------------------------
(***************************************************************************)
(* What the preparation engine keeps for every list of capabilities, every *)
(* bound on attempts, allocations and creations, whatever the adapters,    *)
(* the agents and the operator do and wherever the process crashes:        *)
(* type correctness, LiveIsAccounted, ReadyIsWhole and RemovalIsSafe.      *)
(*                                                                         *)
(* They rest on one inductive invariant, IInv.  RowsInv relates the rows   *)
(* to the processes they stand for and the handles the engine has; it is   *)
(* kept because at each step of a call more is known than the rows say:    *)
(* which rows were taken (DoneInv), how far the newest one got (NewInv),   *)
(* which process was just stopped (GoneInv), what clean-up checked before  *)
(* it goes on (CleanInv).                                                  *)
(***************************************************************************)
EXTENDS Preparation, TLAPS

\* The values of the fields of engine.
Places == {"idle"} \cup PrepareAt \cup CleanupAt \cup RemedyAt
Whys == {"none", "busy", "ask", "failed"}
EngineType ==
  [at : Places, k : Nat, done : Seq(Nat), ask : RequestType, why : Whys,
   remedy : Remedies \cup {"none"}]
MutationStatuses == {"planned", "started", "failed", "completed"}

\* TypeOK with the type of each field of engine and of the creation requests.
Typed ==
  /\ TypeOK
  /\ engine \in EngineType
  /\ creates \in [Attempts -> Seq(MutationStatuses)]

\* The lease index: one row holds a capability at a time.
OneHolder ==
  \A i, j \in Rows : rows[i].status = "active" /\ rows[j].status = "active"
                     /\ rows[i].capability = rows[j].capability => i = j

\* An allocation whose undo is recorded is stopped, and the process forgets it
\* before it takes the next one.
UndoneIsGone ==
  \A i \in Rows : rows[i].undo = "completed" /\ rows[i].status = "active" =>
     /\ i \notin live
     /\ i \in known => At("release-undone") /\ i = Undoing

\* The process holds the handles of rows that were recorded ready, and of the
\* one it is about to record.
KnownIsReady ==
  \A i \in known : rows[i].ready \/ (At("record-ready") /\ i = Newest)

\* The rows, the processes they stand for and the handles agree.
RowsInv == OneHolder /\ UndoneIsGone /\ KnownIsReady /\ LiveIsAccounted

\* The steps of one call of prepare: before an allocation is attached, around
\* the activation of a new row, after it, and backwards.
Beginning == {"workspace", "start-create", "materialize", "register", "finish-create",
              "fail-create"}
Before == {"plan-activation", "start-activation", "activate", "fail-activation",
           "drop-allocation"}
After == {"record-ready", "finish-activation"}
Undoings == {"start-undo", "undo", "finish-undo", "release-undone", "quarantine-undo"}

\* What the place of the engine says of its other fields.
CallInv ==
  /\ At("idle") => engine = Idle
  /\ engine.at \in PrepareAt \cup {"cleanup", "release-cleaned"} =>
       created # 0 /\ engine.remedy = "none"
  /\ engine.at \in Beginning \cup CleanupAt \cup RemedyAt => engine.done = <<>>
  /\ At("policy") => engine.remedy \in {"retain", "quarantine"}

\* The rows taken so far are held for the attempt, in the order of the workflow.
DoneRows ==
  \A j \in DOMAIN engine.done :
       /\ j \in DOMAIN Capabilities /\ engine.done[j] \in Rows
       /\ rows[engine.done[j]].of = created
       /\ rows[engine.done[j]].capability = Capabilities[j]
       /\ rows[engine.done[j]].status = "active"

\* One of the rows taken is as prepare leaves it.
Kept(j) ==
  /\ rows[engine.done[j]].activate = "completed" /\ rows[engine.done[j]].ready
  /\ engine.done[j] \in known

\* All rows taken are kept, except the one whose activation is being recorded.
DoneInv ==
  /\ DoneRows
  /\ engine.at \in Before \cup {"capability"} =>
       Len(engine.done) = engine.k - 1 /\ \A j \in DOMAIN engine.done : Kept(j)
  /\ engine.at \in After =>
       /\ Len(engine.done) = engine.k /\ engine.done[engine.k] = Newest /\ Newest \in known
       /\ \A j \in DOMAIN engine.done : j < engine.k => Kept(j)

\* The newest row is the one being activated, as far as its activation went.
NewInv ==
  engine.at \in Before \cup After =>
   /\ Newest # 0 /\ engine.k \in DOMAIN Capabilities
   /\ rows[Newest].of = created /\ rows[Newest].status = "active"
   /\ rows[Newest].capability = Wanted /\ rows[Newest].undo = "none"
   /\ rows[Newest].ready <=> At("finish-activation")
   /\ At("plan-activation") => rows[Newest].activate = "none"
   /\ At("start-activation") => rows[Newest].activate = "planned"
   /\ engine.at \in {"activate", "fail-activation"} \cup After => rows[Newest].activate = "started"
   /\ At("drop-allocation") => rows[Newest].activate = "failed"
   /\ engine.at \in Before => Newest \notin live /\ Newest \notin known

\* A row is recorded as undone or released after its process was stopped.
GoneInv ==
  /\ engine.at \in Undoings => engine.done # <<>>
  /\ engine.at \in {"finish-undo", "release-undone"} => Undoing \notin live
  /\ At("release-cleaned") => \A i \in Rows : IsLastOf(i, Disposable(created)) => i \notin live
  /\ At("release-target") => \A i \in Rows : IsLastOf(i, Targets) => i \notin live

\* The steps of the clean-up of a terminal execution.
Cleaning ==
  {"workspace-cleanup", "ask-uncertain", "ask-outstanding", "ask-unsafe", "pending", "remove",
   "removed", "refused", "finish-plan", "finish-refused", "ask-held"}

\* What was checked before the clean-up of the workspace still holds at the steps
\* that rely on it.
CleanInv ==
  /\ active => ~terminal
  /\ \A r \in requests : r.of = 0 => terminal
  /\ engine.remedy # "none" /\ engine.ask.of = 0 => terminal
  /\ At("ask") \/ engine.why = "ask" => engine.ask.of # 0
  /\ engine.at \in Cleaning => terminal
  /\ engine.at \in {"workspace-cleanup", "pending", "remove"} =>
       (workspace.policy # "none" => Explicit)
  /\ engine.at \in {"pending", "remove"} => Outstanding = {} /\ (uncertain => Explicit)

\* The inductive invariant.
IInv == Typed /\ RowsInv /\ CallInv /\ DoneInv /\ NewInv /\ GoneInv /\ CleanInv

-----------------------------------------------------------------------------
(* What each control step writes to engine, field by field.                *)

\* Only the place of the engine changes.
Stays == /\ engine'.k = engine.k /\ engine'.done = engine.done /\ engine'.ask = engine.ask
         /\ engine'.why = engine.why /\ engine'.remedy = engine.remedy

\* The engine is the record of its fields.
LEMMA EngineIs ==
  ASSUME engine \in EngineType
  PROVE  engine = [at |-> engine.at, k |-> engine.k, done |-> engine.done,
                   ask |-> engine.ask, why |-> engine.why, remedy |-> engine.remedy]
BY DEF EngineType

\* A step to a place changes the place only.
LEMMA GoWrites ==
  ASSUME engine \in EngineType, NEW s, Go(s)
  PROVE  /\ engine'.at = s /\ Stays
         /\ s \in Places => engine' \in EngineType
<1>1. engine' = [at |-> s, k |-> engine.k, done |-> engine.done, ask |-> engine.ask,
                 why |-> engine.why, remedy |-> engine.remedy]
  BY EngineIs, Zenon DEF Go
<1> QED BY <1>1 DEF EngineType, Stays

\* The idle engine is typed.
LEMMA IdleType == Idle \in EngineType
BY DEF Idle, EngineType, NoRequest, Request, RequestType, Places, Whys, Categories

\* Return leaves nothing of the call.
LEMMA ReturnWrites ==
  ASSUME Return
  PROVE  /\ engine' \in EngineType /\ engine' = Idle /\ engine'.at = "idle" 
         /\ engine'.k = 0 /\ engine'.done = <<>> /\ engine'.why = "none" 
         /\ engine'.remedy = "none" /\ engine'.ask = NoRequest
BY IdleType DEF Return, Idle

\* Giving up keeps the rows taken, to undo them.
LEMMA UndoWrites ==
  ASSUME engine \in EngineType, NEW w \in Whys, NEW r \in RequestType, Undo(w, r)
  PROVE  /\ engine' \in EngineType /\ engine'.at = "compensate" 
         /\ engine'.k = engine.k /\ engine'.done = engine.done /\ engine'.ask = r
         /\ engine'.why = w /\ engine'.remedy = engine.remedy
<1>1. engine' = [at |-> "compensate", k |-> engine.k, done |-> engine.done, ask |-> r,
                 why |-> w, remedy |-> engine.remedy]
  BY EngineIs, Zenon DEF Undo
<1> QED BY <1>1 DEF EngineType, Places, PrepareAt

\* A question asked at once has nothing to undo.
LEMMA AskWrites ==
  ASSUME NEW r \in RequestType, Ask(r)
  PROVE  /\ engine' \in EngineType /\ engine'.at = "ask" /\ engine'.done = <<>>
         /\ engine'.ask = r /\ engine'.why = "none" /\ engine'.remedy = "none"
<1>1. engine' = [at |-> "ask", k |-> 0, done |-> <<>>, ask |-> r, why |-> "none",
                 remedy |-> "none"]
  BY Zenon DEF Ask, Idle
<1> QED BY <1>1 DEF EngineType, Places, PrepareAt, Whys

\* The next capability, with the rows taken so far.
LEMMA NextCapabilityWrites ==
  ASSUME engine \in EngineType, NEW d \in Seq(Nat), NextCapability(d)
  PROVE  /\ engine' \in EngineType /\ engine'.at = "capability" /\ engine'.k = engine.k + 1
         /\ engine'.done = d /\ engine'.ask = engine.ask /\ engine'.why = engine.why
         /\ engine'.remedy = engine.remedy
<1>1. engine' = [at |-> "capability", k |-> engine.k + 1, done |-> d, ask |-> engine.ask,
                 why |-> engine.why, remedy |-> engine.remedy]
  BY EngineIs, Zenon DEF NextCapability
<1> QED BY <1>1 DEF EngineType, Places, PrepareAt

\* The first capability.
LEMMA FirstCapabilityWrites ==
  ASSUME engine \in EngineType, engine' = [engine EXCEPT !.at = "capability", !.k = 1]
  PROVE  /\ engine' \in EngineType /\ engine'.at = "capability" /\ engine'.k = 1
         /\ engine'.done = engine.done /\ engine'.ask = engine.ask /\ engine'.why = engine.why
         /\ engine'.remedy = engine.remedy
<1>1. engine' = [at |-> "capability", k |-> 1, done |-> engine.done, ask |-> engine.ask,
                 why |-> engine.why, remedy |-> engine.remedy]
  BY EngineIs, Zenon
<1> QED BY <1>1 DEF EngineType, Places, PrepareAt

\* A failed step keeps its reason.
LEMMA FailWrites ==
  ASSUME engine \in EngineType, NEW s \in PrepareAt, NEW w \in Whys, 
         engine' = [engine EXCEPT !.at = s, !.why = w]
  PROVE  /\ engine' \in EngineType /\ engine'.at = s /\ engine'.k = engine.k
         /\ engine'.done = engine.done /\ engine'.ask = engine.ask /\ engine'.why = w
         /\ engine'.remedy = engine.remedy
<1>1. engine' = [at |-> s, k |-> engine.k, done |-> engine.done, ask |-> engine.ask,
                 why |-> w, remedy |-> engine.remedy]
  BY EngineIs, Zenon
<1> QED BY <1>1 DEF EngineType, Places

\* A failed step keeps its reason and its question.
LEMMA FailAskWrites ==
  ASSUME engine \in EngineType, NEW s \in PrepareAt, NEW w \in Whys, NEW r \in RequestType,
         engine' = [engine EXCEPT !.at = s, !.why = w, !.ask = r]
  PROVE  /\ engine' \in EngineType /\ engine'.at = s /\ engine'.k = engine.k
         /\ engine'.done = engine.done /\ engine'.ask = r /\ engine'.why = w
         /\ engine'.remedy = engine.remedy
<1>1. engine' = [at |-> s, k |-> engine.k, done |-> engine.done, ask |-> r,
                 why |-> w, remedy |-> engine.remedy]
  BY EngineIs, Zenon
<1> QED BY <1>1 DEF EngineType, Places

\* A step that takes or gives back a row.
LEMMA DoneWrites ==
  ASSUME engine \in EngineType, NEW s \in PrepareAt, NEW d \in Seq(Nat),
         engine' = [engine EXCEPT !.at = s, !.done = d]
  PROVE  /\ engine' \in EngineType /\ engine'.at = s /\ engine'.k = engine.k
         /\ engine'.done = d /\ engine'.ask = engine.ask /\ engine'.why = engine.why
         /\ engine'.remedy = engine.remedy
<1>1. engine' = [at |-> s, k |-> engine.k, done |-> d, ask |-> engine.ask,
                 why |-> engine.why, remedy |-> engine.remedy]
  BY EngineIs, Zenon
<1> QED BY <1>1 DEF EngineType, Places

\* Where a remedy starts: at the workspace only when the released request is the
\* one of the execution.
LEMMA FirstSteps ==
  ASSUME NEW r, NEW remedy \in Remedies
  PROVE  /\ FirstStep(r, remedy) \in {"authorize", "resolve", "policy", "workspace-cleanup", "targets"}
         /\ FirstStep(r, remedy) = "workspace-cleanup" => remedy = "release" /\ r.of = 0
         /\ FirstStep(r, remedy) = "policy" => remedy \in {"retain", "quarantine"}
<1>1. CASE remedy = "retry"
  BY <1>1 DEF FirstStep
<1>2. CASE remedy \in {"retain", "quarantine"}
  BY <1>2 DEF FirstStep
<1>3. CASE remedy = "release" /\ r.of = 0
  BY <1>3 DEF FirstStep
<1>4. CASE remedy \notin {"retry", "retain", "quarantine"} /\ ~(remedy = "release" /\ r.of = 0)
  BY <1>4 DEF FirstStep
<1> QED BY <1>1, <1>2, <1>3, <1>4 DEF Remedies

\* What the operator's remedy starts.
LEMMA RemedyWrites ==
  ASSUME requests \subseteq RequestType, NEW r \in requests, NEW m \in Remedies, Remedy(r, m)
  PROVE  /\ engine' \in EngineType /\ engine'.at = FirstStep(r, m) /\ engine'.done = <<>>
         /\ engine'.ask = r /\ engine'.why = "none" /\ engine'.remedy = m
<1>1. engine' = [at |-> FirstStep(r, m), k |-> 0, done |-> <<>>, why |-> "none", ask |-> r,
                 remedy |-> m]
  BY Zenon DEF Idle, Remedy
<1>2. FirstStep(r, m) \in Places
  BY FirstSteps DEF Places, RemedyAt, CleanupAt
<1>3. r \in RequestType
  OBVIOUS
<1> HIDE DEF Remedy
<1> QED BY <1>1, <1>2, <1>3 DEF EngineType, Whys

-----------------------------------------------------------------------------
(* What each write to a row does.                                          *)

\* One field of one row is written.
Others(field) == 
     \A j \in Rows : /\ rows'[j].of = rows[j].of /\ rows'[j].capability = rows[j].capability
                     /\ field # "ready" => rows'[j].ready = rows[j].ready 
                     /\ field # "activate" => rows'[j].activate = rows[j].activate
                     /\ field # "undo" => rows'[j].undo = rows[j].undo
                     /\ field # "status" => rows'[j].status = rows[j].status

\* SetRow on status.
LEMMA StatusWrites ==
  ASSUME rows \in Seq(RowType), NEW i, NEW v \in {"active", "released", "quarantined"},
         SetRow(i, "status", v)
  PROVE  /\ rows' \in Seq(RowType) /\ Rows' = Rows /\ Len(rows') = Len(rows) /\ Others("status")
         /\ \A j \in Rows : rows'[j].status = IF j = i THEN v ELSE rows[j].status
<1> DEFINE Written(row) == [row EXCEPT !.status = v]
<1>1. \A row \in RowType : /\ Written(row) \in RowType
        /\ Written(row).of = row.of /\ Written(row).capability = row.capability
        /\ Written(row).ready = row.ready /\ Written(row).activate = row.activate
        /\ Written(row).undo = row.undo /\ Written(row).status = v
  BY DEF RowType
<1>2. rows' = [j \in DOMAIN rows |-> IF j = i THEN Written(rows[j]) ELSE rows[j]]
  BY DEF SetRow
<1> HIDE DEF Written
<1>3. \A j \in DOMAIN rows : rows[j] \in RowType
  OBVIOUS
<1>4. rows' \in Seq(RowType) /\ Len(rows') = Len(rows) /\ DOMAIN rows' = DOMAIN rows
  BY <1>1, <1>2, <1>3
<1> QED BY <1>1, <1>2, <1>3, <1>4 DEF Rows, Others

\* SetRow on ready.
LEMMA ReadyWrites ==
  ASSUME rows \in Seq(RowType), NEW i, NEW v \in BOOLEAN,
         SetRow(i, "ready", v)
  PROVE  /\ rows' \in Seq(RowType) /\ Rows' = Rows /\ Len(rows') = Len(rows) /\ Others("ready")
         /\ \A j \in Rows : rows'[j].ready = IF j = i THEN v ELSE rows[j].ready
<1> DEFINE Written(row) == [row EXCEPT !.ready = v]
<1>1. \A row \in RowType : /\ Written(row) \in RowType
        /\ Written(row).of = row.of /\ Written(row).capability = row.capability
        /\ Written(row).ready = v
        /\ Written(row).activate = row.activate
        /\ Written(row).undo = row.undo
        /\ Written(row).status = row.status
  BY DEF RowType
<1>2. rows' = [j \in DOMAIN rows |-> IF j = i THEN Written(rows[j]) ELSE rows[j]]
  BY DEF SetRow
<1> HIDE DEF Written
<1>3. \A j \in DOMAIN rows : rows[j] \in RowType
  OBVIOUS
<1>4. rows' \in Seq(RowType) /\ Len(rows') = Len(rows) /\ DOMAIN rows' = DOMAIN rows
  BY <1>1, <1>2, <1>3
<1> QED BY <1>1, <1>2, <1>3, <1>4 DEF Rows, Others

\* SetRow on activate.
LEMMA ActivateWrites ==
  ASSUME rows \in Seq(RowType), NEW i, NEW v \in {"none", "planned", "started", "completed", "failed"},
         SetRow(i, "activate", v)
  PROVE  /\ rows' \in Seq(RowType) /\ Rows' = Rows /\ Len(rows') = Len(rows) /\ Others("activate")
         /\ \A j \in Rows : rows'[j].activate = IF j = i THEN v ELSE rows[j].activate
<1> DEFINE Written(row) == [row EXCEPT !.activate = v]
<1>1. \A row \in RowType : /\ Written(row) \in RowType
        /\ Written(row).of = row.of /\ Written(row).capability = row.capability
        /\ Written(row).ready = row.ready
        /\ Written(row).activate = v
        /\ Written(row).undo = row.undo
        /\ Written(row).status = row.status
  BY DEF RowType
<1>2. rows' = [j \in DOMAIN rows |-> IF j = i THEN Written(rows[j]) ELSE rows[j]]
  BY DEF SetRow
<1> HIDE DEF Written
<1>3. \A j \in DOMAIN rows : rows[j] \in RowType
  OBVIOUS
<1>4. rows' \in Seq(RowType) /\ Len(rows') = Len(rows) /\ DOMAIN rows' = DOMAIN rows
  BY <1>1, <1>2, <1>3
<1> QED BY <1>1, <1>2, <1>3, <1>4 DEF Rows, Others

\* SetRow on undo.
LEMMA UndoneWrites ==
  ASSUME rows \in Seq(RowType), NEW i, NEW v \in {"none", "planned", "started", "completed", "quarantined"},
         SetRow(i, "undo", v)
  PROVE  /\ rows' \in Seq(RowType) /\ Rows' = Rows /\ Len(rows') = Len(rows) /\ Others("undo")
         /\ \A j \in Rows : rows'[j].undo = IF j = i THEN v ELSE rows[j].undo
<1> DEFINE Written(row) == [row EXCEPT !.undo = v]
<1>1. \A row \in RowType : /\ Written(row) \in RowType
        /\ Written(row).of = row.of /\ Written(row).capability = row.capability
        /\ Written(row).ready = row.ready
        /\ Written(row).activate = row.activate
        /\ Written(row).undo = v
        /\ Written(row).status = row.status
  BY DEF RowType
<1>2. rows' = [j \in DOMAIN rows |-> IF j = i THEN Written(rows[j]) ELSE rows[j]]
  BY DEF SetRow
<1> HIDE DEF Written
<1>3. \A j \in DOMAIN rows : rows[j] \in RowType
  OBVIOUS
<1>4. rows' \in Seq(RowType) /\ Len(rows') = Len(rows) /\ DOMAIN rows' = DOMAIN rows
  BY <1>1, <1>2, <1>3
<1> QED BY <1>1, <1>2, <1>3, <1>4 DEF Rows, Others

-----------------------------------------------------------------------------
(* Requests.                                                               *)

\* Request builds a typed request for the attempt it is given.
LEMMA RequestIs ==
  ASSUME NEW a \in Attempts \cup {0}, NEW c \in Categories, 
         NEW n \in Names \cup {"workspace", "uncertain", "outstanding", "cleanup", "held"},
         NEW s \in SUBSET Remedies
  PROVE  Request(a, c, n, s) \in RequestType /\ Request(a, c, n, s).of = a
BY DEF Request, RequestType

\* The requests of the current attempt are typed.
LEMMA OwnRequests ==
  ASSUME TypeOK
  PROVE  /\ WorkspaceLost \in RequestType /\ WorkspaceLost.of = created
         /\ Exhausted \in RequestType /\ Exhausted.of = created
         /\ NoRequest \in RequestType /\ NoRequest.of = 0
         /\ \A c \in Names \cup {"workspace"} : \A s \in SUBSET Remedies : \A k \in Categories :
              Request(created, k, c, s) \in RequestType /\ Request(created, k, c, s).of = created
<1>1. created \in Attempts \cup {0}
  BY BoundsAssumption DEF TypeOK, Attempts
<1>2. {"retry", "cancel"} \in SUBSET Remedies /\ {"retain", "quarantine", "cancel"} \in SUBSET Remedies
  BY DEF Remedies
<1>3. {"exhausted", "unsafe-cleanup", "none"} \subseteq Categories
  BY DEF Categories
<1>4. NoRequest \in RequestType /\ NoRequest.of = 0
  BY RequestIs, <1>3 DEF NoRequest
<1> QED BY <1>1, <1>2, <1>3, <1>4, RequestIs DEF WorkspaceLost, Exhausted

\* A row is of an attempt and a capability.
LEMMA RowTyped ==
  ASSUME TypeOK, NEW i \in Rows
  PROVE  rows[i] \in RowType /\ rows[i].capability \in Names /\ rows[i].of \in Attempts
<1>1. rows \in Seq(RowType)
  BY DEF TypeOK
<1>2. rows[i] \in RowType
  BY <1>1 DEF Rows
<1> QED BY <1>2 DEF RowType

\* What an allocation that cannot be reconciled asks is asked for the current
\* attempt.
LEMMA UnreconciledTyped ==
  ASSUME TypeOK, NEW i \in Rows, NEW r \in Unreconciled(i)
  PROVE  r \in RequestType /\ r.of = created
<1>1. rows[i].capability \in Names
  BY RowTyped
<1>2. {"unhealthy", "unsafe-cleanup"} \subseteq Categories
  BY DEF Categories
<1>3. /\ {"retry", "retain", "quarantine", "cancel"} \in SUBSET Remedies
      /\ {"retry", "release", "cancel"} \in SUBSET Remedies
      /\ {"retain", "quarantine", "release", "cancel"} \in SUBSET Remedies
  BY DEF Remedies
<1> QED BY <1>1, <1>2, <1>3, OwnRequests DEF Unreconciled

\* Creating the worktree goes to register, or fails with its reason.
LEMMA MaterializeWrites ==
  ASSUME TypeOK, engine \in EngineType, Materialize
  PROVE  /\ engine' \in EngineType /\ engine'.at \in {"register", "fail-create"}
         /\ engine'.k = engine.k /\ engine'.done = engine.done
         /\ engine'.remedy = engine.remedy
         /\ engine'.why = "ask" => engine'.ask.of = created
                                  \/ (engine.why = "ask" /\ engine'.ask = engine.ask)
<1> DEFINE Conflict == Request(created, "conflict", "workspace", Remedies \ {"release"})
<1>1. Conflict \in RequestType /\ Conflict.of = created
  BY OwnRequests DEF Categories
<1> HIDE DEF Conflict
<1>2. \/ Go("register")
      \/ engine' = [engine EXCEPT !.at = "fail-create", !.why = "ask", !.ask = Conflict]
      \/ engine' = [engine EXCEPT !.at = "fail-create", !.why = "failed"]
  BY Zenon DEF Materialize, Conflict
<1>3. CASE Go("register")
  BY <1>3, GoWrites DEF Stays, Places, PrepareAt
<1>4. CASE engine' = [engine EXCEPT !.at = "fail-create", !.why = "ask", !.ask = Conflict]
  <2>1. "fail-create" \in PrepareAt /\ "ask" \in Whys
    BY DEF PrepareAt, Whys
  <2> QED BY <1>1, <1>4, <2>1, FailAskWrites, Zenon
<1>5. CASE engine' = [engine EXCEPT !.at = "fail-create", !.why = "failed"]
  <2>1. "fail-create" \in PrepareAt /\ "failed" \in Whys
    BY DEF PrepareAt, Whys
  <2>2. /\ engine' \in EngineType /\ engine'.at = "fail-create" /\ engine'.k = engine.k
        /\ engine'.done = engine.done /\ engine'.ask = engine.ask /\ engine'.why = "failed"
        /\ engine'.remedy = engine.remedy
    BY <1>5, <2>1, FailWrites, Zenon
  <2> QED BY <2>2
<1> QED BY <1>2, <1>3, <1>4, <1>5

-----------------------------------------------------------------------------
(* Steps that leave rows and processes alone.                              *)

\* A step that leaves rows, handles and processes alone, and moves the engine to
\* a place about which the invariant of the rows says nothing.
Calm ==
  /\ UNCHANGED <<rows, known, live>>
  /\ \/ UNCHANGED <<engine, created>>
     \/ At("idle") /\ UNCHANGED engine
     \/ /\ UNCHANGED created
        /\ engine.at \notin {"release-undone", "record-ready"}
        /\ engine'.at \notin Before \cup After \cup Undoings \cup {"release-cleaned", "release-target"}
        /\ engine'.done = engine.done \/ engine'.done = <<>>
        /\ engine'.at = "capability" => engine'.done = <<>> /\ engine'.k = 1

\* The steps of Next that do not touch rows.
Elsewhere ==
  \/ \E a \in Attempts : BeginPreparation(a)
  \/ \E a \in Attempts : ResumePreparation(a)
  \/ \E a \in Attempts : AskExhausted(a)
  \/ \E a \in Attempts : SchedulerHolds(a)
  \/ \E a \in Attempts : CleanupAttempt(a)
  \/ PlanCreate
  \/ StartCreate
  \/ Materialize
  \/ RegisterWorkspace
  \/ FinishCreate
  \/ ReconcileWorkspace
  \/ MarkPreparationReady
  \/ RecordBusy
  \/ FailPreparation
  \/ OpenRequest
  \/ HoldPreparation
  \/ CleanTerminalWorkspace
  \/ KeepWorkspace
  \/ AskToRelease
  \/ PlanCleanup
  \/ StepCleanup
  \/ RemoveWorktree
  \/ RemovalFails
  \/ FinishPlan
  \/ AnswerPreparation
  \/ SetCleanupPolicy
  \/ HoldTree
  \/ ResolveRequest
  \/ OfferRelease
  \/ StartAttempt
  \/ EndAttempt
  \/ EndExecution
  \/ DeadlinePasses
  \/ AgentWorks
  \/ \E r \in requests, m \in Remedies : Remedy(r, m)

\* They are calm.
LEMMA CalmSteps == IInv /\ Elsewhere => Calm
<1> SUFFICES ASSUME IInv, Elsewhere PROVE Calm
  OBVIOUS
<1> USE DEF At
<1>e. engine \in EngineType /\ TypeOK /\ requests \subseteq RequestType
  BY DEF IInv, Typed, TypeOK
<1>t. requests \subseteq RequestType
  BY <1>e
<1>i. engine.at = "idle" => engine.done = <<>>
  BY DEF IInv, CallInv, Idle
<1>b. engine.at \in Beginning => engine.done = <<>>
  BY DEF IInv, CallInv
<1>r. WorkspaceLost \in RequestType /\ Exhausted \in RequestType /\ NoRequest \in RequestType
  BY <1>e, OwnRequests
<1>c. Request(created, "conflict", "workspace", Remedies \ {"release"}) \in RequestType
  BY <1>e, OwnRequests DEF Categories, Remedies
<1>1. ASSUME NEW a \in Attempts, BeginPreparation(a) PROVE Calm
  BY <1>1, <1>e, <1>i, <1>b, GoWrites DEF BeginPreparation, Calm, Before, After, Undoings,
    workflow, outside, journal, Stays, MayCall, Ready, Beginning
<1>2. ASSUME NEW a \in Attempts, ResumePreparation(a) PROVE Calm
  BY <1>2, <1>e, <1>i, <1>b, GoWrites DEF ResumePreparation, Calm, Before, After, Undoings,
    workflow, outside, journal, Stays, MayCall, Ready, Beginning
<1>3. ASSUME NEW a \in Attempts, AskExhausted(a) PROVE Calm
  BY <1>3, <1>e, <1>i, <1>b, AskWrites, <1>r DEF AskExhausted, Calm, Before, After,
    Undoings, workflow, outside, journal, Ready, Beginning
<1>4. ASSUME NEW a \in Attempts, SchedulerHolds(a) PROVE Calm
  BY <1>4, <1>e, <1>i, <1>b DEF SchedulerHolds, Calm, Before, After, Undoings, workflow,
    outside, journal, Ready, Beginning
<1>5. ASSUME NEW a \in Attempts, CleanupAttempt(a) PROVE Calm
  BY <1>5, <1>e, <1>i, <1>b, GoWrites DEF CleanupAttempt, Calm, Before, After, Undoings,
    workflow, outside, journal, Stays, Ready, Beginning
<1>6. CASE PlanCreate
  BY <1>6, <1>e, <1>i, <1>b, GoWrites DEF PlanCreate, Calm, Before, After, Undoings,
    workflow, outside, Stays, Beginning
<1>7. CASE StartCreate
  BY <1>7, <1>e, <1>i, <1>b, GoWrites DEF StartCreate, Calm, Before, After, Undoings,
    workflow, outside, Stays, Beginning
<1>8. CASE Materialize
  BY <1>8, <1>e, <1>i, <1>b, MaterializeWrites DEF Materialize, Calm, Before, After,
    Undoings, workflow, journal, Beginning
<1>9. CASE RegisterWorkspace
  BY <1>9, <1>e, <1>i, <1>b, GoWrites DEF RegisterWorkspace, Calm, Before, After, Undoings,
    workflow, outside, journal, Stays, Beginning
<1>10. CASE FinishCreate
  BY <1>10, <1>e, <1>i, <1>b, GoWrites, FirstCapabilityWrites DEF FinishCreate, Calm,
    Before, After, Undoings, workflow, outside, Stays, Beginning
<1>11. CASE ReconcileWorkspace
  BY <1>11, <1>e, <1>i, <1>b, UndoWrites, FirstCapabilityWrites, <1>r
    DEF ReconcileWorkspace, Calm, Before, After, Undoings, workflow, outside, journal,
    Beginning, Whys
<1>12. CASE MarkPreparationReady
  BY <1>12, <1>e, <1>i, <1>b, UndoWrites, ReturnWrites, <1>r DEF MarkPreparationReady, Calm,
    Before, After, Undoings, workflow, outside, Whys, Beginning
<1>13. CASE RecordBusy
  BY <1>13, <1>e, <1>i, <1>b, ReturnWrites, AskWrites, <1>r DEF RecordBusy, Calm, Before,
    After, Undoings, workflow, outside, journal, Compensated, Beginning
<1>14. CASE FailPreparation
  BY <1>14, <1>e, <1>i, <1>b, ReturnWrites DEF FailPreparation, Calm, Before, After,
    Undoings, workflow, outside, journal, Compensated, Beginning
<1>15. CASE OpenRequest
  BY <1>15, <1>e, <1>i, <1>b, GoWrites DEF OpenRequest, Calm, Before, After, Undoings,
    workflow, outside, journal, Stays, Compensated, Beginning
<1>16. CASE HoldPreparation
  BY <1>16, <1>e, <1>i, <1>b, ReturnWrites DEF HoldPreparation, Calm, Before, After,
    Undoings, workflow, outside, journal, Beginning
<1>17. CASE CleanTerminalWorkspace
  BY <1>17, <1>e, <1>i, <1>b, GoWrites DEF CleanTerminalWorkspace, Calm, Before, After,
    Undoings, workflow, outside, journal, Stays, Beginning
<1>18. CASE KeepWorkspace
  BY <1>18, <1>e, <1>i, <1>b, GoWrites, ReturnWrites DEF KeepWorkspace, Calm, Before, After,
    Undoings, workflow, outside, journal, Stays, QuarantineInitial, Beginning
<1>19. CASE AskToRelease
  BY <1>19, <1>e, <1>i, <1>b, ReturnWrites DEF AskToRelease, Calm, Before, After, Undoings,
    workflow, outside, journal, Beginning
<1>20. CASE PlanCleanup
  BY <1>20, <1>e, <1>i, <1>b, GoWrites DEF PlanCleanup, Calm, Before, After, Undoings,
    workflow, outside, journal, Stays, Beginning
<1>21. CASE StepCleanup
  BY <1>21, <1>e, <1>i, <1>b, GoWrites, ReturnWrites DEF StepCleanup, Calm, Before, After,
    Undoings, workflow, outside, journal, Stays, SetWorkspace, Beginning
<1>22. CASE RemoveWorktree
  BY <1>22, <1>e, <1>i, <1>b, GoWrites DEF RemoveWorktree, Calm, Before, After, Undoings,
    workflow, journal, Stays, Beginning
<1>23. CASE RemovalFails
  BY <1>23, <1>e, <1>i, <1>b, ReturnWrites DEF RemovalFails, Calm, Before, After, Undoings,
    workflow, outside, journal, Beginning
<1>24. CASE FinishPlan
  BY <1>24, <1>e, <1>i, <1>b, GoWrites, ReturnWrites DEF FinishPlan, Calm, Before, After,
    Undoings, workflow, outside, journal, Stays, Beginning
<1>25. CASE AnswerPreparation
  BY <1>25, <1>e, <1>i, <1>b, GoWrites, ReturnWrites DEF AnswerPreparation, Calm, Before,
    After, Undoings, workflow, outside, journal, Stays, Beginning
<1>26. CASE SetCleanupPolicy
  BY <1>26, <1>e, <1>i, <1>b, GoWrites DEF SetCleanupPolicy, Calm, Before, After, Undoings,
    workflow, outside, journal, Stays, Beginning
<1>27. CASE HoldTree
  BY <1>27, <1>e, <1>i, <1>b, GoWrites, ReturnWrites DEF HoldTree, Calm, Before, After,
    Undoings, workflow, outside, journal, Stays, QuarantineInitial, AfterHold, Beginning
<1>28. CASE ResolveRequest
  BY <1>28, <1>e, <1>i, <1>b, GoWrites, ReturnWrites DEF ResolveRequest, Calm, Before,
    After, Undoings, workflow, outside, journal, Stays, Beginning
<1>29. CASE OfferRelease
  BY <1>29, <1>e, <1>i, <1>b, ReturnWrites DEF OfferRelease, Calm, Before, After, Undoings,
    workflow, outside, journal, Beginning
<1>30. CASE StartAttempt
  BY <1>30, <1>e, <1>i, <1>b DEF StartAttempt, Calm, Before, After, Undoings, outside,
    journal, Beginning
<1>31. CASE EndAttempt
  BY <1>31, <1>e, <1>i, <1>b DEF EndAttempt, Calm, Before, After, Undoings, outside,
    journal, Beginning
<1>32. CASE EndExecution
  BY <1>32, <1>e, <1>i, <1>b DEF EndExecution, Calm, Before, After, Undoings, outside,
    journal, Beginning
<1>33. CASE DeadlinePasses
  BY <1>33, <1>e, <1>i, <1>b DEF DeadlinePasses, Calm, Before, After, Undoings, workflow,
    outside, journal, Beginning
<1>34. CASE AgentWorks
  BY <1>34, <1>e, <1>i, <1>b DEF AgentWorks, Calm, Before, After, Undoings, workflow,
    journal, Beginning
<1>35. ASSUME NEW r \in requests, NEW m \in Remedies, Remedy(r, m) PROVE Calm
  <2>1. UNCHANGED <<rows, known, live, created>> /\ engine.at = "idle"
    BY <1>35 DEF Remedy, workflow, outside, journal
  <2>2. /\ engine'.at \in {"authorize", "resolve", "policy", "workspace-cleanup", "targets"}
        /\ engine'.done = <<>>
    BY <1>t, <1>35, RemedyWrites, FirstSteps
  <2> QED BY <2>1, <2>2 DEF Calm, Before, After, Undoings
<1> HIDE DEF At
<1> QED BY <1>1, <1>2, <1>3, <1>4, <1>5, <1>6, <1>7, <1>8, <1>9, <1>10, <1>11, <1>12, <1>13,
  <1>14, <1>15, <1>16, <1>17, <1>18, <1>19, <1>20, <1>21, <1>22, <1>23, <1>24, <1>25, <1>26,
  <1>27, <1>28, <1>29, <1>30, <1>31, <1>32, <1>33, <1>34, <1>35 DEF Elsewhere

\* A calm step keeps what is said of rows.
LEMMA CalmKeeps == IInv /\ Calm => RowsInv' /\ DoneInv' /\ NewInv' /\ GoneInv'
<1> SUFFICES ASSUME IInv, Calm PROVE RowsInv' /\ DoneInv' /\ NewInv' /\ GoneInv'
  OBVIOUS
<1>1. UNCHANGED <<rows, known, live>>
  BY DEF Calm
<1>i. RowsInv /\ DoneInv /\ NewInv /\ GoneInv /\ CallInv
  BY DEF IInv
<1>2. CASE UNCHANGED <<engine, created>>
  BY <1>1, <1>2, <1>i DEF RowsInv, OneHolder, UndoneIsGone, KnownIsReady, LiveIsAccounted,
    DoneInv, DoneRows, Kept, NewInv, GoneInv, IsLastOf, Disposable, Targets, Held, Current,
    At, Undoing, Newest, Wanted, Rows
<1>3. CASE At("idle") /\ UNCHANGED engine
  <2>1. engine.at = "idle" /\ engine.done = <<>>
    BY <1>3, <1>i DEF At, CallInv, Idle
  <2>2. DOMAIN engine.done = {}
    BY <2>1
  <2>3. RowsInv'
    BY <1>1, <1>i, <1>3 DEF RowsInv, OneHolder, UndoneIsGone, KnownIsReady, LiveIsAccounted,
      At, Undoing, Newest, Rows
  <2> QED BY <1>3, <2>1, <2>2, <2>3 DEF At, DoneInv, DoneRows, NewInv, GoneInv, Before,
    After, Undoings
<1>4. CASE /\ UNCHANGED created
           /\ engine.at \notin {"release-undone", "record-ready"}
           /\ engine'.at \notin Before \cup After \cup Undoings \cup {"release-cleaned", "release-target"}
           /\ engine'.done = engine.done \/ engine'.done = <<>>
           /\ engine'.at = "capability" => engine'.done = <<>> /\ engine'.k = 1
  <2>1. RowsInv'
    BY <1>1, <1>i, <1>4 DEF RowsInv, OneHolder, UndoneIsGone, KnownIsReady, LiveIsAccounted,
      At, Undoing, Newest, Rows
  <2>2. DoneInv'
    <3>1. DoneRows'
      <4>1. CASE engine'.done = <<>>
        BY <4>1 DEF DoneRows
      <4>2. CASE engine'.done = engine.done
        BY <4>2, <1>1, <1>4, <1>i DEF DoneRows, DoneInv, Rows
      <4> QED BY <4>1, <4>2, <1>4
    <3> QED BY <3>1, <1>4 DEF DoneInv
  <2> QED BY <1>4, <2>1, <2>2 DEF NewInv, GoneInv, At, Undoings
<1> QED BY <1>2, <1>3, <1>4 DEF Calm

-----------------------------------------------------------------------------
(* Steps on rows and processes.                                            *)

\* A capability of the workflow has a position.
LEMMA PositionIs ==
  ASSUME NEW c \in Names
  PROVE  Position(c) \in DOMAIN Capabilities /\ Capabilities[Position(c)] = c
<1>1. \E k \in DOMAIN Capabilities : Capabilities[k] = c
  BY DEF Names
<1> QED BY <1>1 DEF Position

\* No two rows are the last one held: the lease index allows one per capability.
LEMMA LastIsOne ==
  ASSUME TypeOK, OneHolder, NEW S \in SUBSET {i \in Rows : rows[i].status = "active"},
         NEW i, NEW j, IsLastOf(i, S), IsLastOf(j, S)
  PROVE  i = j
<1>1. i \in S /\ j \in S /\ i \in Rows /\ j \in Rows
  BY DEF IsLastOf
<1>2. rows[i].capability \in Names /\ rows[j].capability \in Names
  BY <1>1, RowTyped
<1>3. Position(rows[i].capability) = Position(rows[j].capability)
  <2>1. Capabilities \in Seq({Capabilities[k] : k \in DOMAIN Capabilities})
    BY CapabilitiesAssumption
  <2>2. Position(rows[i].capability) \in Nat /\ Position(rows[j].capability) \in Nat
    BY <1>2, <2>1, PositionIs
  <2> QED BY <1>1, <2>2 DEF IsLastOf
<1>4. rows[i].capability = rows[j].capability
  BY <1>2, <1>3, PositionIs
<1> QED BY <1>1, <1>4 DEF OneHolder

\* All but the last of a sequence.
LEMMA FrontIs ==
  ASSUME NEW s \in Seq(Nat), s # <<>>
  PROVE  /\ Front(s) \in Seq(Nat) /\ Len(Front(s)) = Len(s) - 1
         /\ \A j \in DOMAIN Front(s) : j \in DOMAIN s /\ j # Len(s) /\ Front(s)[j] = s[j]
         /\ Len(s) \in DOMAIN s /\ Last(s) = s[Len(s)]
<1>1. Len(s) \in Nat /\ Len(s) # 0 /\ Len(s) - 1 \in Nat /\ Len(s) - 1 <= Len(s)
  OBVIOUS
<1>2. Front(s) = [k \in 1 .. (Len(s) - 1) |-> s[k]]
  BY <1>1 DEF Front
<1>3. \A k \in 1 .. (Len(s) - 1) : k \in DOMAIN s /\ s[k] \in Nat /\ k # Len(s)
  BY <1>1
<1> HIDE DEF Front
<1> QED BY <1>1, <1>2, <1>3 DEF Last

\* The part of the type invariant that is about rows.
RowFacts == rows \in Seq(RowType) /\ known \subseteq Rows /\ live \subseteq Rows

\* Row i is recorded as released.
Released(i) ==
  /\ Rows' = Rows /\ Newest' = Newest /\ Others("status")
  /\ \A j \in Rows : rows'[j].status = IF j = i THEN "released" ELSE rows[j].status

\* SetRow writes that.
LEMMA IsReleased ==
  ASSUME rows \in Seq(RowType), NEW i, SetRow(i, "status", "released")
  PROVE  Released(i)
BY StatusWrites DEF Released, Newest

\* Releasing a row without a process keeps the invariant of the rows.
LEMMA ReleaseKeepsRows ==
  ASSUME RowFacts, RowsInv, NEW i \in Rows, Released(i), i \notin live,
         UNCHANGED known, UNCHANGED live, ~At("release-undone") \/ i = Undoing, ~At("record-ready")
  PROVE  RowsInv'
<1>1. OneHolder'
  BY DEF Released, Others, RowsInv, OneHolder
<1>2. UndoneIsGone'
  BY DEF Released, Others, RowsInv, UndoneIsGone
<1>3. KnownIsReady'
  BY DEF Released, Others, RowsInv, KnownIsReady, RowFacts
<1>4. LiveIsAccounted'
  BY DEF Released, Others, RowsInv, LiveIsAccounted, RowFacts
<1> QED BY <1>1, <1>2, <1>3, <1>4 DEF RowsInv

\* A row that was never activated is given back.
LEMMA ReleaseUnusedKeeps ==
  ASSUME IInv, NEW i \in Rows, ReleaseUnused(i)
  PROVE  RowsInv' /\ DoneInv' /\ NewInv' /\ GoneInv'
<1>i. RowsInv /\ DoneInv /\ NewInv /\ GoneInv /\ CallInv /\ TypeOK /\ engine \in EngineType
  BY DEF IInv, Typed
<1>t. RowFacts
  BY <1>i DEF TypeOK, RowFacts
<1>e. Released(i) /\ UNCHANGED <<known, live, engine, created>> /\ engine.at = "capability"
  BY <1>t, IsReleased DEF ReleaseUnused, RowFacts, outside, workflow, AtCapability, At
<1>n. rows[i].activate \in {"none", "planned", "failed"}
  BY DEF ReleaseUnused
<1>1. RowsInv'
  <2>1. i \notin live
    BY <1>i, <1>n DEF RowsInv, LiveIsAccounted
  <2> QED BY <1>i, <1>t, <1>e, <2>1, ReleaseKeepsRows DEF At
<1>2. DoneInv'
  <2>1. \A j \in DOMAIN engine.done : Kept(j) /\ engine.done[j] # i
    BY <1>i, <1>e, <1>n DEF DoneInv, Kept
  <2> QED BY <1>i, <1>e, <2>1 DEF DoneInv, DoneRows, Kept, Released, Others, Before, After
<1>3. NewInv'
  BY <1>e DEF NewInv, Before, After
<1>4. GoneInv'
  BY <1>e DEF GoneInv, At, Undoings
<1> QED BY <1>1, <1>2, <1>3, <1>4

\* The activation of row i is recorded.
Activated(i, status) ==
  /\ Rows' = Rows /\ Newest' = Newest /\ Others("activate")
  /\ \A j \in Rows : rows'[j].activate = IF j = i THEN status ELSE rows[j].activate

\* SetRow writes that.
LEMMA IsActivated ==
  ASSUME rows \in Seq(RowType), NEW i,
         NEW v \in {"none", "planned", "started", "completed", "failed"}, SetRow(i, "activate", v)
  PROVE  Activated(i, v)
BY ActivateWrites DEF Activated, Newest

\* Recording an activation keeps the invariant of the rows, unless it says of a
\* live process that there is none.
LEMMA ActivatedKeepsRows ==
  ASSUME RowFacts, RowsInv, NEW i \in Rows, NEW v, Activated(i, v),
         i \in live => v \notin {"none", "planned", "failed"},
         UNCHANGED live, known' \in SUBSET Rows,
         \A j \in known' \ known : rows[j].ready /\ (rows[j].undo = "completed" => rows[j].status # "active"),
         ~At("release-undone"), ~At("record-ready")
  PROVE  RowsInv'
<1>1. OneHolder'
  BY DEF Activated, Others, RowsInv, OneHolder
<1>2. UndoneIsGone'
  BY DEF Activated, Others, RowsInv, UndoneIsGone
<1>3. KnownIsReady'
  BY DEF Activated, Others, RowsInv, KnownIsReady, RowFacts
<1>4. LiveIsAccounted'
  BY DEF Activated, Others, RowsInv, LiveIsAccounted, RowFacts
<1> QED BY <1>1, <1>2, <1>3, <1>4 DEF RowsInv

\* A row recorded ready is taken again.
LEMMA ReattachKeeps ==
  ASSUME IInv, NEW i \in Rows, Reattach(i)
  PROVE  RowsInv' /\ DoneInv' /\ NewInv' /\ GoneInv'
<1>i. RowsInv /\ DoneInv /\ NewInv /\ GoneInv /\ CallInv /\ TypeOK /\ engine \in EngineType
  BY DEF IInv, Typed
<1>t. RowFacts
  BY <1>i DEF TypeOK, RowFacts
<1>n. /\ rows[i].of = created /\ rows[i].capability = Wanted /\ rows[i].status = "active"
      /\ rows[i].activate \in {"started", "completed"}
      /\ engine.at = "capability" /\ engine.k <= Len(Capabilities)
      /\ UNCHANGED <<live, created>>
  BY DEF Reattach, HeldFor, Held, AtCapability, At, outside, workflow
<1>1. CASE /\ Reconciles(i)
           /\ known' = known \cup {i} /\ SetRow(i, "activate", "completed")
           /\ NextCapability(Append(engine.done, i))
  <2>1. Activated(i, "completed") /\ Reconciles(i) /\ known' = known \cup {i}
    BY <1>1, <1>t, IsActivated DEF RowFacts
  <2>2. engine.done \in Seq(Nat) /\ engine.k \in Nat /\ Len(engine.done) = engine.k - 1
    BY <1>i, <1>n DEF EngineType, DoneInv
  <2>3. i \in Nat /\ Append(engine.done, i) \in Seq(Nat)
    BY <1>t, <2>2 DEF RowFacts, Rows
  <2>4. /\ engine'.at = "capability" /\ engine'.k = engine.k + 1
        /\ engine'.done = Append(engine.done, i)
    BY <1>1, <1>i, <2>3, NextCapabilityWrites
  <2>5. rows[i].ready /\ rows[i].undo # "completed"
    BY <1>i, <1>n, <2>1 DEF Reconciles, RowsInv, KnownIsReady, UndoneIsGone, At
  <2>6. RowsInv'
    BY <1>i, <1>t, <1>n, <2>1, <2>5, ActivatedKeepsRows DEF RowFacts, At
  <2>7. engine.k \in DOMAIN Capabilities /\ Capabilities[engine.k] = rows[i].capability
    BY <1>n, <2>2, CapabilitiesAssumption DEF Wanted
  <2>8. /\ Len(engine'.done) = engine.k
        /\ \A j \in DOMAIN engine'.done : \/ j \in DOMAIN engine.done /\ engine'.done[j] = engine.done[j]
                                          \/ j = engine.k /\ engine'.done[j] = i
    BY <2>2, <2>3, <2>4
  <2>9. DoneRows'
    BY <1>i, <1>n, <2>1, <2>7, <2>8 DEF DoneInv, DoneRows, Activated, Others
  <2>10. \A j \in DOMAIN engine.done : Kept(j)
    BY <1>i, <1>n DEF DoneInv
  <2>11. \A j \in DOMAIN engine'.done : Kept(j)'
    BY <1>i, <2>1, <2>5, <2>8, <2>10, <1>t DEF Kept, Activated, Others, DoneInv, DoneRows
  <2>12. DoneInv'
    BY <2>2, <2>4, <2>8, <2>9, <2>11 DEF DoneInv, Before, After
  <2> QED BY <2>4, <2>6, <2>12 DEF NewInv, GoneInv, At, Before, After, Undoings
<1>2. CASE /\ ~Reconciles(i) /\ \E r \in Unreconciled(i) : Undo("ask", r)
           /\ UNCHANGED <<known, rows>>
  <2>1. engine'.at = "compensate" /\ engine'.done = engine.done
    BY <1>2, <1>i, UnreconciledTyped, UndoWrites DEF Whys
  <2> QED BY <1>2, <1>i, <1>n, <2>1 DEF RowsInv, OneHolder, UndoneIsGone, KnownIsReady,
    LiveIsAccounted, DoneInv, DoneRows, NewInv, GoneInv, At, Before, After, Undoings, Rows,
    Newest
<1> QED BY <1>1, <1>2, Zenon DEF Reattach

\* The row that AcquireAllocation appends.
Fresh == [of |-> created, capability |-> Wanted, status |-> "active",
                 ready |-> FALSE, activate |-> "none", undo |-> "none"]

\* A new row is taken under the lease index.
LEMMA AcquireAllocationKeeps ==
  ASSUME IInv, AcquireAllocation
  PROVE  RowsInv' /\ DoneInv' /\ NewInv' /\ GoneInv'
<1>i. RowsInv /\ DoneInv /\ NewInv /\ GoneInv /\ CallInv /\ TypeOK /\ engine \in EngineType
  BY DEF IInv, Typed
<1>t. RowFacts
  BY <1>i DEF TypeOK, RowFacts
<1>n. engine.at = "capability" /\ engine.k <= Len(Capabilities) /\ UNCHANGED <<live, known, created>>
  BY DEF AcquireAllocation, AtCapability, At, outside, workflow
<1>1. CASE Undo("busy", NoRequest) /\ UNCHANGED rows
  <2>1. engine'.at = "compensate" /\ engine'.done = engine.done
    BY <1>1, <1>i, OwnRequests, UndoWrites DEF Whys
  <2> QED BY <1>1, <1>i, <1>n, <2>1 DEF RowsInv, OneHolder, UndoneIsGone, KnownIsReady,
    LiveIsAccounted, DoneInv, DoneRows, NewInv, GoneInv, At, Before, After, Undoings, Rows,
    Newest
<1>2. CASE /\ ~Taken(Wanted) /\ Go("plan-activation") /\ rows' = Append(rows, Fresh)
  <2>1. /\ engine'.at = "plan-activation" /\ engine'.k = engine.k
        /\ engine'.done = engine.done
    BY <1>2, <1>i, GoWrites DEF Stays
  <2>2. engine.done \in Seq(Nat) /\ engine.k \in Nat /\ Len(engine.done) = engine.k - 1
    BY <1>i, <1>n DEF EngineType, DoneInv
  <2>3. /\ Len(rows) \in Nat /\ Len(rows') = Len(rows) + 1 /\ Rows = 1 .. Len(rows)
        /\ Rows' = 1 .. (Len(rows) + 1)
        /\ \A j \in Rows : rows'[j] = rows[j]
        /\ rows'[Len(rows) + 1] = Fresh
    BY <1>2, <1>t DEF RowFacts, Rows
  <2> DEFINE New == Len(rows) + 1
  <2>4. /\ New \in Nat \ {0} /\ New \notin Rows /\ Newest' = New
        /\ \A j \in Rows' : j \in Rows \/ j = New
    BY <2>3 DEF Newest
  <2>5. /\ rows'[New].of = created /\ rows'[New].capability = Wanted
        /\ rows'[New].status = "active" /\ rows'[New].activate = "none"
        /\ rows'[New].ready = FALSE /\ rows'[New].undo = "none"
    BY <2>3 DEF Fresh
  <2>6. New \notin live /\ New \notin known
    BY <1>t, <2>4 DEF RowFacts
  <2> HIDE DEF New
  <2>7. OneHolder'
    BY <1>i, <1>2, <2>3, <2>4, <2>5 DEF RowsInv, OneHolder, Taken
  <2>8. UndoneIsGone'
    BY <1>i, <1>n, <2>1, <2>3, <2>4, <2>5 DEF RowsInv, UndoneIsGone, At
  <2>9. KnownIsReady' /\ LiveIsAccounted'
    BY <1>i, <1>t, <1>n, <2>3 DEF RowsInv, KnownIsReady, LiveIsAccounted, At, RowFacts
  <2>10. DoneRows'
    BY <1>i, <1>n, <2>1, <2>3, <2>4 DEF DoneInv, DoneRows
  <2>11. \A j \in DOMAIN engine'.done : Kept(j)'
    BY <1>i, <1>n, <2>1, <2>3 DEF Kept, DoneInv, DoneRows
  <2>12. DoneInv'
    BY <2>1, <2>2, <2>10, <2>11 DEF DoneInv, Before, After
  <2>13. engine.k \in DOMAIN Capabilities /\ Wanted' = Wanted
    BY <1>n, <2>1, <2>2, CapabilitiesAssumption DEF Wanted
  <2>14. NewInv'
    BY <1>n, <2>1, <2>4, <2>5, <2>6, <2>13 DEF NewInv, At, Before, After
  <2> QED BY <2>1, <2>7, <2>8, <2>9, <2>12, <2>14 DEF RowsInv, GoneInv, At, Undoings
<1>3. \/ Undo("busy", NoRequest) /\ UNCHANGED rows
      \/ ~Taken(Wanted) /\ Go("plan-activation") /\ rows' = Append(rows, Fresh)
  BY Zenon DEF AcquireAllocation, Fresh
<1> QED BY <1>1, <1>2, <1>3

\* The newest row of an attempt, if there is one, is a row.
LEMMA NewestIsRow ==
  ASSUME RowFacts, Newest # 0
  PROVE  Newest \in Rows
BY DEF RowFacts, Newest, Rows

\* The activation is planned.
LEMMA PlanActivationKeeps ==
  ASSUME IInv, PlanActivation
  PROVE  RowsInv' /\ DoneInv' /\ NewInv' /\ GoneInv'
<1>i. RowsInv /\ DoneInv /\ NewInv /\ GoneInv /\ CallInv /\ TypeOK /\ engine \in EngineType
  BY DEF IInv, Typed
<1>t. RowFacts
  BY <1>i DEF TypeOK, RowFacts
<1>n. UNCHANGED <<live, known, created>>
  BY DEF PlanActivation, outside, workflow
<1>1. ASSUME NEW v \in {"planned", "started"}, SetRow(Newest, "activate", v),
             engine.at = IF v = "planned" THEN "plan-activation" ELSE "start-activation",
             Go(IF v = "planned" THEN "start-activation" ELSE "activate")
      PROVE  RowsInv' /\ DoneInv' /\ NewInv' /\ GoneInv'
  <2>1. Newest \in Rows /\ Newest \notin live /\ Newest \notin known /\ engine.at \in Before
    BY <1>1, <1>i, <1>t, NewestIsRow DEF NewInv, Before
  <2>2. Activated(Newest, v)
    BY <1>1, <1>t, IsActivated DEF RowFacts
  <2>3. /\ engine'.at = IF v = "planned" THEN "start-activation" ELSE "activate"
        /\ engine'.at \in Before
        /\ engine'.k = engine.k /\ engine'.done = engine.done
    BY <1>1, <1>i, GoWrites DEF Stays, Before
  <2>4. RowsInv'
    BY <1>1, <1>i, <1>t, <1>n, <2>1, <2>2, ActivatedKeepsRows DEF At, RowFacts
  <2>5. \A j \in DOMAIN engine.done : Kept(j)
    BY <1>i, <2>1 DEF DoneInv
  <2>6. \A j \in DOMAIN engine'.done : Kept(j)'
    BY <1>i, <1>n, <2>1, <2>2, <2>3, <2>5 DEF Kept, Activated, Others, DoneInv, DoneRows
  <2>7. DoneRows'
    BY <1>i, <1>n, <2>2, <2>3 DEF DoneInv, DoneRows, Activated, Others
  <2>8. DoneInv'
    BY <1>i, <2>1, <2>3, <2>6, <2>7 DEF DoneInv, Before, After
  <2>9. NewInv'
    BY <1>i, <1>n, <1>1, <2>1, <2>2, <2>3 DEF NewInv, Activated, Others, Wanted, Before,
      After, At
  <2> QED BY <2>3, <2>4, <2>8, <2>9 DEF GoneInv, At, Before, Undoings
<1> QED BY <1>1 DEF PlanActivation, At

\* The adapter did not activate the row.
ActivationFails ==
  /\ UNCHANGED <<live, known>>
  /\ engine' \in EngineType /\ engine'.at = "fail-activation" /\ engine'.k = engine.k
  /\ engine'.done = engine.done /\ engine'.remedy = engine.remedy
  /\ engine'.why = "ask" => engine'.ask.of = created

\* The adapter starts a process and hands it over, or fails.
LEMMA ActivateEnds ==
  ASSUME TypeOK, engine \in EngineType, Wanted \in Names, Activate
  PROVE  \/ /\ live' = live \cup {Newest} /\ known' = known \cup {Newest}
            /\ engine' = [engine EXCEPT !.at = "record-ready", !.done = Append(@, Newest)]
         \/ ActivationFails
<1> DEFINE Unhealthy == Request(created, "unhealthy", Wanted, {"retry", "cancel"})
<1>1. Unhealthy \in RequestType /\ Unhealthy.of = created
  <2>1. {"retry", "cancel"} \in SUBSET Remedies /\ "unhealthy" \in Categories
    BY DEF Remedies, Categories
  <2> QED BY <2>1, OwnRequests
<1> HIDE DEF Unhealthy
<1>2. \/ /\ live' = live \cup {Newest} /\ known' = known \cup {Newest}
         /\ engine' = [engine EXCEPT !.at = "record-ready", !.done = Append(@, Newest)]
      \/ /\ UNCHANGED <<live, known>>
         /\ engine' = [engine EXCEPT !.at = "fail-activation", !.why = "failed"]
      \/ /\ UNCHANGED <<live, known>>
         /\ engine' = [engine EXCEPT !.at = "fail-activation", !.why = "ask", !.ask = Unhealthy]
  BY Zenon DEF Activate, Unhealthy
<1>3. "fail-activation" \in PrepareAt /\ "failed" \in Whys /\ "ask" \in Whys
  BY DEF PrepareAt, Whys
<1>4. CASE /\ UNCHANGED <<live, known>>
           /\ engine' = [engine EXCEPT !.at = "fail-activation", !.why = "failed"]
  <2>1. /\ engine' \in EngineType /\ engine'.at = "fail-activation" /\ engine'.k = engine.k
        /\ engine'.done = engine.done /\ engine'.why = "failed"
        /\ engine'.remedy = engine.remedy
    BY <1>3, <1>4, FailWrites, Zenon
  <2>2. UNCHANGED <<live, known>>
    BY <1>4, Zenon
  <2> QED BY <2>1, <2>2 DEF ActivationFails
<1>5. CASE /\ UNCHANGED <<live, known>>
           /\ engine' = [engine EXCEPT !.at = "fail-activation", !.why = "ask", !.ask = Unhealthy]
  <2>1. /\ engine' \in EngineType /\ engine'.at = "fail-activation" /\ engine'.k = engine.k
        /\ engine'.done = engine.done /\ engine'.ask = Unhealthy
        /\ engine'.remedy = engine.remedy
    BY <1>1, <1>3, <1>5, FailAskWrites, Zenon
  <2>2. UNCHANGED <<live, known>>
    BY <1>5, Zenon
  <2> QED BY <1>1, <2>1, <2>2 DEF ActivationFails
<1> QED BY <1>2, <1>4, <1>5, Zenon

\* The adapter's call keeps the invariant.
LEMMA ActivateKeeps ==
  ASSUME IInv, Activate
  PROVE  RowsInv' /\ DoneInv' /\ NewInv' /\ GoneInv'
<1>i. RowsInv /\ DoneInv /\ NewInv /\ GoneInv /\ CallInv /\ TypeOK /\ engine \in EngineType
  BY DEF IInv, Typed
<1>t. RowFacts
  BY <1>i DEF TypeOK, RowFacts
<1>n. engine.at = "activate" /\ engine.at \in Before /\ UNCHANGED <<rows, created>>
  BY DEF Activate, At, journal, workflow, Before
<1>w. /\ Newest \in Rows /\ Newest \notin live /\ Newest \notin known
      /\ rows[Newest].of = created /\ rows[Newest].status = "active"
      /\ rows[Newest].activate = "started" /\ rows[Newest].undo = "none"
      /\ rows[Newest].capability = Wanted /\ engine.k \in DOMAIN Capabilities
      /\ ~rows[Newest].ready
  BY <1>n, <1>i, <1>t, NewestIsRow DEF NewInv, At
<1>d. /\ engine.done \in Seq(Nat) /\ engine.k \in Nat /\ Len(engine.done) = engine.k - 1
      /\ \A j \in DOMAIN engine.done : Kept(j)
  BY <1>i, <1>n DEF EngineType, DoneInv
<1>1. CASE /\ live' = live \cup {Newest} /\ known' = known \cup {Newest}
           /\ engine' = [engine EXCEPT !.at = "record-ready", !.done = Append(@, Newest)]
  <2>1. Newest \in Nat /\ Append(engine.done, Newest) \in Seq(Nat)
    BY <1>t, <1>w, <1>d DEF RowFacts, Rows
  <2>2. /\ engine'.at = "record-ready" /\ engine'.k = engine.k
        /\ engine'.done = Append(engine.done, Newest)
    BY <1>1, <1>i, <2>1, DoneWrites DEF PrepareAt
  <2>3. live' = live \cup {Newest} /\ known' = known \cup {Newest} /\ Newest' = Newest
    BY <1>1, <1>n DEF Newest
  <2>4. RowsInv'
    BY <1>i, <1>t, <1>n, <1>w, <2>2, <2>3 DEF RowsInv, OneHolder, UndoneIsGone,
      KnownIsReady, LiveIsAccounted, At, Rows, RowFacts
  <2>5. /\ Len(engine'.done) = engine.k
        /\ \A j \in DOMAIN engine'.done : \/ j \in DOMAIN engine.done /\ engine'.done[j] = engine.done[j]
                                          \/ j = engine.k /\ engine'.done[j] = Newest
        /\ engine'.done[engine.k] = Newest
    BY <1>d, <2>1, <2>2, <1>w
  <2>6. DoneRows'
    BY <1>i, <1>n, <1>w, <2>5 DEF DoneInv, DoneRows, Wanted, Rows
  <2>7. \A j \in DOMAIN engine'.done : j < engine.k => Kept(j)'
    BY <1>d, <1>n, <2>3, <2>5 DEF Kept
  <2>8. DoneInv'
    BY <2>2, <2>3, <2>5, <2>6, <2>7 DEF DoneInv, Before, After
  <2>9. NewInv'
    BY <1>n, <1>w, <2>2, <2>3, NewestIsRow, <1>i DEF NewInv, Before, After, At, Wanted
  <2> QED BY <2>2, <2>4, <2>8, <2>9 DEF GoneInv, At, Undoings
<1>2. CASE ActivationFails
  <2>1. /\ engine'.at = "fail-activation" /\ engine'.k = engine.k /\ engine'.done = engine.done
        /\ UNCHANGED <<live, known>>
    BY <1>2 DEF ActivationFails
  <2>2. RowsInv'
    BY <1>i, <1>t, <1>n, <2>1 DEF RowsInv, OneHolder, UndoneIsGone, KnownIsReady,
      LiveIsAccounted, At, Rows, RowFacts
  <2>3. DoneInv'
    BY <1>i, <1>d, <1>n, <2>1 DEF DoneInv, DoneRows, Kept, Before, After, Rows
  <2>4. NewInv'
    BY <1>i, <1>n, <2>1 DEF NewInv, Before, After, At, Wanted, Newest
  <2> QED BY <2>1, <2>2, <2>3, <2>4 DEF GoneInv, At, Undoings
<1>3. Wanted \in Names
  BY <1>w DEF Wanted, Names
<1> QED BY <1>1, <1>2, <1>3, <1>i, ActivateEnds, Zenon

\* The activation is recorded as completed, and the row is one of those kept.
LEMMA FinishActivationKeeps ==
  ASSUME IInv, FinishActivation
  PROVE  RowsInv' /\ DoneInv' /\ NewInv' /\ GoneInv'
<1>i. RowsInv /\ DoneInv /\ NewInv /\ GoneInv /\ CallInv /\ TypeOK /\ engine \in EngineType
  BY DEF IInv, Typed
<1>t. RowFacts
  BY <1>i DEF TypeOK, RowFacts
<1>n. UNCHANGED <<live, known, created>>
  BY DEF FinishActivation, outside, workflow
<1>d. engine.done \in Seq(Nat) /\ engine.k \in Nat /\ DoneRows
  BY <1>i DEF EngineType, DoneInv
<1>1. CASE At("record-ready") /\ SetRow(Newest, "ready", TRUE) /\ Go("finish-activation")
  <2>1. engine.at \in After /\ engine.at = "record-ready"
    BY <1>1 DEF After, At
  <2>2. Newest \in Rows /\ engine.done[engine.k] = Newest /\ Newest \in known
    BY <1>i, <1>t, <2>1, NewestIsRow DEF NewInv, DoneInv
  <2>3. /\ Rows' = Rows /\ Newest' = Newest /\ Others("ready")
        /\ \A j \in Rows : rows'[j].ready = IF j = Newest THEN TRUE ELSE rows[j].ready
    BY <1>1, <1>t, ReadyWrites DEF RowFacts, Newest
  <2>4. engine'.at = "finish-activation" /\ engine'.k = engine.k /\ engine'.done = engine.done
    BY <1>1, <1>i, GoWrites DEF Stays
  <2>5. OneHolder' /\ UndoneIsGone'
    BY <1>i, <1>n, <2>1, <2>3 DEF RowsInv, OneHolder, UndoneIsGone, At, Others
  <2>6. KnownIsReady' /\ LiveIsAccounted'
    BY <1>i, <1>t, <1>n, <2>1, <2>3 DEF RowsInv, KnownIsReady, LiveIsAccounted, At, Others,
      RowFacts
  <2>7. DoneRows'
    BY <1>d, <1>n, <2>3, <2>4 DEF DoneRows, Others
  <2>8. \A j \in DOMAIN engine.done : j < engine.k => Kept(j)
    BY <1>i, <2>1 DEF DoneInv
  <2>9. \A j \in DOMAIN engine'.done : j < engine.k => Kept(j)'
    <3> SUFFICES ASSUME NEW j \in DOMAIN engine.done, j < engine.k PROVE Kept(j)'
      BY <2>4
    <3>1. engine.done[j] \in Rows /\ engine.done[j] \in known
          /\ rows[engine.done[j]].activate = "completed" /\ rows[engine.done[j]].ready
      BY <1>d, <2>8 DEF DoneRows, Kept
    <3> QED BY <1>n, <2>3, <2>4, <3>1 DEF Kept, Others
  <2>10. DoneInv'
    BY <1>i, <1>n, <2>1, <2>2, <2>3, <2>4, <2>7, <2>9 DEF DoneInv, Before, After
  <2>11. NewInv'
    BY <1>i, <1>n, <2>1, <2>2, <2>3, <2>4 DEF NewInv, Before, After, At, Wanted, Others
  <2> QED BY <2>4, <2>5, <2>6, <2>10, <2>11 DEF RowsInv, GoneInv, At, Undoings
<1>2. CASE At("finish-activation") /\ SetRow(Newest, "activate", "completed") /\ NextCapability(engine.done)
  <2>1. engine.at \in After /\ engine.at = "finish-activation"
    BY <1>2 DEF After, At
  <2>2. Newest \in Rows /\ engine.done[engine.k] = Newest /\ Len(engine.done) = engine.k
    BY <1>i, <1>t, <2>1, NewestIsRow DEF NewInv, DoneInv
  <2>3. Activated(Newest, "completed")
    BY <1>2, <1>t, IsActivated DEF RowFacts
  <2>4. engine'.at = "capability" /\ engine'.k = engine.k + 1 /\ engine'.done = engine.done
    BY <1>2, <1>i, <1>d, NextCapabilityWrites
  <2>5. RowsInv'
    BY <1>i, <1>t, <1>n, <2>1, <2>2, <2>3, ActivatedKeepsRows DEF At, RowFacts
  <2>6. DoneRows'
    BY <1>d, <1>n, <2>3, <2>4 DEF DoneRows, Activated, Others
  <2>7. /\ \A j \in DOMAIN engine.done : j < engine.k => Kept(j)
        /\ Newest \in known /\ rows[Newest].ready
    BY <1>i, <2>1 DEF DoneInv, NewInv, At
  <2>8. \A j \in DOMAIN engine.done : j < engine.k \/ j = engine.k
    BY <1>d, <2>2
  <2>9. \A j \in DOMAIN engine'.done : Kept(j)'
    BY <1>d, <1>n, <2>2, <2>3, <2>4, <2>7, <2>8 DEF DoneRows, Kept, Activated, Others
  <2>10. DoneInv'
    BY <1>d, <2>2, <2>4, <2>6, <2>9 DEF DoneInv, Before, After
  <2> QED BY <2>4, <2>5, <2>10 DEF NewInv, GoneInv, At, Undoings, Before, After
<1>3. CASE At("fail-activation") /\ SetRow(Newest, "activate", "failed") /\ Go("drop-allocation")
  <2>1. engine.at \in Before /\ engine.at = "fail-activation"
    BY <1>3 DEF Before, At
  <2>2. Newest \in Rows /\ Newest \notin live /\ Newest \notin known
    BY <1>i, <1>t, <2>1, NewestIsRow DEF NewInv
  <2>3. Activated(Newest, "failed")
    BY <1>3, <1>t, IsActivated DEF RowFacts
  <2>4. engine'.at = "drop-allocation" /\ engine'.k = engine.k /\ engine'.done = engine.done
    BY <1>3, <1>i, GoWrites DEF Stays
  <2>5. RowsInv'
    BY <1>i, <1>t, <1>n, <2>1, <2>2, <2>3, ActivatedKeepsRows DEF At, RowFacts
  <2>6. DoneRows'
    BY <1>d, <1>n, <2>3, <2>4 DEF DoneRows, Activated, Others
  <2>7. \A j \in DOMAIN engine.done : Kept(j)
    BY <1>i, <2>1 DEF DoneInv
  <2>8. \A j \in DOMAIN engine'.done : Kept(j)'
    BY <1>d, <1>n, <2>2, <2>3, <2>4, <2>7 DEF DoneRows, Kept, Activated, Others
  <2>9. DoneInv'
    BY <1>i, <2>1, <2>4, <2>6, <2>8 DEF DoneInv, Before, After
  <2>10. NewInv'
    BY <1>i, <1>n, <2>1, <2>2, <2>3, <2>4 DEF NewInv, Before, After, At, Wanted, Activated,
      Others
  <2> QED BY <2>4, <2>5, <2>9, <2>10 DEF GoneInv, At, Undoings
<1>4. CASE At("drop-allocation") /\ SetRow(Newest, "status", "released") /\ Go("compensate")
  <2>1. engine.at \in Before /\ engine.at = "drop-allocation"
    BY <1>4 DEF Before, At
  <2>2. Newest \in Rows /\ Newest \notin live /\ Newest \notin known
    BY <1>i, <1>t, <2>1, NewestIsRow DEF NewInv
  <2>3. Released(Newest)
    BY <1>4, <1>t, IsReleased DEF RowFacts
  <2>4. engine'.at = "compensate" /\ engine'.k = engine.k /\ engine'.done = engine.done
    BY <1>4, <1>i, GoWrites DEF Stays
  <2>5. RowsInv'
    BY <1>i, <1>t, <1>n, <2>1, <2>2, <2>3, ReleaseKeepsRows DEF At
  <2>6. \A j \in DOMAIN engine.done : Kept(j) /\ engine.done[j] # Newest
    BY <1>i, <2>1, <2>2 DEF DoneInv, Kept
  <2>7. DoneRows'
    BY <1>d, <1>n, <2>3, <2>4, <2>6 DEF DoneRows, Released, Others
  <2> QED BY <2>4, <2>5, <2>7 DEF DoneInv, NewInv, GoneInv, At, Undoings, Before, After
<1> QED BY <1>1, <1>2, <1>3, <1>4, Zenon DEF FinishActivation

\* The undo of row i is recorded.
Undone(i, status) ==
  /\ Rows' = Rows /\ Newest' = Newest /\ Others("undo")
  /\ \A j \in Rows : rows'[j].undo = IF j = i THEN status ELSE rows[j].undo

\* SetRow writes that.
LEMMA IsUndone ==
  ASSUME rows \in Seq(RowType), NEW i,
         NEW v \in {"none", "planned", "started", "completed", "quarantined"}, SetRow(i, "undo", v)
  PROVE  Undone(i, v)
BY UndoneWrites DEF Undone, Newest

\* The row to undo is the last one taken.
LEMMA UndoingIs ==
  ASSUME RowFacts, engine \in EngineType, DoneRows, engine.done # <<>>
  PROVE  /\ Undoing \in Rows /\ Len(engine.done) \in DOMAIN engine.done
         /\ Undoing = engine.done[Len(engine.done)] /\ rows[Undoing].status = "active"
         /\ rows[Undoing].undo \in {"none", "planned", "started", "completed", "quarantined"}
<1>1. engine.done \in Seq(Nat)
  BY DEF EngineType
<1>2. Len(engine.done) \in DOMAIN engine.done /\ Undoing = engine.done[Len(engine.done)]
  BY <1>1, FrontIs DEF Undoing
<1>3. Undoing \in Rows /\ rows[Undoing].status = "active"
  BY <1>2 DEF DoneRows
<1>4. rows[Undoing] \in RowType
  BY <1>3 DEF RowFacts, Rows
<1> QED BY <1>2, <1>3, <1>4 DEF RowType

\* Recording an undo as completed needs the process stopped.
LEMMA UndoneKeepsRows ==
  ASSUME RowFacts, RowsInv, NEW i \in Rows, NEW v, Undone(i, v), UNCHANGED <<live, known>>,
         v = "completed" => rows[i].undo = "completed" \/ (i \notin live /\ engine'.at = "release-undone" /\ i = Undoing'),
         ~At("release-undone"), ~At("record-ready")
  PROVE  RowsInv'
<1>1. OneHolder'
  BY DEF Undone, Others, RowsInv, OneHolder
<1>2. UndoneIsGone'
  BY DEF Undone, Others, RowsInv, UndoneIsGone, At
<1>3. KnownIsReady'
  BY DEF Undone, Others, RowsInv, KnownIsReady, RowFacts
<1>4. LiveIsAccounted'
  BY DEF Undone, Others, RowsInv, LiveIsAccounted, RowFacts
<1> QED BY <1>1, <1>2, <1>3, <1>4 DEF RowsInv

\* The undo is planned.
LEMMA PlanUndoKeeps ==
  ASSUME IInv, PlanUndo
  PROVE  RowsInv' /\ DoneInv' /\ NewInv' /\ GoneInv'
<1>i. RowsInv /\ DoneInv /\ NewInv /\ GoneInv /\ CallInv /\ TypeOK /\ engine \in EngineType
  BY DEF IInv, Typed
<1>t. RowFacts
  BY <1>i DEF TypeOK, RowFacts
<1>n. UNCHANGED <<live, known, created>> /\ engine.at \in {"compensate", "start-undo"}
  BY DEF PlanUndo, outside, workflow, At
<1>d. engine.done # <<>> /\ DoneRows
  BY <1>i DEF PlanUndo, GoneInv, Undoings, At, DoneInv
<1>u. /\ Undoing \in Rows
      /\ rows[Undoing].undo \in {"none", "planned", "started", "completed", "quarantined"}
  BY <1>i, <1>t, <1>d, UndoingIs
<1>1. ASSUME NEW v \in {"none", "planned", "started", "completed", "quarantined"},
             SetRow(Undoing, "undo", v), NEW s \in {"start-undo", "undo"}, Go(s),
             v = "completed" => rows[Undoing].undo = "completed"
      PROVE  RowsInv' /\ DoneInv' /\ NewInv' /\ GoneInv'
  <2>1. Undone(Undoing, v)
    BY <1>1, <1>t, IsUndone DEF RowFacts
  <2>2. engine'.at = s /\ engine'.k = engine.k /\ engine'.done = engine.done
    BY <1>1, <1>i, GoWrites DEF Stays
  <2>3. RowsInv'
    BY <1>i, <1>t, <1>n, <1>u, <1>1, <2>1, <2>2, UndoneKeepsRows DEF At
  <2>4. DoneRows'
    BY <1>d, <1>n, <2>1, <2>2 DEF DoneRows, Undone, Others
  <2> QED BY <1>d, <2>2, <2>3, <2>4 DEF DoneInv, NewInv, GoneInv, At, Undoings, Before,
    After
<1> QED BY <1>1, <1>u DEF PlanUndo, At

\* The undo is recorded as completed.
LEMMA FinishUndoKeeps ==
  ASSUME IInv, FinishUndo
  PROVE  RowsInv' /\ DoneInv' /\ NewInv' /\ GoneInv'
<1>i. RowsInv /\ DoneInv /\ NewInv /\ GoneInv /\ CallInv /\ TypeOK /\ engine \in EngineType
  BY DEF IInv, Typed
<1>t. RowFacts
  BY <1>i DEF TypeOK, RowFacts
<1>n. UNCHANGED <<live, known, created>> /\ engine.at \in Undoings
  BY DEF FinishUndo, outside, workflow, At, Undoings
<1>d. engine.done # <<>> /\ DoneRows /\ engine.done \in Seq(Nat)
  BY <1>i, <1>n DEF GoneInv, DoneInv, EngineType
<1>u. /\ Undoing \in Rows /\ Undoing = engine.done[Len(engine.done)]
      /\ rows[Undoing].undo \in {"none", "planned", "started", "completed", "quarantined"}
      /\ Len(engine.done) \in DOMAIN engine.done
  BY <1>i, <1>t, <1>d, UndoingIs
<1>1. CASE /\ At("finish-undo")
           /\ SetRow(Undoing, "undo", Finished(rows[Undoing].undo, "completed"))
           /\ Go("release-undone")
  <2> DEFINE v == Finished(rows[Undoing].undo, "completed")
  <2>1. v \in {"completed", "quarantined"}
    BY <1>u DEF Finished
  <2>2. SetRow(Undoing, "undo", v)
    BY <1>1
  <2> HIDE DEF v
  <2>3. Undone(Undoing, v)
    BY <1>t, <2>1, <2>2, IsUndone DEF RowFacts
  <2>4. engine'.at = "release-undone" /\ engine'.k = engine.k /\ engine'.done = engine.done
    BY <1>1, <1>i, GoWrites DEF Stays
  <2>5. Undoing \notin live /\ Undoing' = Undoing
    BY <1>1, <1>i, <2>4 DEF GoneInv, At, Undoing
  <2>6. RowsInv'
    BY <1>i, <1>t, <1>n, <1>u, <1>1, <2>1, <2>3, <2>4, <2>5, UndoneKeepsRows DEF At
  <2>7. DoneRows'
    BY <1>d, <1>n, <2>3, <2>4 DEF DoneRows, Undone, Others
  <2> QED BY <1>d, <1>n, <2>4, <2>5, <2>6, <2>7 DEF DoneInv, NewInv, GoneInv, At, Undoings,
    Before, After
<1>2. CASE /\ At("release-undone") /\ SetRow(Undoing, "status", "released")
           /\ engine' = [engine EXCEPT !.at = "compensate", !.done = Front(@)]
  <2>1. Released(Undoing) /\ Undoing \notin live
    BY <1>2, <1>t, <1>i, IsReleased DEF RowFacts, GoneInv, At
  <2>2. Front(engine.done) \in Seq(Nat) /\ "compensate" \in PrepareAt
    BY <1>d, FrontIs DEF PrepareAt
  <2>3. engine'.at = "compensate" /\ engine'.done = Front(engine.done)
    BY <1>2, <1>i, <2>2, DoneWrites
  <2>4. RowsInv'
    BY <1>i, <1>t, <1>n, <1>u, <1>2, <2>1, ReleaseKeepsRows DEF At
  <2>5. \A j \in DOMAIN engine'.done :
          j \in DOMAIN engine.done /\ engine'.done[j] = engine.done[j] /\ engine'.done[j] # Undoing
    <3>1. \A j \in DOMAIN engine'.done :
            j \in DOMAIN engine.done /\ j # Len(engine.done) /\ engine'.done[j] = engine.done[j]
      BY <1>d, <2>3, FrontIs
    <3>2. \A j, k \in DOMAIN Capabilities : Capabilities[j] = Capabilities[k] => j = k
      BY CapabilitiesAssumption DEF IsInjective
    <3> QED BY <1>d, <1>u, <3>1, <3>2 DEF DoneRows
  <2>6. DoneRows'
    BY <1>d, <1>n, <2>1, <2>5 DEF DoneRows, Released, Others
  <2> QED BY <2>3, <2>4, <2>6 DEF DoneInv, NewInv, GoneInv, At, Undoings, Before, After
<1>3. CASE /\ At("quarantine-undo")
           /\ SetRow(Undoing, "undo", Finished(rows[Undoing].undo, "quarantined"))
           /\ Return
  <2> DEFINE v == Finished(rows[Undoing].undo, "quarantined")
  <2>1. v \in {"completed", "quarantined"} /\ (v = "completed" => rows[Undoing].undo = "completed")
    BY <1>u DEF Finished
  <2>2. SetRow(Undoing, "undo", v)
    BY <1>3
  <2> HIDE DEF v
  <2>3. Undone(Undoing, v)
    BY <1>t, <2>1, <2>2, IsUndone DEF RowFacts
  <2>4. engine'.at = "idle" /\ engine'.done = <<>>
    BY <1>3, ReturnWrites
  <2>5. RowsInv'
    BY <1>i, <1>t, <1>n, <1>u, <1>3, <2>1, <2>3, UndoneKeepsRows DEF At
  <2> QED BY <2>4, <2>5 DEF DoneInv, DoneRows, NewInv, GoneInv, At, Undoings, Before, After
<1> QED BY <1>1, <1>2, <1>3, Zenon DEF FinishUndo

\* The handles of ready rows are restored after a restart.
LEMMA RehydrateKeeps ==
  ASSUME IInv, NEW a \in Attempts, Rehydrate(a)
  PROVE  RowsInv' /\ DoneInv' /\ NewInv' /\ GoneInv'
<1>i. RowsInv /\ DoneInv /\ NewInv /\ GoneInv /\ CallInv /\ TypeOK /\ engine \in EngineType
  BY DEF IInv, Typed
<1>t. rows \in Seq(RowType) /\ known \subseteq Rows /\ live \subseteq Rows
  BY <1>i DEF TypeOK
<1>1. RowsInv'
  BY <1>i, <1>t, AskWrites, OwnRequests, UnreconciledTyped DEF Rehydrate, RowsInv,
    OneHolder, UndoneIsGone, KnownIsReady, LiveIsAccounted, At, Undoing, Newest, Rows,
    CallInv, workflow, outside, journal, upkeep, Beginning, Ready, MayCall, Idle,
    Reconciles, Held
<1>2. DoneInv'
  BY <1>i, <1>t, AskWrites, OwnRequests, UnreconciledTyped DEF Rehydrate, DoneInv, DoneRows,
    Kept, At, Newest, Rows, Before, After, CallInv, workflow, outside, journal, upkeep,
    Beginning, Ready, MayCall, Idle, Reconciles, Held
<1>3. NewInv'
  BY <1>i, <1>t, AskWrites, OwnRequests, UnreconciledTyped DEF Rehydrate, NewInv, Newest,
    Wanted, At, Rows, Before, After, CallInv, workflow, outside, journal, upkeep, Beginning,
    Ready, MayCall, Idle, Reconciles, Held
<1>4. GoneInv'
  BY <1>i, <1>t, AskWrites, OwnRequests, UnreconciledTyped DEF Rehydrate, GoneInv, IsLastOf,
    Disposable, Targets, Held, Current, At, Undoing, Undoings, Rows, CallInv, workflow,
    outside, journal, upkeep, Beginning, Ready, MayCall, Idle, Reconciles
<1> QED BY <1>1, <1>2, <1>3, <1>4

\* The adapter undoes, or the row is quarantined.
LEMMA UndoActivationKeeps ==
  ASSUME IInv, UndoActivation
  PROVE  RowsInv' /\ DoneInv' /\ NewInv' /\ GoneInv'
<1>i. RowsInv /\ DoneInv /\ NewInv /\ GoneInv /\ CallInv /\ TypeOK /\ engine \in EngineType
  BY DEF IInv, Typed
<1>t. rows \in Seq(RowType) /\ known \subseteq Rows /\ live \subseteq Rows
  BY <1>i DEF TypeOK
<1>1. RowsInv'
  BY <1>i, <1>t, GoWrites, FrontIs DEF UndoActivation, RowsInv, OneHolder, UndoneIsGone,
    KnownIsReady, LiveIsAccounted, At, Undoing, Newest, Rows, CallInv, Stays, workflow,
    journal, upkeep, Beginning, ProviderCleans, ProviderRefuses
<1>2. DoneInv'
  BY <1>i, <1>t, GoWrites, FrontIs DEF UndoActivation, DoneInv, DoneRows, Kept, At, Newest,
    Rows, Before, After, CallInv, Stays, workflow, journal, upkeep, Beginning,
    ProviderCleans, ProviderRefuses
<1>3. NewInv'
  BY <1>i, <1>t, GoWrites, FrontIs DEF UndoActivation, NewInv, Newest, Wanted, At, Rows,
    Before, After, CallInv, Stays, workflow, journal, upkeep, Beginning, ProviderCleans,
    ProviderRefuses
<1>4. GoneInv'
  BY <1>i, <1>t, GoWrites, FrontIs DEF UndoActivation, GoneInv, IsLastOf, Disposable,
    Targets, Held, Current, At, Undoing, Undoings, Rows, CallInv, Stays, workflow, journal,
    upkeep, Beginning, ProviderCleans, ProviderRefuses
<1> QED BY <1>1, <1>2, <1>3, <1>4

\* A crash loses the handles and the place of the engine, and nothing else.
LEMMA CrashKeeps ==
  ASSUME IInv, Crash
  PROVE  RowsInv' /\ DoneInv' /\ NewInv' /\ GoneInv'
<1>i. RowsInv /\ DoneInv /\ NewInv /\ GoneInv /\ CallInv /\ TypeOK /\ engine \in EngineType
  BY DEF IInv, Typed
<1>t. rows \in Seq(RowType) /\ known \subseteq Rows /\ live \subseteq Rows
  BY <1>i DEF TypeOK
<1>1. RowsInv'
  BY <1>i, <1>t, IdleType DEF Crash, RowsInv, OneHolder, UndoneIsGone, KnownIsReady,
    LiveIsAccounted, At, Undoing, Newest, Rows, CallInv, workflow, outside, journal, upkeep,
    Beginning, Idle
<1>2. DoneInv'
  BY <1>i, <1>t, IdleType DEF Crash, DoneInv, DoneRows, Kept, At, Newest, Rows, Before,
    After, CallInv, workflow, outside, journal, upkeep, Beginning, Idle
<1>3. NewInv'
  BY <1>i, <1>t, IdleType DEF Crash, NewInv, Newest, Wanted, At, Rows, Before, After,
    CallInv, workflow, outside, journal, upkeep, Beginning, Idle
<1>4. GoneInv'
  BY <1>i, <1>t, IdleType DEF Crash, GoneInv, IsLastOf, Disposable, Targets, Held, Current,
    At, Undoing, Undoings, Rows, CallInv, workflow, outside, journal, upkeep, Beginning,
    Idle
<1> QED BY <1>1, <1>2, <1>3, <1>4

\* A process may end by itself.
LEMMA ServiceDiesKeeps ==
  ASSUME IInv, NEW i \in Rows, ServiceDies(i)
  PROVE  RowsInv' /\ DoneInv' /\ NewInv' /\ GoneInv'
<1>i. RowsInv /\ DoneInv /\ NewInv /\ GoneInv /\ CallInv /\ TypeOK /\ engine \in EngineType
  BY DEF IInv, Typed
<1>t. rows \in Seq(RowType) /\ known \subseteq Rows /\ live \subseteq Rows
  BY <1>i DEF TypeOK
<1>1. RowsInv'
  BY <1>i, <1>t DEF ServiceDies, RowsInv, OneHolder, UndoneIsGone, KnownIsReady,
    LiveIsAccounted, At, Undoing, Newest, Rows, CallInv, workflow, journal, upkeep,
    Beginning
<1>2. DoneInv'
  BY <1>i, <1>t DEF ServiceDies, DoneInv, DoneRows, Kept, At, Newest, Rows, Before, After,
    CallInv, workflow, journal, upkeep, Beginning
<1>3. NewInv'
  BY <1>i, <1>t DEF ServiceDies, NewInv, Newest, Wanted, At, Rows, Before, After, CallInv,
    workflow, journal, upkeep, Beginning
<1>4. GoneInv'
  BY <1>i, <1>t DEF ServiceDies, GoneInv, IsLastOf, Disposable, Targets, Held, Current, At,
    Undoing, Undoings, Rows, CallInv, workflow, journal, upkeep, Beginning
<1> QED BY <1>1, <1>2, <1>3, <1>4

\* Reconciling a row attaches its handle and stops its process, or not.
LEMMA CleanKeepsRows ==
  ASSUME RowFacts, RowsInv, NEW i \in Rows, Reconciles(i), UNCHANGED rows,
         live' \in {live, live \ {i}}, known' = known \cup {i}, rows[i].status = "active",
         ~At("release-undone"), ~At("record-ready")
  PROVE  RowsInv'
<1>1. OneHolder'
  BY DEF RowsInv, OneHolder, Rows
<1>2. UndoneIsGone'
  BY DEF RowsInv, UndoneIsGone, Reconciles, Rows
<1>3. KnownIsReady'
  BY DEF RowsInv, KnownIsReady, Reconciles
<1>4. LiveIsAccounted'
  BY DEF RowsInv, LiveIsAccounted
<1> QED BY <1>1, <1>2, <1>3, <1>4 DEF RowsInv

\* The clean-up of an attempt reconciles its rows, last one first.
LEMMA CleanAllocationKeeps ==
  ASSUME IInv, NEW i \in Rows, CleanAllocation(i)
  PROVE  RowsInv' /\ DoneInv' /\ NewInv' /\ GoneInv'
<1>i. RowsInv /\ DoneInv /\ NewInv /\ GoneInv /\ CallInv /\ TypeOK /\ engine \in EngineType
  BY DEF IInv, Typed
<1>t. RowFacts
  BY <1>i DEF TypeOK, RowFacts
<1>n. /\ engine.at = "cleanup" /\ UNCHANGED <<rows, created>> /\ IsLastOf(i, Disposable(created))
      /\ engine.done = <<>>
  BY <1>i DEF CleanAllocation, At, journal, workflow, CallInv, CleanupAt
<1>a. rows[i].status = "active" /\ Disposable(created) \in SUBSET {j \in Rows : rows[j].status = "active"}
  BY <1>n DEF IsLastOf, Disposable, Held
<1>1. CASE Return /\ UNCHANGED <<known, live>>
  <2>1. engine'.at = "idle" /\ engine'.done = <<>>
    BY <1>1, ReturnWrites
  <2>2. RowsInv'
    BY <1>1, <1>n, <1>i DEF RowsInv, OneHolder, UndoneIsGone, KnownIsReady, LiveIsAccounted,
      At, Rows
  <2> QED BY <2>1, <2>2 DEF DoneInv, DoneRows, NewInv, GoneInv, At, Undoings, Before, After
<1>2. CASE Reconciles(i) /\ known' = known \cup {i} /\ ProviderCleans(i) /\ Go("release-cleaned")
  <2>1. engine'.at = "release-cleaned" /\ engine'.done = <<>>
    BY <1>2, <1>i, <1>n, GoWrites DEF Stays
  <2>2. RowsInv'
    BY <1>2, <1>n, <1>i, <1>t, <1>a, CleanKeepsRows DEF At, ProviderCleans
  <2>3. (\A j \in Rows : IsLastOf(j, Disposable(created)) => j \notin live)'
    <3>1. \A j \in Rows : IsLastOf(j, Disposable(created)) => j = i
      BY <1>i, <1>a, <1>n, LastIsOne DEF RowsInv
    <3> QED BY <3>1, <1>2, <1>n DEF ProviderCleans, IsLastOf, Disposable, Held, Rows
  <2> QED BY <2>1, <2>2, <2>3 DEF DoneInv, DoneRows, NewInv, GoneInv, At, Undoings, Before,
    After
<1>3. CASE /\ Reconciles(i) /\ known' = known \cup {i} /\ ProviderRefuses(i)
           /\ Ask(Request(created, "unsafe-cleanup", rows[i].capability, {"retry", "retain", "quarantine"}))
  <2>1. engine'.at = "ask" /\ engine'.done = <<>>
    BY <1>3, <1>i, OwnRequests, RowTyped, AskWrites DEF Categories, Remedies
  <2>2. RowsInv'
    BY <1>3, <1>n, <1>i, <1>t, <1>a, CleanKeepsRows DEF At, ProviderRefuses
  <2> QED BY <2>1, <2>2 DEF DoneInv, DoneRows, NewInv, GoneInv, At, Undoings, Before, After
<1> QED BY <1>1, <1>2, <1>3, Zenon DEF CleanAllocation

\* The clean-up of an attempt releases the row it stopped.
LEMMA ReleaseCleanedKeeps ==
  ASSUME IInv, NEW i \in Rows, ReleaseCleaned(i)
  PROVE  RowsInv' /\ DoneInv' /\ NewInv' /\ GoneInv'
<1>i. RowsInv /\ DoneInv /\ NewInv /\ GoneInv /\ CallInv /\ TypeOK /\ engine \in EngineType
  BY DEF IInv, Typed
<1>t. RowFacts
  BY <1>i DEF TypeOK, RowFacts
<1>n. /\ engine.at = "release-cleaned" /\ UNCHANGED <<live, known, created>>
      /\ engine.done = <<>> /\ i \notin live
  BY <1>i DEF ReleaseCleaned, At, outside, workflow, CallInv, CleanupAt, GoneInv
<1>1. Released(i)
  BY <1>t, IsReleased DEF ReleaseCleaned, RowFacts
<1>2. engine'.at \in {"idle", "cleanup"} /\ engine'.done = <<>>
  BY <1>i, <1>n, GoWrites, ReturnWrites DEF ReleaseCleaned, Stays
<1>3. RowsInv'
  BY <1>i, <1>t, <1>n, <1>1, ReleaseKeepsRows DEF At
<1> QED BY <1>2, <1>3 DEF DoneInv, DoneRows, NewInv, GoneInv, At, Undoings, Before, After

\* A remedy reconciles its target.
LEMMA CleanTargetKeeps ==
  ASSUME IInv, CleanTarget
  PROVE  RowsInv' /\ DoneInv' /\ NewInv' /\ GoneInv'
<1>i. RowsInv /\ DoneInv /\ NewInv /\ GoneInv /\ CallInv /\ TypeOK /\ engine \in EngineType
  BY DEF IInv, Typed
<1>t. RowFacts
  BY <1>i DEF TypeOK, RowFacts
<1>n. engine.at = "targets" /\ UNCHANGED <<rows, created>> /\ engine.done = <<>>
  BY <1>i DEF CleanTarget, At, journal, workflow, CallInv, RemedyAt
<1>a. Targets \in SUBSET {j \in Rows : rows[j].status = "active"}
  BY DEF Targets, Held
<1>1. CASE Go("cancel") /\ UNCHANGED <<known, live>>
  <2>1. engine'.at = "cancel" /\ engine'.done = <<>>
    BY <1>1, <1>i, <1>n, GoWrites DEF Stays
  <2>2. RowsInv'
    BY <1>1, <1>n, <1>i DEF RowsInv, OneHolder, UndoneIsGone, KnownIsReady, LiveIsAccounted,
      At, Rows
  <2> QED BY <2>1, <2>2 DEF DoneInv, DoneRows, NewInv, GoneInv, At, Undoings, Before, After
<1>2. CASE Return /\ UNCHANGED <<known, live>>
  <2>1. engine'.at = "idle" /\ engine'.done = <<>>
    BY <1>2, ReturnWrites
  <2>2. RowsInv'
    BY <1>2, <1>n, <1>i DEF RowsInv, OneHolder, UndoneIsGone, KnownIsReady, LiveIsAccounted,
      At, Rows
  <2> QED BY <2>1, <2>2 DEF DoneInv, DoneRows, NewInv, GoneInv, At, Undoings, Before, After
<1>3. ASSUME NEW i \in Targets, IsLastOf(i, Targets), Reconciles(i), known' = known \cup {i},
             ProviderCleans(i) /\ Go("release-target")
      PROVE  RowsInv' /\ DoneInv' /\ NewInv' /\ GoneInv'
  <2>1. engine'.at = "release-target" /\ Stays /\ engine'.done = <<>>
    BY <1>3, <1>i, <1>n, GoWrites DEF Stays
  <2>2. RowsInv'
    BY <1>3, <1>n, <1>i, <1>t, <1>a, CleanKeepsRows DEF At, ProviderCleans
  <2>3. (\A j \in Rows : IsLastOf(j, Targets) => j \notin live)'
    <3>1. \A j \in Rows : IsLastOf(j, Targets) => j = i
      BY <1>3, <1>i, <1>a, <1>n, LastIsOne DEF RowsInv
    <3> QED BY <3>1, <1>3, <1>n, <2>1 DEF ProviderCleans, IsLastOf, Targets, Held, Rows,
      Current, Stays
  <2> QED BY <2>1, <2>2, <2>3 DEF DoneInv, DoneRows, NewInv, GoneInv, At, Undoings, Before,
    After
<1>4. ASSUME NEW i \in Targets, Reconciles(i), known' = known \cup {i}, ProviderRefuses(i) /\ Return
      PROVE  RowsInv' /\ DoneInv' /\ NewInv' /\ GoneInv'
  <2>1. engine'.at = "idle" /\ engine'.done = <<>>
    BY <1>4, ReturnWrites
  <2>2. RowsInv'
    BY <1>4, <1>n, <1>i, <1>t, <1>a, CleanKeepsRows DEF At, ProviderRefuses
  <2> QED BY <2>1, <2>2 DEF DoneInv, DoneRows, NewInv, GoneInv, At, Undoings, Before, After
<1> QED BY <1>1, <1>2, <1>3, <1>4, Zenon DEF CleanTarget

\* A remedy releases the target it stopped.
LEMMA ReleaseTargetKeeps ==
  ASSUME IInv, ReleaseTarget
  PROVE  RowsInv' /\ DoneInv' /\ NewInv' /\ GoneInv'
<1>i. RowsInv /\ DoneInv /\ NewInv /\ GoneInv /\ CallInv /\ TypeOK /\ engine \in EngineType
  BY DEF IInv, Typed
<1>t. RowFacts
  BY <1>i DEF TypeOK, RowFacts
<1>1. PICK i \in Targets : IsLastOf(i, Targets) /\ SetRow(i, "status", "released")
  BY DEF ReleaseTarget
<1>n. /\ engine.at = "release-target" /\ UNCHANGED <<live, known, created>>
      /\ engine.done = <<>> /\ i \in Rows /\ i \notin live
  BY <1>i, <1>1 DEF ReleaseTarget, At, outside, workflow, CallInv, RemedyAt, GoneInv,
    Targets, Held
<1>2. Released(i)
  BY <1>t, <1>1, IsReleased DEF RowFacts
<1>3. engine'.at = "targets" /\ engine'.done = <<>>
  BY <1>i, <1>n, GoWrites DEF ReleaseTarget, Stays
<1>4. RowsInv'
  BY <1>i, <1>t, <1>n, <1>2, ReleaseKeepsRows DEF At
<1> QED BY <1>3, <1>4 DEF DoneInv, DoneRows, NewInv, GoneInv, At, Undoings, Before, After

\* A remedy quarantines its target, whose process may live on.
LEMMA QuarantineTargetKeeps ==
  ASSUME IInv, QuarantineTarget
  PROVE  RowsInv' /\ DoneInv' /\ NewInv' /\ GoneInv'
<1>i. RowsInv /\ DoneInv /\ NewInv /\ GoneInv /\ CallInv /\ TypeOK /\ engine \in EngineType
  BY DEF IInv, Typed
<1>t. RowFacts
  BY <1>i DEF TypeOK, RowFacts
<1>n. engine.at = "quarantine" /\ UNCHANGED <<live, known, created>> /\ engine.done = <<>>
  BY <1>i DEF QuarantineTarget, At, outside, workflow, CallInv, RemedyAt
<1>1. engine'.at \in {"quarantine", "hold-tree"} /\ engine'.done = <<>>
  BY <1>i, <1>n, GoWrites DEF QuarantineTarget, Stays
<1>2. RowsInv'
  <2>1. CASE UNCHANGED rows
    BY <2>1, <1>n, <1>i DEF RowsInv, OneHolder, UndoneIsGone, KnownIsReady, LiveIsAccounted,
      At, Rows
  <2>2. ASSUME NEW i \in Targets, SetRow(i, "status", "quarantined") PROVE RowsInv'
    <3>1. /\ Rows' = Rows /\ Newest' = Newest /\ Others("status")
          /\ \A j \in Rows : rows'[j].status = IF j = i THEN "quarantined" ELSE rows[j].status
      BY <2>2, <1>t, StatusWrites DEF RowFacts, Newest
    <3>2. OneHolder'
      BY <3>1, <1>i DEF Others, RowsInv, OneHolder
    <3>3. UndoneIsGone'
      BY <3>1, <1>i, <1>n DEF Others, RowsInv, UndoneIsGone, At
    <3>4. KnownIsReady'
      BY <3>1, <1>i, <1>n, <1>t DEF Others, RowsInv, KnownIsReady, RowFacts, At
    <3>5. LiveIsAccounted'
      BY <3>1, <1>i, <1>n, <1>t DEF Others, RowsInv, LiveIsAccounted, RowFacts
    <3> QED BY <3>2, <3>3, <3>4, <3>5 DEF RowsInv
  <2> QED BY <2>1, <2>2 DEF QuarantineTarget
<1> QED BY <1>1, <1>2 DEF DoneInv, DoneRows, NewInv, GoneInv, At, Undoings, Before, After

-----------------------------------------------------------------------------
(* Where the engine is.                                                    *)

\* Every step keeps what is said of the place of the engine and of the clean-up.
LEMMA ControlSteps ==
  ASSUME IInv, Next PROVE CallInv' /\ CleanInv'
<1>i. DoneInv /\ NewInv /\ GoneInv /\ CallInv /\ CleanInv /\ TypeOK /\ engine \in EngineType
  BY DEF IInv, Typed
<1>s. RowFacts
  BY <1>i DEF TypeOK, RowFacts
<1>t. requests \subseteq RequestType
  BY <1>i DEF TypeOK
<1>w. Idle.at = "idle" /\ Idle.why = "none" /\ Idle.remedy = "none" /\ Idle.done = <<>> /\ Idle.ask.of = 0
  BY DEF Idle, NoRequest, Request
<1>c. created \in Nat /\ 0 \notin Attempts
  BY <1>i, BoundsAssumption DEF TypeOK, Attempts
<1>1. ASSUME NEW a \in Attempts, BeginPreparation(a) PROVE CallInv' /\ CleanInv'
  <2>1. CallInv'
    BY <1>1, <1>i, <1>s, <1>t, <1>w, <1>c, GoWrites DEF BeginPreparation, At, CallInv,
      Stays, workflow, upkeep, journal, outside, PrepareAt, CleanupAt, RemedyAt, Beginning,
      MayCall, Ready
  <2>2. CleanInv'
    BY <1>1, <1>i, <1>s, <1>t, <1>w, <1>c, GoWrites DEF CleanInv, BeginPreparation, At,
      CallInv, Stays, workflow, upkeep, journal, outside, PrepareAt, CleanupAt, RemedyAt,
      Beginning, Cleaning, Explicit, Outstanding, Rows, MayCall, Ready
  <2> QED BY <2>1, <2>2
<1>2. ASSUME NEW a \in Attempts, ResumePreparation(a) PROVE CallInv' /\ CleanInv'
  <2>1. CallInv'
    BY <1>2, <1>i, <1>s, <1>t, <1>w, <1>c, GoWrites DEF ResumePreparation, At, CallInv,
      Stays, workflow, upkeep, journal, outside, PrepareAt, CleanupAt, RemedyAt, Beginning,
      MayCall, Ready
  <2>2. CleanInv'
    BY <1>2, <1>i, <1>s, <1>t, <1>w, <1>c, GoWrites DEF CleanInv, ResumePreparation, At,
      CallInv, Stays, workflow, upkeep, journal, outside, PrepareAt, CleanupAt, RemedyAt,
      Beginning, Cleaning, Explicit, Outstanding, Rows, MayCall, Ready
  <2> QED BY <2>1, <2>2
<1>3. ASSUME NEW a \in Attempts, AskExhausted(a) PROVE CallInv' /\ CleanInv'
  <2>1. CallInv'
    BY <1>3, <1>i, <1>s, <1>t, <1>w, <1>c, AskWrites, OwnRequests DEF AskExhausted, At,
      CallInv, workflow, upkeep, journal, outside, PrepareAt, CleanupAt, RemedyAt,
      Beginning, Ready
  <2>2. CleanInv'
    BY <1>3, <1>i, <1>s, <1>t, <1>w, <1>c, AskWrites, OwnRequests DEF CleanInv,
      AskExhausted, At, CallInv, workflow, upkeep, journal, outside, PrepareAt, CleanupAt,
      RemedyAt, Beginning, Cleaning, Explicit, Outstanding, Rows, Ready
  <2> QED BY <2>1, <2>2
<1>4. ASSUME NEW a \in Attempts, SchedulerHolds(a) PROVE CallInv' /\ CleanInv'
  <2>1. CallInv'
    BY <1>4, <1>i, <1>s, <1>t, <1>w, <1>c DEF SchedulerHolds, At, CallInv, workflow, upkeep,
      journal, outside, PrepareAt, CleanupAt, RemedyAt, Beginning, Ready
  <2>2. CleanInv'
    BY <1>4, <1>i, <1>s, <1>t, <1>w, <1>c DEF CleanInv, SchedulerHolds, At, CallInv,
      workflow, upkeep, journal, outside, PrepareAt, CleanupAt, RemedyAt, Beginning,
      Cleaning, Explicit, Outstanding, Rows, Ready
  <2> QED BY <2>1, <2>2
<1>5. ASSUME NEW a \in Attempts, CleanupAttempt(a) PROVE CallInv' /\ CleanInv'
  <2>1. CallInv'
    BY <1>5, <1>i, <1>s, <1>t, <1>w, <1>c, GoWrites DEF CleanupAttempt, At, CallInv, Stays,
      workflow, upkeep, journal, outside, PrepareAt, CleanupAt, RemedyAt, Beginning, Ready
  <2>2. CleanInv'
    BY <1>5, <1>i, <1>s, <1>t, <1>w, <1>c, GoWrites DEF CleanInv, CleanupAttempt, At,
      CallInv, Stays, workflow, upkeep, journal, outside, PrepareAt, CleanupAt, RemedyAt,
      Beginning, Cleaning, Explicit, Outstanding, Rows, Ready
  <2> QED BY <2>1, <2>2
<1>6. ASSUME PlanCreate PROVE CallInv' /\ CleanInv'
  <2>1. CallInv'
    BY <1>6, <1>i, <1>s, <1>t, <1>w, <1>c, GoWrites DEF PlanCreate, At, CallInv, Stays,
      workflow, upkeep, outside, PrepareAt, CleanupAt, RemedyAt, Beginning
  <2>2. CleanInv'
    BY <1>6, <1>i, <1>s, <1>t, <1>w, <1>c, GoWrites DEF CleanInv, PlanCreate, At, CallInv,
      Stays, workflow, upkeep, outside, PrepareAt, CleanupAt, RemedyAt, Beginning, Cleaning,
      Explicit, Outstanding, Rows
  <2> QED BY <2>1, <2>2
<1>7. ASSUME StartCreate PROVE CallInv' /\ CleanInv'
  <2>1. CallInv'
    BY <1>7, <1>i, <1>s, <1>t, <1>w, <1>c, GoWrites DEF StartCreate, At, CallInv, Stays,
      workflow, upkeep, outside, PrepareAt, CleanupAt, RemedyAt, Beginning
  <2>2. CleanInv'
    BY <1>7, <1>i, <1>s, <1>t, <1>w, <1>c, GoWrites DEF CleanInv, StartCreate, At, CallInv,
      Stays, workflow, upkeep, outside, PrepareAt, CleanupAt, RemedyAt, Beginning, Cleaning,
      Explicit, Outstanding, Rows
  <2> QED BY <2>1, <2>2
<1>8. ASSUME Materialize PROVE CallInv' /\ CleanInv'
  <2>1. CallInv'
    BY <1>8, <1>i, <1>s, <1>t, <1>w, <1>c, MaterializeWrites DEF Materialize, At, CallInv,
      workflow, upkeep, journal, PrepareAt, CleanupAt, RemedyAt, Beginning
  <2>2. CleanInv'
    BY <1>8, <1>i, <1>s, <1>t, <1>w, <1>c, MaterializeWrites DEF CleanInv, Materialize, At,
      CallInv, workflow, upkeep, journal, PrepareAt, CleanupAt, RemedyAt, Beginning,
      Cleaning, Explicit, Outstanding, Rows
  <2> QED BY <2>1, <2>2
<1>9. ASSUME RegisterWorkspace PROVE CallInv' /\ CleanInv'
  <2>1. CallInv'
    BY <1>9, <1>i, <1>s, <1>t, <1>w, <1>c, GoWrites DEF RegisterWorkspace, At, CallInv,
      Stays, workflow, journal, outside, PrepareAt, CleanupAt, RemedyAt, Beginning
  <2>2. CleanInv'
    BY <1>9, <1>i, <1>s, <1>t, <1>w, <1>c, GoWrites DEF CleanInv, RegisterWorkspace, At,
      CallInv, Stays, workflow, journal, outside, PrepareAt, CleanupAt, RemedyAt, Beginning,
      Cleaning, Explicit, Outstanding, Rows
  <2> QED BY <2>1, <2>2
<1>10. ASSUME FinishCreate PROVE CallInv' /\ CleanInv'
  <2>1. CallInv'
    BY <1>10, <1>i, <1>s, <1>t, <1>w, <1>c, GoWrites, FirstCapabilityWrites
      DEF FinishCreate, At, CallInv, Stays, workflow, upkeep, outside, PrepareAt, CleanupAt,
      RemedyAt, Beginning
  <2>2. CleanInv'
    BY <1>10, <1>i, <1>s, <1>t, <1>w, <1>c, GoWrites, FirstCapabilityWrites DEF CleanInv,
      FinishCreate, At, CallInv, Stays, workflow, upkeep, outside, PrepareAt, CleanupAt,
      RemedyAt, Beginning, Cleaning, Explicit, Outstanding, Rows
  <2> QED BY <2>1, <2>2
<1>11. ASSUME ReconcileWorkspace PROVE CallInv' /\ CleanInv'
  <2>1. CallInv'
    BY <1>11, <1>i, <1>s, <1>t, <1>w, <1>c, UndoWrites, FirstCapabilityWrites, OwnRequests
      DEF ReconcileWorkspace, At, CallInv, workflow, upkeep, journal, outside, PrepareAt,
      CleanupAt, RemedyAt, Beginning, Whys
  <2>2. CleanInv'
    BY <1>11, <1>i, <1>s, <1>t, <1>w, <1>c, UndoWrites, FirstCapabilityWrites, OwnRequests
      DEF CleanInv, ReconcileWorkspace, At, CallInv, workflow, upkeep, journal, outside,
      PrepareAt, CleanupAt, RemedyAt, Beginning, Cleaning, Explicit, Outstanding, Rows, Whys
  <2> QED BY <2>1, <2>2
<1>12. ASSUME MarkPreparationReady PROVE CallInv' /\ CleanInv'
  <2>1. CallInv'
    BY <1>12, <1>i, <1>s, <1>t, <1>w, <1>c, UndoWrites, ReturnWrites, OwnRequests
      DEF MarkPreparationReady, At, CallInv, workflow, upkeep, outside, PrepareAt,
      CleanupAt, RemedyAt, Beginning, Whys
  <2>2. CleanInv'
    BY <1>12, <1>i, <1>s, <1>t, <1>w, <1>c, UndoWrites, ReturnWrites, OwnRequests
      DEF CleanInv, MarkPreparationReady, At, CallInv, workflow, upkeep, outside, PrepareAt,
      CleanupAt, RemedyAt, Beginning, Cleaning, Explicit, Outstanding, Rows, Whys
  <2> QED BY <2>1, <2>2
<1>13. ASSUME RecordBusy PROVE CallInv' /\ CleanInv'
  <2>1. CallInv'
    BY <1>13, <1>i, <1>s, <1>t, <1>w, <1>c, ReturnWrites, AskWrites, OwnRequests
      DEF RecordBusy, At, CallInv, workflow, upkeep, journal, outside, PrepareAt, CleanupAt,
      RemedyAt, Beginning, Compensated
  <2>2. CleanInv'
    BY <1>13, <1>i, <1>s, <1>t, <1>w, <1>c, ReturnWrites, AskWrites, OwnRequests
      DEF CleanInv, RecordBusy, At, CallInv, workflow, upkeep, journal, outside, PrepareAt,
      CleanupAt, RemedyAt, Beginning, Cleaning, Explicit, Outstanding, Rows, Compensated
  <2> QED BY <2>1, <2>2
<1>14. ASSUME FailPreparation PROVE CallInv' /\ CleanInv'
  <2>1. CallInv'
    BY <1>14, <1>i, <1>s, <1>t, <1>w, <1>c, ReturnWrites DEF FailPreparation, At, CallInv,
      workflow, upkeep, journal, outside, PrepareAt, CleanupAt, RemedyAt, Beginning,
      Compensated
  <2>2. CleanInv'
    BY <1>14, <1>i, <1>s, <1>t, <1>w, <1>c, ReturnWrites DEF CleanInv, FailPreparation, At,
      CallInv, workflow, upkeep, journal, outside, PrepareAt, CleanupAt, RemedyAt,
      Beginning, Cleaning, Explicit, Outstanding, Rows, Compensated
  <2> QED BY <2>1, <2>2
<1>15. ASSUME OpenRequest PROVE CallInv' /\ CleanInv'
  <2>1. CallInv'
    BY <1>15, <1>i, <1>s, <1>t, <1>w, <1>c, GoWrites DEF OpenRequest, At, CallInv, Stays,
      workflow, upkeep, journal, outside, PrepareAt, CleanupAt, RemedyAt, Beginning,
      Compensated, OpenAttention
  <2>2. CleanInv'
    BY <1>15, <1>i, <1>s, <1>t, <1>w, <1>c, GoWrites DEF CleanInv, OpenRequest, At, CallInv,
      Stays, workflow, upkeep, journal, outside, PrepareAt, CleanupAt, RemedyAt, Beginning,
      Cleaning, Explicit, Outstanding, Rows, Compensated, OpenAttention
  <2> QED BY <2>1, <2>2
<1>16. ASSUME HoldPreparation PROVE CallInv' /\ CleanInv'
  <2>1. CallInv'
    BY <1>16, <1>i, <1>s, <1>t, <1>w, <1>c, ReturnWrites DEF HoldPreparation, At, CallInv,
      workflow, upkeep, journal, outside, PrepareAt, CleanupAt, RemedyAt, Beginning
  <2>2. CleanInv'
    BY <1>16, <1>i, <1>s, <1>t, <1>w, <1>c, ReturnWrites DEF CleanInv, HoldPreparation, At,
      CallInv, workflow, upkeep, journal, outside, PrepareAt, CleanupAt, RemedyAt,
      Beginning, Cleaning, Explicit, Outstanding, Rows
  <2> QED BY <2>1, <2>2
<1>17. ASSUME CleanTerminalWorkspace PROVE CallInv' /\ CleanInv'
  <2>1. CallInv'
    BY <1>17, <1>i, <1>s, <1>t, <1>w, <1>c, GoWrites DEF CleanTerminalWorkspace, At,
      CallInv, Stays, workflow, upkeep, journal, outside, PrepareAt, CleanupAt, RemedyAt,
      Beginning, CleanupDue
  <2>2. CleanInv'
    BY <1>17, <1>i, <1>s, <1>t, <1>w, <1>c, GoWrites DEF CleanInv, CleanTerminalWorkspace,
      At, CallInv, Stays, workflow, upkeep, journal, outside, PrepareAt, CleanupAt,
      RemedyAt, Beginning, Cleaning, Explicit, Outstanding, Rows, CleanupDue
  <2> QED BY <2>1, <2>2
<1>18. ASSUME KeepWorkspace PROVE CallInv' /\ CleanInv'
  <2>1. CallInv'
    BY <1>18, <1>i, <1>s, <1>t, <1>w, <1>c, GoWrites, ReturnWrites DEF KeepWorkspace, At,
      CallInv, Stays, workflow, upkeep, journal, outside, PrepareAt, CleanupAt, RemedyAt,
      Beginning, Explicit, Outstanding, Rows, QuarantineInitial
  <2>2. CleanInv'
    BY <1>18, <1>i, <1>s, <1>t, <1>w, <1>c, GoWrites, ReturnWrites DEF CleanInv,
      KeepWorkspace, At, CallInv, Stays, workflow, upkeep, journal, outside, PrepareAt,
      CleanupAt, RemedyAt, Beginning, Cleaning, Explicit, Outstanding, Rows,
      QuarantineInitial
  <2> QED BY <2>1, <2>2
<1>19. ASSUME AskToRelease PROVE CallInv' /\ CleanInv'
  <2>1. CallInv'
    BY <1>19, <1>i, <1>s, <1>t, <1>w, <1>c, ReturnWrites DEF AskToRelease, At, CallInv,
      workflow, upkeep, journal, outside, PrepareAt, CleanupAt, RemedyAt, Beginning,
      OpenAttention, ExecutionRequest, Request
  <2>2. CleanInv'
    BY <1>19, <1>i, <1>s, <1>t, <1>w, <1>c, ReturnWrites DEF CleanInv, AskToRelease, At,
      CallInv, workflow, upkeep, journal, outside, PrepareAt, CleanupAt, RemedyAt,
      Beginning, Cleaning, Explicit, Outstanding, Rows, OpenAttention, ExecutionRequest,
      Request
  <2> QED BY <2>1, <2>2
<1>20. ASSUME PlanCleanup PROVE CallInv' /\ CleanInv'
  <2>1. CallInv'
    BY <1>20, <1>i, <1>s, <1>t, <1>w, <1>c, GoWrites DEF PlanCleanup, At, CallInv, Stays,
      workflow, journal, outside, PrepareAt, CleanupAt, RemedyAt, Beginning, Explicit,
      Outstanding, Rows
  <2>2. CleanInv'
    BY <1>20, <1>i, <1>s, <1>t, <1>w, <1>c, GoWrites DEF CleanInv, PlanCleanup, At, CallInv,
      Stays, workflow, journal, outside, PrepareAt, CleanupAt, RemedyAt, Beginning,
      Cleaning, Explicit, Outstanding, Rows
  <2> QED BY <2>1, <2>2
<1>21. ASSUME StepCleanup PROVE CallInv' /\ CleanInv'
  <2>1. CallInv'
    BY <1>21, <1>i, <1>w, <1>c, GoWrites, ReturnWrites DEF StepCleanup, SetWorkspace,
      workflow, At, CallInv, Stays, PrepareAt, CleanupAt, RemedyAt, Beginning
  <2>2. workspace'.policy = workspace.policy
    <3>1. workspace \in [status : {"none", "active", "cleanup_pending", "cleaned", "quarantined"},
                         policy : {"none", "retain", "quarantine"}]
      BY <1>i DEF TypeOK
    <3> QED BY <1>21, <3>1 DEF StepCleanup, SetWorkspace, upkeep
  <2>3. CleanInv'
    BY <1>21, <1>i, <1>w, <2>2, GoWrites, ReturnWrites DEF CleanInv, StepCleanup,
      SetWorkspace, workflow, journal, Outstanding, Rows, At, CallInv, Stays, PrepareAt,
      CleanupAt, RemedyAt, Beginning, Cleaning, Explicit
  <2> QED BY <2>1, <2>3
<1>22. ASSUME RemoveWorktree PROVE CallInv' /\ CleanInv'
  <2>1. CallInv'
    BY <1>22, <1>i, <1>s, <1>t, <1>w, <1>c, GoWrites DEF RemoveWorktree, At, CallInv, Stays,
      workflow, upkeep, journal, PrepareAt, CleanupAt, RemedyAt, Beginning
  <2>2. CleanInv'
    BY <1>22, <1>i, <1>s, <1>t, <1>w, <1>c, GoWrites DEF CleanInv, RemoveWorktree, At,
      CallInv, Stays, workflow, upkeep, journal, PrepareAt, CleanupAt, RemedyAt, Beginning,
      Cleaning, Explicit, Outstanding, Rows
  <2> QED BY <2>1, <2>2
<1>23. ASSUME RemovalFails PROVE CallInv' /\ CleanInv'
  <2>1. CallInv'
    BY <1>23, <1>i, <1>s, <1>t, <1>w, <1>c, ReturnWrites DEF RemovalFails, At, CallInv,
      workflow, upkeep, journal, outside, PrepareAt, CleanupAt, RemedyAt, Beginning
  <2>2. CleanInv'
    BY <1>23, <1>i, <1>s, <1>t, <1>w, <1>c, ReturnWrites DEF CleanInv, RemovalFails, At,
      CallInv, workflow, upkeep, journal, outside, PrepareAt, CleanupAt, RemedyAt,
      Beginning, Cleaning, Explicit, Outstanding, Rows
  <2> QED BY <2>1, <2>2
<1>24. ASSUME FinishPlan PROVE CallInv' /\ CleanInv'
  <2>1. CallInv'
    BY <1>24, <1>i, <1>s, <1>t, <1>w, <1>c, GoWrites, ReturnWrites DEF FinishPlan, At,
      CallInv, Stays, workflow, journal, outside, PrepareAt, CleanupAt, RemedyAt, Beginning,
      Explicit
  <2>2. CleanInv'
    BY <1>24, <1>i, <1>s, <1>t, <1>w, <1>c, GoWrites, ReturnWrites DEF CleanInv, FinishPlan,
      At, CallInv, Stays, workflow, journal, outside, PrepareAt, CleanupAt, RemedyAt,
      Beginning, Cleaning, Explicit, Outstanding, Rows
  <2> QED BY <2>1, <2>2
<1>25. ASSUME AnswerPreparation PROVE CallInv' /\ CleanInv'
  <2>1. CallInv'
    BY <1>25, <1>i, <1>s, <1>t, <1>w, <1>c, GoWrites, ReturnWrites DEF AnswerPreparation,
      At, CallInv, Stays, workflow, upkeep, journal, outside, PrepareAt, CleanupAt,
      RemedyAt, Beginning
  <2>2. CleanInv'
    BY <1>25, <1>i, <1>s, <1>t, <1>w, <1>c, GoWrites, ReturnWrites DEF CleanInv,
      AnswerPreparation, At, CallInv, Stays, workflow, upkeep, journal, outside, PrepareAt,
      CleanupAt, RemedyAt, Beginning, Cleaning, Explicit, Outstanding, Rows
  <2> QED BY <2>1, <2>2
<1>26. ASSUME SetCleanupPolicy PROVE CallInv' /\ CleanInv'
  <2>1. CallInv'
    BY <1>26, <1>i, <1>s, <1>t, <1>w, <1>c, GoWrites DEF SetCleanupPolicy, At, CallInv,
      Stays, workflow, journal, outside, PrepareAt, CleanupAt, RemedyAt, Beginning
  <2>2. CleanInv'
    BY <1>26, <1>i, <1>s, <1>t, <1>w, <1>c, GoWrites DEF CleanInv, SetCleanupPolicy, At,
      CallInv, Stays, workflow, journal, outside, PrepareAt, CleanupAt, RemedyAt, Beginning,
      Cleaning, Explicit, Outstanding, Rows
  <2> QED BY <2>1, <2>2
<1>27. ASSUME HoldTree PROVE CallInv' /\ CleanInv'
  <2>1. CallInv'
    BY <1>27, <1>i, <1>s, <1>t, <1>w, <1>c, GoWrites, ReturnWrites DEF HoldTree, At,
      CallInv, Stays, workflow, upkeep, journal, outside, PrepareAt, CleanupAt, RemedyAt,
      Beginning, QuarantineInitial, AfterHold
  <2>2. CleanInv'
    BY <1>27, <1>i, <1>s, <1>t, <1>w, <1>c, GoWrites, ReturnWrites DEF CleanInv, HoldTree,
      At, CallInv, Stays, workflow, upkeep, journal, outside, PrepareAt, CleanupAt,
      RemedyAt, Beginning, Cleaning, Explicit, Outstanding, Rows, QuarantineInitial,
      AfterHold
  <2> QED BY <2>1, <2>2
<1>28. ASSUME ResolveRequest PROVE CallInv' /\ CleanInv'
  <2>1. CallInv'
    BY <1>28, <1>i, <1>s, <1>t, <1>w, <1>c, GoWrites, ReturnWrites DEF ResolveRequest, At,
      CallInv, Stays, workflow, upkeep, journal, outside, PrepareAt, CleanupAt, RemedyAt,
      Beginning
  <2>2. CleanInv'
    BY <1>28, <1>i, <1>s, <1>t, <1>w, <1>c, GoWrites, ReturnWrites DEF CleanInv,
      ResolveRequest, At, CallInv, Stays, workflow, upkeep, journal, outside, PrepareAt,
      CleanupAt, RemedyAt, Beginning, Cleaning, Explicit, Outstanding, Rows
  <2> QED BY <2>1, <2>2
<1>29. ASSUME OfferRelease PROVE CallInv' /\ CleanInv'
  <2>1. CallInv'
    BY <1>29, <1>i, <1>s, <1>t, <1>w, <1>c, ReturnWrites DEF OfferRelease, At, CallInv,
      workflow, upkeep, journal, outside, PrepareAt, CleanupAt, RemedyAt, Beginning,
      ExecutionRequest, Request
  <2>2. CleanInv'
    BY <1>29, <1>i, <1>s, <1>t, <1>w, <1>c, ReturnWrites DEF CleanInv, OfferRelease, At,
      CallInv, workflow, upkeep, journal, outside, PrepareAt, CleanupAt, RemedyAt,
      Beginning, Cleaning, Explicit, Outstanding, Rows, ExecutionRequest, Request
  <2> QED BY <2>1, <2>2
<1>30. ASSUME StartAttempt PROVE CallInv' /\ CleanInv'
  <2>1. CallInv'
    BY <1>30, <1>i, <1>s, <1>t, <1>w, <1>c DEF StartAttempt, At, CallInv, upkeep, journal,
      outside, PrepareAt, CleanupAt, RemedyAt, Beginning
  <2>2. CleanInv'
    BY <1>30, <1>i, <1>s, <1>t, <1>w, <1>c DEF CleanInv, StartAttempt, At, CallInv, upkeep,
      journal, outside, PrepareAt, CleanupAt, RemedyAt, Beginning, Cleaning, Explicit,
      Outstanding, Rows
  <2> QED BY <2>1, <2>2
<1>31. ASSUME EndAttempt PROVE CallInv' /\ CleanInv'
  <2>1. CallInv'
    BY <1>31, <1>i, <1>s, <1>t, <1>w, <1>c DEF EndAttempt, At, CallInv, upkeep, journal,
      outside, PrepareAt, CleanupAt, RemedyAt, Beginning
  <2>2. CleanInv'
    BY <1>31, <1>i, <1>s, <1>t, <1>w, <1>c DEF CleanInv, EndAttempt, At, CallInv, upkeep,
      journal, outside, PrepareAt, CleanupAt, RemedyAt, Beginning, Cleaning, Explicit,
      Outstanding, Rows
  <2> QED BY <2>1, <2>2
<1>32. ASSUME EndExecution PROVE CallInv' /\ CleanInv'
  <2>1. CallInv'
    BY <1>32, <1>i, <1>s, <1>t, <1>w, <1>c DEF EndExecution, At, CallInv, upkeep, journal,
      outside, PrepareAt, CleanupAt, RemedyAt, Beginning
  <2>2. CleanInv'
    BY <1>32, <1>i, <1>s, <1>t, <1>w, <1>c DEF CleanInv, EndExecution, At, CallInv, upkeep,
      journal, outside, PrepareAt, CleanupAt, RemedyAt, Beginning, Cleaning, Explicit,
      Outstanding, Rows
  <2> QED BY <2>1, <2>2
<1>33. ASSUME DeadlinePasses PROVE CallInv' /\ CleanInv'
  <2>1. CallInv'
    BY <1>33, <1>i, <1>s, <1>t, <1>w, <1>c DEF DeadlinePasses, At, CallInv, workflow,
      upkeep, journal, outside, PrepareAt, CleanupAt, RemedyAt, Beginning
  <2>2. CleanInv'
    BY <1>33, <1>i, <1>s, <1>t, <1>w, <1>c DEF CleanInv, DeadlinePasses, At, CallInv,
      workflow, upkeep, journal, outside, PrepareAt, CleanupAt, RemedyAt, Beginning,
      Cleaning, Explicit, Outstanding, Rows
  <2> QED BY <2>1, <2>2
<1>34. ASSUME AgentWorks PROVE CallInv' /\ CleanInv'
  <2>1. CallInv'
    BY <1>34, <1>i, <1>s, <1>t, <1>w, <1>c DEF AgentWorks, At, CallInv, workflow, upkeep,
      journal, PrepareAt, CleanupAt, RemedyAt, Beginning
  <2>2. CleanInv'
    BY <1>34, <1>i, <1>s, <1>t, <1>w, <1>c DEF CleanInv, AgentWorks, At, CallInv, workflow,
      upkeep, journal, PrepareAt, CleanupAt, RemedyAt, Beginning, Cleaning, Explicit,
      Outstanding, Rows
  <2> QED BY <2>1, <2>2
<1>35. ASSUME NEW r \in requests, NEW m \in Remedies, Remedy(r, m) PROVE CallInv' /\ CleanInv'
  <2>1. /\ engine'.at = FirstStep(r, m) /\ engine'.done = <<>>
        /\ engine'.ask = r /\ engine'.why = "none" /\ engine'.remedy = m
    BY <1>t, <1>35, RemedyWrites
  <2>2. /\ FirstStep(r, m) \in {"authorize", "resolve", "policy", "workspace-cleanup", "targets"}
        /\ FirstStep(r, m) = "workspace-cleanup" => m = "release" /\ r.of = 0
        /\ FirstStep(r, m) = "policy" => m \in {"retain", "quarantine"}
    BY FirstSteps
  <2>3. UNCHANGED <<active, terminal, requests, workspace>>
    BY <1>35 DEF Remedy, workflow, upkeep
  <2>4. CallInv'
    BY <2>1, <2>2 DEF CallInv, At, PrepareAt
  <2>5. CleanInv'
    BY <1>i, <2>1, <2>2, <2>3 DEF CleanInv, At, Cleaning, Explicit
  <2> QED BY <2>4, <2>5
<1>36. ASSUME NEW a \in Attempts, Rehydrate(a) PROVE CallInv' /\ CleanInv'
  <2>1. CallInv'
    BY <1>36, <1>i, <1>s, <1>t, <1>w, <1>c, AskWrites, OwnRequests, UnreconciledTyped
      DEF Rehydrate, At, CallInv, workflow, upkeep, journal, outside, PrepareAt, CleanupAt,
      RemedyAt, Beginning, Rows, Ready, MayCall, Idle, Reconciles, Held
  <2>2. CleanInv'
    BY <1>36, <1>i, <1>s, <1>t, <1>w, <1>c, AskWrites, OwnRequests, UnreconciledTyped
      DEF CleanInv, Rehydrate, At, CallInv, workflow, upkeep, journal, outside, PrepareAt,
      CleanupAt, RemedyAt, Beginning, Cleaning, Explicit, Outstanding, Rows, Ready, MayCall,
      Idle, Reconciles, Held
  <2> QED BY <2>1, <2>2
<1>37. ASSUME NEW i \in Rows, ReleaseUnused(i) PROVE CallInv' /\ CleanInv'
  <2>1. CallInv'
    BY <1>37, <1>i, <1>s, <1>t, <1>w, <1>c, StatusWrites DEF ReleaseUnused, At, CallInv,
      workflow, upkeep, outside, PrepareAt, CleanupAt, RemedyAt, Beginning, Rows,
      AtCapability, HeldFor, Held
  <2>2. CleanInv'
    BY <1>37, <1>i, <1>s, <1>t, <1>w, <1>c, StatusWrites DEF CleanInv, ReleaseUnused, At,
      CallInv, workflow, upkeep, outside, PrepareAt, CleanupAt, RemedyAt, Beginning,
      Cleaning, Explicit, Outstanding, Rows, AtCapability, HeldFor, Held
  <2> QED BY <2>1, <2>2
<1>38. ASSUME NEW i \in Rows, Reattach(i) PROVE CallInv' /\ CleanInv'
  <2>1. /\ engine.at = "capability" /\ UNCHANGED <<created, active, terminal, requests>>
    BY <1>38 DEF Reattach, AtCapability, At, workflow
  <2>2. /\ engine'.at \in {"capability", "compensate"} /\ engine'.remedy = engine.remedy
        /\ engine'.why = "ask" => engine'.ask.of # 0
    <3>1. Append(engine.done, i) \in Seq(Nat)
      BY <1>i, <1>s DEF EngineType, RowFacts, Rows
    <3>2. CASE NextCapability(Append(engine.done, i))
      BY <1>i, <3>1, <3>2, NextCapabilityWrites DEF CleanInv
    <3>3. CASE \E r \in Unreconciled(i) : Undo("ask", r)
      BY <1>i, <2>1, <3>3, UndoWrites, UnreconciledTyped DEF Whys, CallInv, PrepareAt
    <3> QED BY <1>38, <3>2, <3>3 DEF Reattach
  <2>3. CallInv'
    BY <1>i, <2>1, <2>2 DEF CallInv, At, Beginning, CleanupAt, RemedyAt, PrepareAt
  <2>4. CleanInv'
    BY <1>i, <2>1, <2>2 DEF CleanInv, CallInv, At, Cleaning, PrepareAt
  <2> QED BY <2>3, <2>4
<1>39. ASSUME AcquireAllocation PROVE CallInv' /\ CleanInv'
  <2>1. CallInv'
    BY <1>39, <1>i, <1>s, <1>t, <1>w, <1>c, UndoWrites, GoWrites, OwnRequests
      DEF AcquireAllocation, At, CallInv, Stays, workflow, upkeep, outside, PrepareAt,
      CleanupAt, RemedyAt, Beginning, Rows, AtCapability, HeldFor, Held, Taken, Wanted, Whys
  <2>2. CleanInv'
    BY <1>39, <1>i, <1>s, <1>t, <1>w, <1>c, UndoWrites, GoWrites, OwnRequests DEF CleanInv,
      AcquireAllocation, At, CallInv, Stays, workflow, upkeep, outside, PrepareAt,
      CleanupAt, RemedyAt, Beginning, Cleaning, Explicit, Outstanding, Rows, AtCapability,
      HeldFor, Held, Taken, Wanted, Whys
  <2> QED BY <2>1, <2>2
<1>40. ASSUME PlanActivation PROVE CallInv' /\ CleanInv'
  <2>1. CallInv'
    BY <1>40, <1>i, <1>s, <1>t, <1>w, <1>c, ActivateWrites, GoWrites DEF PlanActivation, At,
      CallInv, Stays, workflow, upkeep, outside, PrepareAt, CleanupAt, RemedyAt, Beginning,
      Rows
  <2>2. CleanInv'
    BY <1>40, <1>i, <1>s, <1>t, <1>w, <1>c, ActivateWrites, GoWrites DEF CleanInv,
      PlanActivation, At, CallInv, Stays, workflow, upkeep, outside, PrepareAt, CleanupAt,
      RemedyAt, Beginning, Cleaning, Explicit, Outstanding, Rows
  <2> QED BY <2>1, <2>2
<1>41. ASSUME Activate PROVE CallInv' /\ CleanInv'
  <2>1. /\ engine.at = "activate" /\ UNCHANGED <<created, active, terminal, requests>>
    BY <1>41 DEF Activate, At, workflow
  <2>2. /\ engine'.at \in {"record-ready", "fail-activation"} /\ engine'.remedy = engine.remedy
        /\ engine'.why = "ask" => engine'.ask.of # 0
    <3>1. Wanted \in Names /\ Newest # 0
      BY <1>i, <2>1 DEF NewInv, Before, Wanted, Names
    <3>2. CASE ActivationFails
      BY <1>i, <2>1, <3>2 DEF ActivationFails, CallInv, PrepareAt
    <3>3. CASE engine' = [engine EXCEPT !.at = "record-ready", !.done = Append(@, Newest)]
      <4>1. Append(engine.done, Newest) \in Seq(Nat) /\ "record-ready" \in PrepareAt
        BY <1>i, <1>s DEF EngineType, RowFacts, Newest, PrepareAt
      <4> QED BY <1>i, <3>3, <4>1, DoneWrites DEF CleanInv
    <3> QED BY <1>41, <1>i, <3>1, <3>2, <3>3, ActivateEnds, Zenon
  <2>3. CallInv'
    BY <1>i, <2>1, <2>2 DEF CallInv, At, Beginning, CleanupAt, RemedyAt, PrepareAt
  <2>4. CleanInv'
    BY <1>i, <2>1, <2>2 DEF CleanInv, CallInv, At, Cleaning, PrepareAt
  <2> QED BY <2>3, <2>4
<1>42. ASSUME FinishActivation PROVE CallInv' /\ CleanInv'
  <2>1. /\ engine.at \in {"record-ready", "finish-activation", "fail-activation", "drop-allocation"}
        /\ UNCHANGED <<created, active, terminal, requests>>
    BY <1>42 DEF FinishActivation, At, workflow
  <2>2. /\ engine'.at \in {"finish-activation", "capability", "drop-allocation", "compensate"}
        /\ engine'.remedy = engine.remedy /\ engine'.why = engine.why /\ engine'.ask = engine.ask
    <3>1. engine.done \in Seq(Nat)
      BY <1>i DEF EngineType
    <3> QED BY <1>42, <1>i, <3>1, GoWrites, NextCapabilityWrites DEF FinishActivation, Stays
  <2>3. CallInv'
    BY <1>i, <2>1, <2>2 DEF CallInv, At, Beginning, CleanupAt, RemedyAt, PrepareAt
  <2>4. CleanInv'
    BY <1>i, <2>1, <2>2 DEF CleanInv, CallInv, At, Cleaning, PrepareAt
  <2> QED BY <2>3, <2>4
<1>43. ASSUME PlanUndo PROVE CallInv' /\ CleanInv'
  <2>1. CallInv'
    BY <1>43, <1>i, <1>s, <1>t, <1>w, <1>c, UndoneWrites, GoWrites, FrontIs DEF PlanUndo,
      At, CallInv, Stays, workflow, upkeep, outside, PrepareAt, CleanupAt, RemedyAt,
      Beginning, Rows
  <2>2. CleanInv'
    BY <1>43, <1>i, <1>s, <1>t, <1>w, <1>c, UndoneWrites, GoWrites, FrontIs DEF CleanInv,
      PlanUndo, At, CallInv, Stays, workflow, upkeep, outside, PrepareAt, CleanupAt,
      RemedyAt, Beginning, Cleaning, Explicit, Outstanding, Rows
  <2> QED BY <2>1, <2>2
<1>44. ASSUME UndoActivation PROVE CallInv' /\ CleanInv'
  <2>1. CallInv'
    BY <1>44, <1>i, <1>s, <1>t, <1>w, <1>c, GoWrites, FrontIs DEF UndoActivation, At,
      CallInv, Stays, workflow, upkeep, journal, PrepareAt, CleanupAt, RemedyAt, Beginning,
      ProviderCleans, ProviderRefuses
  <2>2. CleanInv'
    BY <1>44, <1>i, <1>s, <1>t, <1>w, <1>c, GoWrites, FrontIs DEF CleanInv, UndoActivation,
      At, CallInv, Stays, workflow, upkeep, journal, PrepareAt, CleanupAt, RemedyAt,
      Beginning, Cleaning, Explicit, Outstanding, Rows, ProviderCleans, ProviderRefuses
  <2> QED BY <2>1, <2>2
<1>45. ASSUME FinishUndo PROVE CallInv' /\ CleanInv'
  <2>1. /\ engine.at \in Undoings /\ engine.at \in PrepareAt
        /\ UNCHANGED <<created, active, terminal, requests>>
    BY <1>45 DEF FinishUndo, At, workflow, Undoings, PrepareAt
  <2>2. \/ engine' = Idle /\ engine'.at = "idle"
        \/ /\ engine'.at \in {"release-undone", "compensate"} /\ engine'.remedy = engine.remedy
           /\ engine'.why = engine.why /\ engine'.ask = engine.ask
    <3>1. CASE Go("release-undone")
      BY <1>i, <3>1, GoWrites DEF Stays
    <3>2. CASE Return
      BY <3>2, ReturnWrites
    <3>3. CASE engine' = [engine EXCEPT !.at = "compensate", !.done = Front(@)]
      <4>1. Front(engine.done) \in Seq(Nat) /\ "compensate" \in PrepareAt
        BY <1>i, <2>1, FrontIs DEF EngineType, GoneInv, PrepareAt
      <4> QED BY <1>i, <3>3, <4>1, DoneWrites
    <3> QED BY <1>45, <3>1, <3>2, <3>3, Zenon DEF FinishUndo
  <2>3. CallInv'
    BY <1>i, <1>w, <2>1, <2>2 DEF CallInv, At, Beginning, CleanupAt, RemedyAt, PrepareAt
  <2>4. CleanInv'
    BY <1>i, <1>w, <2>1, <2>2 DEF CleanInv, CallInv, At, Cleaning
  <2> QED BY <2>3, <2>4
<1>46. ASSUME NEW i \in Rows, CleanAllocation(i) PROVE CallInv' /\ CleanInv'
  <2>1. /\ engine.at = "cleanup" /\ UNCHANGED <<created, active, terminal, requests>>
    BY <1>46 DEF CleanAllocation, At, workflow
  <2>2. \/ engine' = Idle /\ engine'.at = "idle"
        \/ engine'.at = "release-cleaned" /\ Stays
        \/ /\ engine'.at = "ask" /\ engine'.remedy = "none" /\ engine'.why = "none"
           /\ engine'.ask.of # 0
    <3> DEFINE Unsafe == Request(created, "unsafe-cleanup", rows[i].capability,
                                 {"retry", "retain", "quarantine"})
    <3>1. Unsafe \in RequestType /\ Unsafe.of = created
      BY <1>i, OwnRequests, RowTyped DEF Categories, Remedies
    <3> HIDE DEF Unsafe
    <3>2. Return \/ Go("release-cleaned") \/ Ask(Unsafe)
      BY <1>46, Zenon DEF CleanAllocation, Unsafe
    <3> QED BY <1>i, <2>1, <3>1, <3>2, ReturnWrites, GoWrites, AskWrites DEF CallInv
  <2>3. CallInv'
    BY <1>i, <1>w, <2>1, <2>2 DEF CallInv, At, Beginning, CleanupAt, RemedyAt, PrepareAt,
      Stays
  <2>4. CleanInv'
    BY <1>i, <1>w, <2>1, <2>2 DEF CleanInv, CallInv, At, Cleaning, Stays
  <2> QED BY <2>3, <2>4
<1>47. ASSUME NEW i \in Rows, ReleaseCleaned(i) PROVE CallInv' /\ CleanInv'
  <2>1. CallInv'
    BY <1>47, <1>i, <1>s, <1>t, <1>w, <1>c, StatusWrites, ReturnWrites, GoWrites
      DEF ReleaseCleaned, At, CallInv, Stays, workflow, upkeep, outside, PrepareAt,
      CleanupAt, RemedyAt, Beginning, Rows
  <2>2. CleanInv'
    BY <1>47, <1>i, <1>s, <1>t, <1>w, <1>c, StatusWrites, ReturnWrites, GoWrites
      DEF CleanInv, ReleaseCleaned, At, CallInv, Stays, workflow, upkeep, outside,
      PrepareAt, CleanupAt, RemedyAt, Beginning, Cleaning, Explicit, Outstanding, Rows
  <2> QED BY <2>1, <2>2
<1>48. ASSUME CleanTarget PROVE CallInv' /\ CleanInv'
  <2>1. CallInv'
    BY <1>48, <1>i, <1>s, <1>t, <1>w, <1>c, ReturnWrites, GoWrites DEF CleanTarget, At,
      CallInv, Stays, workflow, upkeep, journal, PrepareAt, CleanupAt, RemedyAt, Beginning,
      ProviderCleans, ProviderRefuses, Reconciles
  <2>2. CleanInv'
    BY <1>48, <1>i, <1>s, <1>t, <1>w, <1>c, ReturnWrites, GoWrites DEF CleanInv,
      CleanTarget, At, CallInv, Stays, workflow, upkeep, journal, PrepareAt, CleanupAt,
      RemedyAt, Beginning, Cleaning, Explicit, Outstanding, Rows, ProviderCleans,
      ProviderRefuses, Reconciles
  <2> QED BY <2>1, <2>2
<1>49. ASSUME ReleaseTarget PROVE CallInv' /\ CleanInv'
  <2>1. CallInv'
    BY <1>49, <1>i, <1>s, <1>t, <1>w, <1>c, StatusWrites, GoWrites DEF ReleaseTarget, At,
      CallInv, Stays, workflow, upkeep, outside, PrepareAt, CleanupAt, RemedyAt, Beginning,
      Rows
  <2>2. CleanInv'
    BY <1>49, <1>i, <1>s, <1>t, <1>w, <1>c, StatusWrites, GoWrites DEF CleanInv,
      ReleaseTarget, At, CallInv, Stays, workflow, upkeep, outside, PrepareAt, CleanupAt,
      RemedyAt, Beginning, Cleaning, Explicit, Outstanding, Rows
  <2> QED BY <2>1, <2>2
<1>50. ASSUME QuarantineTarget PROVE CallInv' /\ CleanInv'
  <2>1. CallInv'
    BY <1>50, <1>i, <1>s, <1>t, <1>w, <1>c, StatusWrites, GoWrites DEF QuarantineTarget, At,
      CallInv, Stays, workflow, upkeep, outside, PrepareAt, CleanupAt, RemedyAt, Beginning,
      Rows
  <2>2. CleanInv'
    BY <1>50, <1>i, <1>s, <1>t, <1>w, <1>c, StatusWrites, GoWrites DEF CleanInv,
      QuarantineTarget, At, CallInv, Stays, workflow, upkeep, outside, PrepareAt, CleanupAt,
      RemedyAt, Beginning, Cleaning, Explicit, Outstanding, Rows
  <2> QED BY <2>1, <2>2
<1>51. ASSUME Crash PROVE CallInv' /\ CleanInv'
  <2>1. CallInv'
    BY <1>51, <1>i, <1>s, <1>t, <1>w, <1>c DEF Crash, At, CallInv, workflow, upkeep,
      journal, outside, PrepareAt, CleanupAt, RemedyAt, Beginning, Idle
  <2>2. CleanInv'
    BY <1>51, <1>i, <1>s, <1>t, <1>w, <1>c DEF CleanInv, Crash, At, CallInv, workflow,
      upkeep, journal, outside, PrepareAt, CleanupAt, RemedyAt, Beginning, Cleaning,
      Explicit, Outstanding, Rows, Idle
  <2> QED BY <2>1, <2>2
<1>52. ASSUME NEW i \in Rows, ServiceDies(i) PROVE CallInv' /\ CleanInv'
  <2>1. CallInv'
    BY <1>52, <1>i, <1>s, <1>t, <1>w, <1>c DEF ServiceDies, At, CallInv, workflow, upkeep,
      journal, PrepareAt, CleanupAt, RemedyAt, Beginning, Rows
  <2>2. CleanInv'
    BY <1>52, <1>i, <1>s, <1>t, <1>w, <1>c DEF CleanInv, ServiceDies, At, CallInv, workflow,
      upkeep, journal, PrepareAt, CleanupAt, RemedyAt, Beginning, Cleaning, Explicit,
      Outstanding, Rows
  <2> QED BY <2>1, <2>2
<1> QED BY <1>1, <1>2, <1>3, <1>4, <1>5, <1>6, <1>7, <1>8, <1>9, <1>10, <1>11, <1>12, <1>13,
  <1>14, <1>15, <1>16, <1>17, <1>18, <1>19, <1>20, <1>21, <1>22, <1>23, <1>24, <1>25, <1>26,
  <1>27, <1>28, <1>29, <1>30, <1>31, <1>32, <1>33, <1>34, <1>35, <1>36, <1>37, <1>38, <1>39,
  <1>40, <1>41, <1>42, <1>43, <1>44, <1>45, <1>46, <1>47, <1>48, <1>49, <1>50, <1>51, <1>52,
  Zenon DEF Next, EngineStep, PrepareStep, CleanupStep, RemedyStep, Call, Environment

-----------------------------------------------------------------------------
(* Types.                                                                  *)

\* TypeOK in three parts that are proved apart.
PlaceTyped ==
  /\ preparation \in [Attempts -> {"none", "preparing", "busy", "ready", "failed",
                                   "needs_attention", "canceled"}]
  /\ readied \in [Attempts -> BOOLEAN]
  /\ creates \in [Attempts -> Seq(MutationStatuses)]
KeepTyped ==
  /\ workspace \in [status : {"none", "active", "cleanup_pending", "cleaned", "quarantined"},
                    policy : {"none", "retain", "quarantine"}]
  /\ plan \in [open : BOOLEAN, initial : BOOLEAN,
               keyed : SUBSET {"cleanup_pending", "quarantined", "cleaned"}]
  /\ tree \in {"absent", "clean", "dirty", "changed"}
FlowTyped ==
  /\ created \in 0 .. MaxAttempts /\ active \in BOOLEAN /\ terminal \in BOOLEAN
  /\ uncertain \in BOOLEAN /\ late \in BOOLEAN
  /\ requests \subseteq RequestType

\* Planning a creation appends to its journal.
LEMMA CreateAppends ==
  ASSUME creates \in [Attempts -> Seq(MutationStatuses)],
         creates' = [creates EXCEPT ![created] = Append(@, "planned")]
  PROVE  creates' \in [Attempts -> Seq(MutationStatuses)]
<1>1. \A s \in Seq(MutationStatuses) : Append(s, "planned") \in Seq(MutationStatuses)
  BY DEF MutationStatuses
<1> QED BY <1>1

\* A creation that moves on is written over its last entry.
LEMMA CreateSets ==
  ASSUME creates \in [Attempts -> Seq(MutationStatuses)], NEW v \in MutationStatuses, SetCreate(v)
  PROVE  creates' \in [Attempts -> Seq(MutationStatuses)]
<1>1. \A s \in Seq(MutationStatuses), n \in Nat : [s EXCEPT ![n] = v] \in Seq(MutationStatuses)
  <2> SUFFICES ASSUME NEW s \in Seq(MutationStatuses), NEW n \in Nat
               PROVE  [s EXCEPT ![n] = v] \in Seq(MutationStatuses)
    OBVIOUS
  <2>1. [s EXCEPT ![n] = v] = [j \in 1 .. Len(s) |-> IF j = n THEN v ELSE s[j]]
    OBVIOUS
  <2>2. \A j \in 1 .. Len(s) : (IF j = n THEN v ELSE s[j]) \in MutationStatuses
    OBVIOUS
  <2>3. Len(s) \in Nat
    OBVIOUS
  <2> DEFINE t == [j \in 1 .. Len(s) |-> IF j = n THEN v ELSE s[j]]
  <2>4. t \in [1 .. Len(s) -> MutationStatuses]
    BY <2>2
  <2> HIDE DEF t
  <2>5. t \in Seq(MutationStatuses)
    BY <2>3, <2>4
  <2> QED BY <2>1, <2>5 DEF t
<1>2. \A a \in Attempts : creates'[a] \in Seq(MutationStatuses)
  BY <1>1 DEF SetCreate
<1> QED BY <1>2 DEF SetCreate

\* The first part of TypeOK.
LEMMA PlaceSteps ==
  ASSUME IInv, Next PROVE PlaceTyped'
<1>i. PlaceTyped /\ TypeOK
  BY DEF IInv, Typed, TypeOK, PlaceTyped
<1>1. ASSUME NEW a \in Attempts, BeginPreparation(a) PROVE PlaceTyped'
  BY <1>1, <1>i DEF BeginPreparation, PlaceTyped, SetPreparation, journal, MutationStatuses
<1>2. ASSUME NEW a \in Attempts, ResumePreparation(a) PROVE PlaceTyped'
  BY <1>2, <1>i DEF ResumePreparation, PlaceTyped, SetPreparation, journal, MutationStatuses
<1>3. ASSUME NEW a \in Attempts, SchedulerHolds(a) PROVE PlaceTyped'
  BY <1>3, <1>i DEF SchedulerHolds, PlaceTyped, SetPreparation, journal, MutationStatuses
<1>4. ASSUME PlanCreate PROVE PlaceTyped'
  BY <1>4, <1>i, CreateAppends DEF PlanCreate, PlaceTyped
<1>5. ASSUME StartCreate PROVE PlaceTyped'
  BY <1>5, <1>i, CreateSets DEF StartCreate, MutationStatuses, PlaceTyped
<1>6. ASSUME FinishCreate PROVE PlaceTyped'
  BY <1>6, <1>i, CreateSets DEF FinishCreate, MutationStatuses, PlaceTyped
<1>7. ASSUME MarkPreparationReady PROVE PlaceTyped'
  BY <1>7, <1>i DEF MarkPreparationReady, PlaceTyped, SetPreparation, MutationStatuses
<1>8. ASSUME RecordBusy PROVE PlaceTyped'
  BY <1>8, <1>i DEF RecordBusy, PlaceTyped, SetPreparation, journal, MutationStatuses
<1>9. ASSUME FailPreparation PROVE PlaceTyped'
  BY <1>9, <1>i DEF FailPreparation, PlaceTyped, SetPreparation, journal, MutationStatuses
<1>10. ASSUME HoldPreparation PROVE PlaceTyped'
  BY <1>10, <1>i DEF HoldPreparation, PlaceTyped, SetPreparation, journal, MutationStatuses
<1>11. ASSUME AnswerPreparation PROVE PlaceTyped'
  BY <1>11, <1>i DEF AnswerPreparation, PlaceTyped, SetPreparation, journal,
    MutationStatuses, Current
<1>12. ASSUME \A a \in Attempts : ~BeginPreparation(a), \A a \in Attempts :
             ~ResumePreparation(a), \A a \in Attempts : ~SchedulerHolds(a), ~PlanCreate, ~StartCreate,
             ~FinishCreate, ~MarkPreparationReady, ~RecordBusy, ~FailPreparation, ~HoldPreparation,
             ~AnswerPreparation
      PROVE  PlaceTyped'
  <2> DEFINE Same == UNCHANGED <<preparation, readied, creates>>
  <2>1. ASSUME PrepareStep PROVE Same
    BY <1>12, <2>1 DEF PrepareStep, Materialize, RegisterWorkspace, ReconcileWorkspace,
      AcquireAllocation, PlanActivation, Activate, FinishActivation, PlanUndo,
      UndoActivation, FinishUndo, OpenRequest, ReleaseUnused, Reattach, journal
  <2>2. ASSUME CleanupStep \/ CleanTerminalWorkspace PROVE Same
    BY <2>2 DEF CleanupStep, CleanTerminalWorkspace, KeepWorkspace, AskToRelease,
      PlanCleanup, StepCleanup, RemoveWorktree, RemovalFails, FinishPlan, CleanAllocation,
      ReleaseCleaned, journal
  <2>3. ASSUME RemedyStep PROVE Same
    BY <1>12, <2>3 DEF RemedyStep, CleanTarget, ReleaseTarget, SetCleanupPolicy,
      QuarantineTarget, HoldTree, ResolveRequest, OfferRelease, journal
  <2>4. ASSUME \E b \in Attempts : Call(b) PROVE Same
    BY <1>12, <2>4 DEF Call, AskExhausted, Rehydrate, CleanupAttempt, journal
  <2>5. ASSUME Environment PROVE Same
    BY <2>5 DEF Environment, StartAttempt, EndAttempt, EndExecution, Crash, DeadlinePasses,
      AgentWorks, ServiceDies, Remedy, journal
  <2>6. Same
    BY <2>1, <2>2, <2>3, <2>4, <2>5, Zenon DEF Next, EngineStep
  <2> QED BY <1>i, <2>6 DEF PlaceTyped
<1> QED BY <1>1, <1>2, <1>3, <1>4, <1>5, <1>6, <1>7, <1>8, <1>9, <1>10, <1>11, <1>12, Zenon

\* The second part.
LEMMA KeepSteps ==
  ASSUME IInv, Next PROVE KeepTyped'
<1>i. KeepTyped /\ TypeOK
  BY DEF IInv, Typed, TypeOK, KeepTyped
<1>a. engine.remedy \in Remedies \cup {"none"}
  BY DEF IInv, Typed, EngineType
<1>1. ASSUME RegisterWorkspace PROVE KeepTyped'
  BY <1>1, <1>i, <1>a DEF RegisterWorkspace, KeepTyped, outside
<1>2. ASSUME KeepWorkspace PROVE KeepTyped'
  BY <1>2, <1>i, <1>a DEF KeepWorkspace, KeepTyped, upkeep, outside, QuarantineInitial
<1>3. ASSUME PlanCleanup PROVE KeepTyped'
  BY <1>3, <1>i, <1>a DEF PlanCleanup, KeepTyped, outside
<1>4. ASSUME StepCleanup PROVE KeepTyped'
  BY <1>4, <1>i, <1>a DEF StepCleanup, KeepTyped, upkeep, outside, SetWorkspace
<1>5. ASSUME FinishPlan PROVE KeepTyped'
  BY <1>5, <1>i, <1>a DEF FinishPlan, KeepTyped, outside
<1>6. ASSUME SetCleanupPolicy PROVE KeepTyped'
  <2>1. engine.remedy \in {"retain", "quarantine"}
    BY <1>6 DEF SetCleanupPolicy, IInv, CallInv
  <2> QED BY <1>6, <1>i, <2>1 DEF SetCleanupPolicy, KeepTyped, outside
<1>7. ASSUME HoldTree PROVE KeepTyped'
  BY <1>7, <1>i, <1>a DEF HoldTree, KeepTyped, upkeep, outside, QuarantineInitial
<1>8. ASSUME Materialize PROVE KeepTyped'
  BY <1>8, <1>i, <1>a DEF Materialize, KeepTyped, upkeep
<1>9. ASSUME RemoveWorktree PROVE KeepTyped'
  BY <1>9, <1>i, <1>a DEF RemoveWorktree, KeepTyped, upkeep
<1>10. ASSUME AgentWorks PROVE KeepTyped'
  BY <1>10, <1>i, <1>a DEF AgentWorks, KeepTyped, upkeep
<1>11. ASSUME ~RegisterWorkspace, ~KeepWorkspace, ~PlanCleanup, ~StepCleanup, ~FinishPlan,
             ~SetCleanupPolicy, ~HoldTree, ~Materialize, ~RemoveWorktree, ~AgentWorks
      PROVE  KeepTyped'
  <2> DEFINE Same == UNCHANGED <<workspace, plan, tree>>
  <2>1. ASSUME PrepareStep PROVE Same
    BY <1>11, <2>1 DEF PrepareStep, PlanCreate, StartCreate, FinishCreate,
      ReconcileWorkspace, AcquireAllocation, PlanActivation, Activate, FinishActivation,
      MarkPreparationReady, PlanUndo, UndoActivation, FinishUndo, RecordBusy,
      FailPreparation, OpenRequest, HoldPreparation, ReleaseUnused, Reattach, upkeep,
      outside
  <2>2. ASSUME CleanupStep \/ CleanTerminalWorkspace PROVE Same
    BY <1>11, <2>2 DEF CleanupStep, CleanTerminalWorkspace, AskToRelease, RemovalFails,
      CleanAllocation, ReleaseCleaned, upkeep, outside
  <2>3. ASSUME RemedyStep PROVE Same
    BY <1>11, <2>3 DEF RemedyStep, AnswerPreparation, CleanTarget, ReleaseTarget,
      QuarantineTarget, ResolveRequest, OfferRelease, upkeep, outside
  <2>4. ASSUME \E b \in Attempts : Call(b) PROVE Same
    BY <2>4 DEF Call, BeginPreparation, ResumePreparation, AskExhausted, Rehydrate,
      SchedulerHolds, CleanupAttempt, upkeep, outside
  <2>5. ASSUME Environment PROVE Same
    BY <1>11, <2>5 DEF Environment, StartAttempt, EndAttempt, EndExecution, Crash,
      DeadlinePasses, ServiceDies, Remedy, upkeep, outside
  <2>6. Same
    BY <2>1, <2>2, <2>3, <2>4, <2>5, Zenon DEF Next, EngineStep
  <2> QED BY <1>i, <2>6 DEF KeepTyped
<1> QED BY <1>1, <1>2, <1>3, <1>4, <1>5, <1>6, <1>7, <1>8, <1>9, <1>10, <1>11, Zenon

\* The third part.
LEMMA FlowSteps ==
  ASSUME IInv, Next PROVE FlowTyped'
<1>i. FlowTyped /\ TypeOK
  BY DEF IInv, Typed, TypeOK, FlowTyped
<1>a. engine.ask \in RequestType
  BY DEF IInv, Typed, EngineType
<1>r. \A c \in {"uncertain", "outstanding", "cleanup", "held"}, s \in SUBSET Remedies, k \in Categories :
        Request(0, k, c, s) \in RequestType
  BY RequestIs
<1>1. ASSUME OpenRequest PROVE FlowTyped'
  BY <1>1, <1>i, <1>a, <1>r, BoundsAssumption DEF OpenRequest, FlowTyped, workflow,
    OpenAttention
<1>2. ASSUME AskToRelease PROVE FlowTyped'
  BY <1>2, <1>i, <1>a, <1>r, BoundsAssumption DEF AskToRelease, FlowTyped, workflow,
    OpenAttention, ExecutionRequest, Categories, Remedies
<1>3. ASSUME ResolveRequest PROVE FlowTyped'
  BY <1>3, <1>i, <1>a, <1>r, BoundsAssumption DEF ResolveRequest, FlowTyped, workflow
<1>4. ASSUME OfferRelease PROVE FlowTyped'
  BY <1>4, <1>i, <1>a, <1>r, BoundsAssumption DEF OfferRelease, FlowTyped, workflow,
    ExecutionRequest, Categories, Remedies
<1>5. ASSUME StartAttempt PROVE FlowTyped'
  <2>1. created' \in 0 .. MaxAttempts
    BY <1>5, <1>i, BoundsAssumption DEF StartAttempt, FlowTyped
  <2> QED BY <1>5, <1>i, <2>1 DEF StartAttempt, FlowTyped
<1>6. ASSUME EndAttempt PROVE FlowTyped'
  BY <1>6, <1>i, <1>a, <1>r, BoundsAssumption DEF EndAttempt, FlowTyped
<1>7. ASSUME EndExecution PROVE FlowTyped'
  BY <1>7, <1>i, <1>a, <1>r, BoundsAssumption DEF EndExecution, FlowTyped
<1>8. ASSUME DeadlinePasses PROVE FlowTyped'
  BY <1>8, <1>i, <1>a, <1>r, BoundsAssumption DEF DeadlinePasses, FlowTyped, workflow
<1>9. ASSUME ~OpenRequest, ~AskToRelease, ~ResolveRequest, ~OfferRelease, ~StartAttempt,
             ~EndAttempt, ~EndExecution, ~DeadlinePasses
      PROVE  FlowTyped'
  <2> DEFINE Same == UNCHANGED <<created, active, terminal, uncertain, late, requests>>
  <2>1. ASSUME PrepareStep PROVE Same
    BY <1>9, <2>1 DEF PrepareStep, PlanCreate, StartCreate, Materialize, RegisterWorkspace,
      FinishCreate, ReconcileWorkspace, AcquireAllocation, PlanActivation, Activate,
      FinishActivation, MarkPreparationReady, PlanUndo, UndoActivation, FinishUndo,
      RecordBusy, FailPreparation, HoldPreparation, ReleaseUnused, Reattach, workflow
  <2>2. ASSUME CleanupStep \/ CleanTerminalWorkspace PROVE Same
    BY <1>9, <2>2 DEF CleanupStep, CleanTerminalWorkspace, KeepWorkspace, PlanCleanup,
      StepCleanup, RemoveWorktree, RemovalFails, FinishPlan, CleanAllocation,
      ReleaseCleaned, workflow
  <2>3. ASSUME RemedyStep PROVE Same
    BY <1>9, <2>3 DEF RemedyStep, AnswerPreparation, CleanTarget, ReleaseTarget,
      SetCleanupPolicy, QuarantineTarget, HoldTree, workflow
  <2>4. ASSUME \E b \in Attempts : Call(b) PROVE Same
    BY <2>4 DEF Call, BeginPreparation, ResumePreparation, AskExhausted, Rehydrate,
      SchedulerHolds, CleanupAttempt, workflow
  <2>5. ASSUME Environment PROVE Same
    BY <1>9, <2>5 DEF Environment, Crash, AgentWorks, ServiceDies, Remedy, workflow
  <2>6. Same
    BY <2>1, <2>2, <2>3, <2>4, <2>5, Zenon DEF Next, EngineStep
  <2> QED BY <1>i, <2>6 DEF FlowTyped
<1> QED BY <1>1, <1>2, <1>3, <1>4, <1>5, <1>6, <1>7, <1>8, <1>9, Zenon

\* The engine stays typed.
LEMMA EngineSteps ==
  ASSUME IInv, Next PROVE engine' \in EngineType
<1>i. DoneInv /\ NewInv /\ GoneInv /\ CallInv /\ TypeOK /\ engine \in EngineType
  BY DEF IInv, Typed
<1>s. RowFacts
  BY <1>i DEF TypeOK, RowFacts
<1>t. requests \subseteq RequestType
  BY <1>i DEF TypeOK
<1>d. engine.done \in Seq(Nat)
  BY <1>i DEF EngineType
<1>1. ASSUME NEW a \in Attempts, BeginPreparation(a) PROVE engine' \in EngineType
  BY <1>1, <1>i, <1>d, GoWrites DEF BeginPreparation, Places, PrepareAt, CleanupAt, RemedyAt
<1>2. ASSUME NEW a \in Attempts, ResumePreparation(a) PROVE engine' \in EngineType
  BY <1>2, <1>i, <1>d, GoWrites DEF ResumePreparation, Places, PrepareAt, CleanupAt,
    RemedyAt
<1>3. ASSUME NEW a \in Attempts, AskExhausted(a) PROVE engine' \in EngineType
  BY <1>3, <1>i, <1>d, AskWrites, OwnRequests DEF AskExhausted
<1>4. ASSUME NEW a \in Attempts, SchedulerHolds(a) PROVE engine' \in EngineType
  BY <1>4, <1>i, <1>d DEF SchedulerHolds
<1>5. ASSUME NEW a \in Attempts, CleanupAttempt(a) PROVE engine' \in EngineType
  BY <1>5, <1>i, <1>d, GoWrites DEF CleanupAttempt, Places, PrepareAt, CleanupAt, RemedyAt
<1>6. ASSUME PlanCreate PROVE engine' \in EngineType
  BY <1>6, <1>i, <1>d, GoWrites DEF PlanCreate, Places, PrepareAt, CleanupAt, RemedyAt
<1>7. ASSUME StartCreate PROVE engine' \in EngineType
  BY <1>7, <1>i, <1>d, GoWrites DEF StartCreate, Places, PrepareAt, CleanupAt, RemedyAt
<1>8. ASSUME Materialize PROVE engine' \in EngineType
  BY <1>8, <1>i, <1>d, MaterializeWrites DEF Materialize
<1>9. ASSUME RegisterWorkspace PROVE engine' \in EngineType
  BY <1>9, <1>i, <1>d, GoWrites DEF RegisterWorkspace, Places, PrepareAt, CleanupAt,
    RemedyAt
<1>10. ASSUME FinishCreate PROVE engine' \in EngineType
  BY <1>10, <1>i, <1>d, GoWrites, FirstCapabilityWrites DEF FinishCreate, Places, PrepareAt,
    CleanupAt, RemedyAt
<1>11. ASSUME ReconcileWorkspace PROVE engine' \in EngineType
  BY <1>11, <1>i, <1>d, UndoWrites, FirstCapabilityWrites, OwnRequests
    DEF ReconcileWorkspace, Whys
<1>12. ASSUME MarkPreparationReady PROVE engine' \in EngineType
  BY <1>12, <1>i, <1>d, UndoWrites, ReturnWrites, OwnRequests DEF MarkPreparationReady, Whys
<1>13. ASSUME RecordBusy PROVE engine' \in EngineType
  BY <1>13, <1>i, <1>d, ReturnWrites, AskWrites, OwnRequests DEF RecordBusy, Compensated
<1>14. ASSUME FailPreparation PROVE engine' \in EngineType
  BY <1>14, <1>i, <1>d, ReturnWrites DEF FailPreparation, Compensated
<1>15. ASSUME OpenRequest PROVE engine' \in EngineType
  BY <1>15, <1>i, <1>d, GoWrites DEF OpenRequest, Compensated, Places, PrepareAt, CleanupAt,
    RemedyAt
<1>16. ASSUME HoldPreparation PROVE engine' \in EngineType
  BY <1>16, <1>i, <1>d, ReturnWrites DEF HoldPreparation
<1>17. ASSUME CleanTerminalWorkspace PROVE engine' \in EngineType
  BY <1>17, <1>i, <1>d, GoWrites DEF CleanTerminalWorkspace, Places, PrepareAt, CleanupAt,
    RemedyAt
<1>18. ASSUME KeepWorkspace PROVE engine' \in EngineType
  BY <1>18, <1>i, <1>d, GoWrites, ReturnWrites DEF KeepWorkspace, QuarantineInitial, Places,
    PrepareAt, CleanupAt, RemedyAt
<1>19. ASSUME AskToRelease PROVE engine' \in EngineType
  BY <1>19, <1>i, <1>d, ReturnWrites DEF AskToRelease
<1>20. ASSUME PlanCleanup PROVE engine' \in EngineType
  BY <1>20, <1>i, <1>d, GoWrites DEF PlanCleanup, Places, PrepareAt, CleanupAt, RemedyAt
<1>21. ASSUME StepCleanup PROVE engine' \in EngineType
  BY <1>21, <1>i, <1>d, GoWrites, ReturnWrites DEF StepCleanup, SetWorkspace, Places,
    PrepareAt, CleanupAt, RemedyAt
<1>22. ASSUME RemoveWorktree PROVE engine' \in EngineType
  BY <1>22, <1>i, <1>d, GoWrites DEF RemoveWorktree, Places, PrepareAt, CleanupAt, RemedyAt
<1>23. ASSUME RemovalFails PROVE engine' \in EngineType
  BY <1>23, <1>i, <1>d, ReturnWrites DEF RemovalFails
<1>24. ASSUME FinishPlan PROVE engine' \in EngineType
  BY <1>24, <1>i, <1>d, GoWrites, ReturnWrites DEF FinishPlan, Places, PrepareAt, CleanupAt,
    RemedyAt
<1>25. ASSUME AnswerPreparation PROVE engine' \in EngineType
  BY <1>25, <1>i, <1>d, GoWrites, ReturnWrites DEF AnswerPreparation, Places, PrepareAt,
    CleanupAt, RemedyAt
<1>26. ASSUME SetCleanupPolicy PROVE engine' \in EngineType
  BY <1>26, <1>i, <1>d, GoWrites DEF SetCleanupPolicy, Places, PrepareAt, CleanupAt,
    RemedyAt
<1>27. ASSUME HoldTree PROVE engine' \in EngineType
  BY <1>27, <1>i, <1>d, GoWrites, ReturnWrites DEF HoldTree, QuarantineInitial, AfterHold,
    Places, PrepareAt, CleanupAt, RemedyAt
<1>28. ASSUME ResolveRequest PROVE engine' \in EngineType
  BY <1>28, <1>i, <1>d, GoWrites, ReturnWrites DEF ResolveRequest, Places, PrepareAt,
    CleanupAt, RemedyAt
<1>29. ASSUME OfferRelease PROVE engine' \in EngineType
  BY <1>29, <1>i, <1>d, ReturnWrites DEF OfferRelease
<1>30. ASSUME StartAttempt PROVE engine' \in EngineType
  BY <1>30, <1>i, <1>d DEF StartAttempt
<1>31. ASSUME EndAttempt PROVE engine' \in EngineType
  BY <1>31, <1>i, <1>d DEF EndAttempt
<1>32. ASSUME EndExecution PROVE engine' \in EngineType
  BY <1>32, <1>i, <1>d DEF EndExecution
<1>33. ASSUME DeadlinePasses PROVE engine' \in EngineType
  BY <1>33, <1>i, <1>d DEF DeadlinePasses
<1>34. ASSUME AgentWorks PROVE engine' \in EngineType
  BY <1>34, <1>i, <1>d DEF AgentWorks
<1>35. ASSUME NEW r \in requests, NEW m \in Remedies, Remedy(r, m) PROVE engine' \in EngineType
  BY <1>35, <1>t, RemedyWrites
<1>36. ASSUME NEW a \in Attempts, Rehydrate(a) PROVE engine' \in EngineType
  <2>1. UNCHANGED engine \/ Ask(WorkspaceLost) \/ \E i \in Rows : \E r \in Unreconciled(i) : Ask(r)
    BY <1>36 DEF Rehydrate, Held
  <2> QED BY <1>i, <2>1, OwnRequests, UnreconciledTyped, AskWrites
<1>37. ASSUME NEW i \in Rows, ReleaseUnused(i) PROVE engine' \in EngineType
  BY <1>37, <1>i, <1>d DEF ReleaseUnused
<1>38. ASSUME NEW i \in Rows, Reattach(i) PROVE engine' \in EngineType
  <2>1. Append(engine.done, i) \in Seq(Nat)
    BY <1>d, <1>s DEF RowFacts, Rows
  <2>2. CASE NextCapability(Append(engine.done, i))
    BY <1>i, <2>1, <2>2, NextCapabilityWrites
  <2>3. CASE \E r \in Unreconciled(i) : Undo("ask", r)
    BY <1>i, <2>3, UndoWrites, UnreconciledTyped DEF Whys
  <2> QED BY <1>38, <2>2, <2>3 DEF Reattach
<1>39. ASSUME AcquireAllocation PROVE engine' \in EngineType
  BY <1>39, <1>i, <1>d, UndoWrites, GoWrites, OwnRequests DEF AcquireAllocation, Whys,
    Places, PrepareAt, CleanupAt, RemedyAt
<1>40. ASSUME PlanActivation PROVE engine' \in EngineType
  BY <1>40, <1>i, <1>d, GoWrites DEF PlanActivation, Places, PrepareAt, CleanupAt, RemedyAt
<1>41. ASSUME Activate PROVE engine' \in EngineType
  <2>1. Wanted \in Names
    BY <1>i, <1>41 DEF Activate, NewInv, Before, Wanted, Names, At
  <2>2. CASE engine' = [engine EXCEPT !.at = "record-ready", !.done = Append(@, Newest)]
    <3>1. Append(engine.done, Newest) \in Seq(Nat) /\ "record-ready" \in PrepareAt
      BY <1>i, <1>s, <1>d DEF RowFacts, Newest, PrepareAt
    <3> QED BY <1>i, <2>2, <3>1, DoneWrites
  <2> QED BY <1>41, <1>i, <2>1, <2>2, ActivateEnds, Zenon DEF ActivationFails
<1>42. ASSUME FinishActivation PROVE engine' \in EngineType
  BY <1>42, <1>i, <1>d, NextCapabilityWrites, GoWrites DEF FinishActivation, Places,
    PrepareAt, CleanupAt, RemedyAt
<1>43. ASSUME PlanUndo PROVE engine' \in EngineType
  BY <1>43, <1>i, <1>d, GoWrites DEF PlanUndo, Places, PrepareAt, CleanupAt, RemedyAt
<1>44. ASSUME UndoActivation PROVE engine' \in EngineType
  BY <1>44, <1>i, <1>d, GoWrites DEF UndoActivation, Places, PrepareAt, CleanupAt, RemedyAt
<1>45. ASSUME FinishUndo PROVE engine' \in EngineType
  <2>1. Front(engine.done) \in Seq(Nat) /\ "compensate" \in PrepareAt
    BY <1>i, <1>d, <1>45, FrontIs DEF FinishUndo, GoneInv, Undoings, PrepareAt, At
  <2>2. CASE engine' = [engine EXCEPT !.at = "compensate", !.done = Front(@)]
    BY <1>i, <2>1, <2>2, DoneWrites
  <2>3. CASE Go("release-undone")
    BY <1>i, <2>3, GoWrites DEF Places, PrepareAt
  <2>4. CASE Return
    BY <2>4, ReturnWrites
  <2> QED BY <1>45, <2>2, <2>3, <2>4, Zenon DEF FinishUndo
<1>46. ASSUME NEW i \in Rows, CleanAllocation(i) PROVE engine' \in EngineType
  <2> DEFINE Unsafe == Request(created, "unsafe-cleanup", rows[i].capability,
                               {"retry", "retain", "quarantine"})
  <2>1. Unsafe \in RequestType
    BY <1>i, OwnRequests, RowTyped DEF Categories, Remedies
  <2> HIDE DEF Unsafe
  <2>2. Return \/ Go("release-cleaned") \/ Ask(Unsafe)
    BY <1>46, Zenon DEF CleanAllocation, Unsafe
  <2> QED BY <1>i, <2>1, <2>2, ReturnWrites, GoWrites, AskWrites DEF Places, CleanupAt
<1>47. ASSUME NEW i \in Rows, ReleaseCleaned(i) PROVE engine' \in EngineType
  BY <1>47, <1>i, <1>d, ReturnWrites, GoWrites DEF ReleaseCleaned, Places, PrepareAt,
    CleanupAt, RemedyAt
<1>48. ASSUME CleanTarget PROVE engine' \in EngineType
  BY <1>48, <1>i, <1>d, ReturnWrites, GoWrites DEF CleanTarget, Places, PrepareAt,
    CleanupAt, RemedyAt
<1>49. ASSUME ReleaseTarget PROVE engine' \in EngineType
  BY <1>49, <1>i, <1>d, GoWrites DEF ReleaseTarget, Places, PrepareAt, CleanupAt, RemedyAt
<1>50. ASSUME QuarantineTarget PROVE engine' \in EngineType
  BY <1>50, <1>i, <1>d, GoWrites DEF QuarantineTarget, Places, PrepareAt, CleanupAt,
    RemedyAt
<1>51. ASSUME Crash PROVE engine' \in EngineType
  BY <1>51, <1>i, <1>d, IdleType DEF Crash
<1>52. ASSUME NEW i \in Rows, ServiceDies(i) PROVE engine' \in EngineType
  BY <1>52, <1>i, <1>d DEF ServiceDies
<1> QED BY <1>1, <1>2, <1>3, <1>4, <1>5, <1>6, <1>7, <1>8, <1>9, <1>10, <1>11, <1>12, <1>13,
  <1>14, <1>15, <1>16, <1>17, <1>18, <1>19, <1>20, <1>21, <1>22, <1>23, <1>24, <1>25, <1>26,
  <1>27, <1>28, <1>29, <1>30, <1>31, <1>32, <1>33, <1>34, <1>35, <1>36, <1>37, <1>38, <1>39,
  <1>40, <1>41, <1>42, <1>43, <1>44, <1>45, <1>46, <1>47, <1>48, <1>49, <1>50, <1>51, <1>52,
  Zenon DEF Next, EngineStep, PrepareStep, CleanupStep, RemedyStep, Call, Environment

\* The rows stay typed.
LEMMA RowSteps ==
  ASSUME IInv, Next PROVE RowFacts'
<1>i. DoneInv /\ NewInv /\ GoneInv /\ CallInv /\ TypeOK /\ engine \in EngineType
  BY DEF IInv, Typed
<1>s. RowFacts
  BY <1>i DEF TypeOK, RowFacts
<1>e. CASE Elsewhere
  BY <1>e, <1>s, CalmSteps DEF Calm, RowFacts, Rows
<1>1. ASSUME NEW a \in Attempts, Rehydrate(a) PROVE RowFacts'
  BY <1>1, <1>s DEF Rehydrate, RowFacts, Rows, Held, journal, outside
<1>2. ASSUME NEW i \in Rows, ReleaseUnused(i) PROVE RowFacts'
  BY <1>2, <1>s, StatusWrites DEF ReleaseUnused, RowFacts, Rows, outside
<1>3. ASSUME NEW i \in Rows, Reattach(i) PROVE RowFacts'
  BY <1>3, <1>s, ActivateWrites DEF Reattach, RowFacts, Rows, outside
<1>4. ASSUME AcquireAllocation PROVE RowFacts'
  <2>1. UNCHANGED <<known, live>>
    BY <1>4 DEF AcquireAllocation, outside
  <2>2. rows' = rows \/ rows' = Append(rows, Fresh)
    BY <1>4, Zenon DEF AcquireAllocation, Fresh
  <2>3. Fresh \in RowType
    <3>1. engine.k \in DOMAIN Capabilities
      BY <1>i, <1>4, CapabilitiesAssumption DEF AcquireAllocation, AtCapability, At,
        DoneInv, EngineType
    <3>2. Wanted \in Names /\ created \in Attempts
      BY <1>i, <1>4, <3>1, BoundsAssumption DEF Wanted, Names, AcquireAllocation,
        AtCapability, At, CallInv, PrepareAt, TypeOK, Attempts
    <3> QED BY <3>2 DEF Fresh, RowType
  <2> QED BY <1>s, <2>1, <2>2, <2>3 DEF RowFacts, Rows
<1>5. ASSUME PlanActivation PROVE RowFacts'
  BY <1>5, <1>s, ActivateWrites DEF PlanActivation, RowFacts, Rows, outside
<1>6. ASSUME Activate PROVE RowFacts'
  <2>1. Newest \in Rows /\ Wanted \in Names
    BY <1>6, <1>i, <1>s, NewestIsRow DEF Activate, NewInv, Before, At, Wanted, Names
  <2>2. live' \subseteq live \cup {Newest} /\ known' \subseteq known \cup {Newest}
    BY <1>6, <1>i, <2>1, ActivateEnds DEF ActivationFails
  <2>3. UNCHANGED rows
    BY <1>6 DEF Activate, journal
  <2> QED BY <1>s, <2>1, <2>2, <2>3 DEF RowFacts, Rows
<1>7. ASSUME FinishActivation PROVE RowFacts'
  <2>1. UNCHANGED <<known, live>>
    BY <1>7 DEF FinishActivation, outside
  <2>2. \/ SetRow(Newest, "ready", TRUE) \/ SetRow(Newest, "activate", "completed")
        \/ SetRow(Newest, "activate", "failed") \/ SetRow(Newest, "status", "released")
    BY <1>7 DEF FinishActivation
  <2> QED BY <1>s, <2>1, <2>2, ReadyWrites, ActivateWrites, StatusWrites DEF RowFacts
<1>8. ASSUME PlanUndo PROVE RowFacts'
  <2>1. UNCHANGED <<known, live>>
    BY <1>8 DEF PlanUndo, outside
  <2>2. engine.done # <<>> /\ DoneRows
    BY <1>i, <1>8 DEF PlanUndo, GoneInv, Undoings, At, DoneInv
  <2>3. rows[Undoing].undo \in {"none", "planned", "started", "completed", "quarantined"}
    BY <1>i, <1>s, <2>2, UndoingIs
  <2>4. \E v \in {"none", "planned", "started", "completed", "quarantined"} : SetRow(Undoing, "undo", v)
    BY <1>8, <2>3 DEF PlanUndo
  <2> QED BY <1>s, <2>1, <2>4, UndoneWrites DEF RowFacts
<1>9. ASSUME UndoActivation PROVE RowFacts'
  BY <1>9, <1>s DEF UndoActivation, RowFacts, Rows, journal, ProviderCleans, ProviderRefuses
<1>10. ASSUME FinishUndo PROVE RowFacts'
  <2>1. UNCHANGED <<known, live>>
    BY <1>10 DEF FinishUndo, outside
  <2>2. engine.done # <<>> /\ DoneRows
    BY <1>i, <1>10 DEF FinishUndo, GoneInv, Undoings, At, DoneInv
  <2>3. rows[Undoing].undo \in {"none", "planned", "started", "completed", "quarantined"}
    BY <1>i, <1>s, <2>2, UndoingIs
  <2>4. \/ SetRow(Undoing, "status", "released")
        \/ \E v \in {"completed", "quarantined"} : SetRow(Undoing, "undo", v)
    BY <1>10, <2>3 DEF FinishUndo, Finished
  <2> QED BY <1>s, <2>1, <2>4, UndoneWrites, StatusWrites DEF RowFacts
<1>11. ASSUME NEW i \in Rows, CleanAllocation(i) PROVE RowFacts'
  BY <1>11, <1>s DEF CleanAllocation, RowFacts, Rows, journal, ProviderCleans,
    ProviderRefuses
<1>12. ASSUME NEW i \in Rows, ReleaseCleaned(i) PROVE RowFacts'
  BY <1>12, <1>s, StatusWrites DEF ReleaseCleaned, RowFacts, Rows, outside
<1>13. ASSUME CleanTarget PROVE RowFacts'
  BY <1>13, <1>s DEF CleanTarget, RowFacts, Rows, journal, Targets, Held, ProviderCleans,
    ProviderRefuses
<1>14. ASSUME ReleaseTarget PROVE RowFacts'
  BY <1>14, <1>s, StatusWrites DEF ReleaseTarget, RowFacts, Rows, outside, Targets, Held
<1>15. ASSUME QuarantineTarget PROVE RowFacts'
  BY <1>15, <1>s, StatusWrites DEF QuarantineTarget, RowFacts, Rows, outside, Targets, Held
<1>16. ASSUME Crash PROVE RowFacts'
  BY <1>16, <1>s DEF Crash, RowFacts, Rows, outside, journal
<1>17. ASSUME NEW i \in Rows, ServiceDies(i) PROVE RowFacts'
  BY <1>17, <1>s DEF ServiceDies, RowFacts, Rows, journal
<1> QED BY <1>e, <1>1, <1>2, <1>3, <1>4, <1>5, <1>6, <1>7, <1>8, <1>9, <1>10, <1>11, <1>12,
  <1>13, <1>14, <1>15, <1>16, <1>17, Zenon DEF Next, EngineStep, PrepareStep, CleanupStep,
  RemedyStep, Call, Environment, Elsewhere

-----------------------------------------------------------------------------
(* The invariant and what follows from it.                                 *)

\* Every step keeps what is said of rows.
LEMMA RowsSteps ==
  ASSUME IInv, Next PROVE RowsInv' /\ DoneInv' /\ NewInv' /\ GoneInv'
<1>1. CASE Elsewhere
  BY <1>1, CalmSteps, CalmKeeps
<1>2. CASE \/ \E a \in Attempts : Rehydrate(a)
           \/ \E i \in Rows : \/ ReleaseUnused(i) \/ Reattach(i) \/ CleanAllocation(i)
                              \/ ReleaseCleaned(i) \/ ServiceDies(i)
           \/ AcquireAllocation \/ PlanActivation \/ Activate \/ FinishActivation
           \/ PlanUndo \/ UndoActivation \/ FinishUndo
           \/ CleanTarget \/ ReleaseTarget \/ QuarantineTarget \/ Crash
  BY <1>2, RehydrateKeeps, ReleaseUnusedKeeps, ReattachKeeps, CleanAllocationKeeps,
    ReleaseCleanedKeeps, ServiceDiesKeeps, AcquireAllocationKeeps, PlanActivationKeeps,
    ActivateKeeps, FinishActivationKeeps, PlanUndoKeeps, UndoActivationKeeps,
    FinishUndoKeeps, CleanTargetKeeps, ReleaseTargetKeeps, QuarantineTargetKeeps,
    CrashKeeps, Zenon
<1> QED BY <1>1, <1>2, Zenon DEF Next, EngineStep, PrepareStep, CleanupStep, RemedyStep,
  Call, Environment, Elsewhere

\* Initially nothing is prepared.
LEMMA InvStarts == Init => IInv
<1> SUFFICES ASSUME Init PROVE IInv
  OBVIOUS
<1>1. /\ engine = Idle /\ engine \in EngineType /\ engine.at = "idle" /\ engine.done = <<>>
      /\ engine.why = "none" /\ engine.remedy = "none"
  BY IdleType DEF Init, Idle
<1>2. rows = <<>> /\ known = {} /\ live = {} /\ requests = {} /\ active = FALSE
  BY DEF Init
<1>3. Rows = {} /\ rows \in Seq(RowType)
  BY <1>2 DEF Rows
<1>4. creates \in [Attempts -> Seq(MutationStatuses)]
  BY DEF Init
<1>5. TypeOK
  <2>1. \A a \in Attempts : creates[a] \in Seq({"planned", "started", "failed", "completed"})
    BY <1>4 DEF MutationStatuses
  <2>5. created \in 0 .. MaxAttempts
    BY BoundsAssumption DEF Init
  <2>6. active = FALSE /\ terminal = FALSE /\ uncertain = FALSE /\ late = FALSE
    BY DEF Init
  <2>2. /\ {active, terminal, uncertain, late} \subseteq BOOLEAN
        /\ readied \in [Attempts -> BOOLEAN] /\ tree \in {"absent", "clean", "dirty", "changed"}
    BY <2>6 DEF Init
  <2>3. /\ preparation \in [Attempts -> {"none", "preparing", "busy", "ready", "failed",
                                         "needs_attention", "canceled"}]
        /\ workspace \in [status : {"none", "active", "cleanup_pending", "cleaned", "quarantined"},
                          policy : {"none", "retain", "quarantine"}]
        /\ plan \in [open : BOOLEAN, initial : BOOLEAN,
                     keyed : SUBSET {"cleanup_pending", "quarantined", "cleaned"}]
    BY DEF Init
  <2>4. requests \subseteq RequestType /\ known \subseteq Rows /\ live \subseteq Rows
    BY <1>2
  <2> QED BY <1>1, <1>3, <2>1, <2>2, <2>3, <2>4, <2>5 DEF TypeOK, EngineType, Places, Whys
<1>6. RowsInv
  BY <1>2, <1>3 DEF RowsInv, OneHolder, UndoneIsGone, KnownIsReady, LiveIsAccounted
<1>7. CallInv /\ NewInv /\ GoneInv /\ CleanInv
  BY <1>1, <1>2 DEF CallInv, NewInv, GoneInv, CleanInv, At, Beginning, Before, After,
    Undoings, Cleaning, PrepareAt, CleanupAt, RemedyAt
<1>8. DoneInv
  BY <1>1 DEF DoneInv, DoneRows, Before, After
<1> QED BY <1>1, <1>4, <1>5, <1>6, <1>7, <1>8 DEF IInv, Typed

\* Every step keeps the types.
LEMMA TypeSteps == ASSUME IInv, Next PROVE Typed'
<1>1. PlaceTyped' /\ KeepTyped' /\ FlowTyped' /\ RowFacts' /\ engine' \in EngineType
  BY PlaceSteps, KeepSteps, FlowSteps, RowSteps, EngineSteps
<1>2. \A a \in Attempts : creates'[a] \in Seq(MutationStatuses)
  BY <1>1 DEF PlaceTyped
<1>3. TypeOK'
  BY <1>1, <1>2 DEF TypeOK, PlaceTyped, KeepTyped, FlowTyped, RowFacts, EngineType, Places,
    Whys, MutationStatuses
<1> QED BY <1>1, <1>3 DEF Typed, PlaceTyped

\* The invariant is inductive.
LEMMA InvSteps == IInv /\ [Next]_vars => IInv'
<1> SUFFICES ASSUME IInv, [Next]_vars PROVE IInv'
  OBVIOUS
<1>1. CASE Next
  BY <1>1, TypeSteps, RowsSteps, ControlSteps DEF IInv
<1>2. CASE UNCHANGED vars
  <2>1. UNCHANGED <<created, active, terminal, uncertain, preparation, readied, creates, rows,
                    workspace, plan, requests, late, engine, known, live, tree>>
    BY <1>2 DEF vars, workflow, journal, upkeep, outside
  <2>2. Typed'
    BY <2>1 DEF IInv, Typed, TypeOK, Rows
  <2>3. RowsInv' /\ DoneInv' /\ NewInv' /\ GoneInv'
    <3>1. Calm
      BY <2>1 DEF Calm
    <3> QED BY <3>1, CalmKeeps
  <2>4. CallInv' /\ CleanInv'
    BY <2>1 DEF IInv, CallInv, CleanInv, At, Explicit, Outstanding, Rows
  <2> QED BY <2>2, <2>3, <2>4 DEF IInv
<1> QED BY <1>1, <1>2

\* The invariant holds of every behaviour.
LEMMA Invariant == Spec => []IInv
BY InvStarts, InvSteps, PTL DEF Spec

\* Type correctness of the preparation engine (preparation.py), for every list of
\* capabilities and every bound on attempts, rows and creations.
THEOREM PreparationTyped == Spec => []TypeOK
<1>1. IInv => TypeOK
  BY DEF IInv, Typed
<1> QED BY <1>1, Invariant, PTL

\* A process that an adapter started is never lost sight of: while it lives, its
\* row is held and its activation is started or completed in the journal, so that
\* some clean-up will stop it or ask about it, across crashes at every step.
THEOREM NothingRunsUnaccounted == Spec => []LiveIsAccounted
<1>1. IInv => LiveIsAccounted
  BY DEF IInv, RowsInv
<1> QED BY <1>1, Invariant, PTL

\* Only MarkPreparationReady makes a preparation ready, at the end of the loop over
\* the capabilities.
LEMMA ReadyOnlyWhole ==
  ASSUME IInv, Next, NEW a \in Attempts, preparation'[a] = "ready", preparation[a] # "ready"
  PROVE  /\ At("capability") /\ engine.k > Len(Capabilities) /\ a = created
         /\ ~Incomplete(created)
<1>1. preparation \in [Attempts -> {"none", "preparing", "busy", "ready", "failed",
                                    "needs_attention", "canceled"}]
  BY DEF IInv, Typed, TypeOK
<1>2. CASE MarkPreparationReady
  BY <1>1, <1>2 DEF MarkPreparationReady, SetPreparation
<1>3. ASSUME ~MarkPreparationReady PROVE FALSE
  <2>1. \/ UNCHANGED preparation
        \/ \E s \in {"preparing", "busy", "failed", "needs_attention", "canceled"} : SetPreparation(s)
    <3>1. CASE PrepareStep
      BY <1>3, <3>1 DEF PrepareStep, PlanCreate, StartCreate, Materialize,
        RegisterWorkspace, FinishCreate, ReconcileWorkspace, AcquireAllocation,
        PlanActivation, Activate, FinishActivation, PlanUndo, UndoActivation, FinishUndo,
        RecordBusy, FailPreparation, OpenRequest, HoldPreparation, ReleaseUnused, Reattach
    <3>2. CASE CleanupStep \/ CleanTerminalWorkspace
      BY <3>2 DEF CleanupStep, CleanTerminalWorkspace, KeepWorkspace, AskToRelease,
        PlanCleanup, StepCleanup, RemoveWorktree, RemovalFails, FinishPlan, CleanAllocation,
        ReleaseCleaned
    <3>3. CASE RemedyStep
      BY <3>3 DEF RemedyStep, AnswerPreparation, CleanTarget, ReleaseTarget,
        SetCleanupPolicy, QuarantineTarget, HoldTree, ResolveRequest, OfferRelease
    <3>4. CASE \E b \in Attempts : Call(b)
      BY <3>4 DEF Call, BeginPreparation, ResumePreparation, AskExhausted, Rehydrate,
        SchedulerHolds, CleanupAttempt
    <3>5. CASE Environment
      BY <3>5 DEF Environment, StartAttempt, EndAttempt, EndExecution, Crash,
        DeadlinePasses, AgentWorks, ServiceDies, Remedy
    <3> QED BY <3>1, <3>2, <3>3, <3>4, <3>5, Zenon DEF Next, EngineStep
  <2> QED BY <1>1, <2>1 DEF SetPreparation
<1> QED BY <1>2, <1>3

\* There, the attempt holds a ready row with a handle for every capability.
LEMMA WholeWhenMarked ==
  ASSUME IInv, At("capability"), engine.k > Len(Capabilities), ~Incomplete(created),
         NEW k \in DOMAIN Capabilities
  PROVE  \E i \in HeldFor(created, Capabilities[k]) :
           /\ rows[i].ready /\ rows[i].activate = "completed" /\ rows[i].undo = "none"
           /\ i \in known
<1>1. /\ engine.done \in Seq(Nat) /\ Len(engine.done) = engine.k - 1 /\ DoneRows
      /\ \A j \in DOMAIN engine.done : Kept(j)
  BY DEF IInv, Typed, EngineType, DoneInv, At
<1>2. k \in DOMAIN engine.done
  <2>1. Len(Capabilities) \in Nat /\ k \in 1 .. Len(Capabilities) /\ engine.k \in Nat
    BY CapabilitiesAssumption DEF IInv, Typed, EngineType
  <2> QED BY <1>1, <2>1
<1> DEFINE i == engine.done[k]
<1>3. /\ i \in HeldFor(created, Capabilities[k]) /\ i \in Rows
      /\ rows[i].ready /\ rows[i].activate = "completed" /\ i \in known
      /\ rows[i].of = created /\ rows[i].status = "active"
  BY <1>1, <1>2 DEF HeldFor, Held, DoneRows, Kept
<1>4. rows[i].undo = "none"
  <2>1. rows[i] \in RowType
    BY <1>3 DEF IInv, Typed, TypeOK, Rows
  <2>2. rows[i].undo \in {"none", "completed"}
    BY <1>3, <2>1 DEF Incomplete, RowType
  <2>3. rows[i].undo # "completed"
    BY <1>3 DEF IInv, RowsInv, UndoneIsGone, At
  <2> QED BY <2>2, <2>3
<1> QED BY <1>3, <1>4

\* A preparation becomes ready only when the attempt holds, for every capability of
\* the workflow, an allocation that is ready, activated and not undone, and whose
\* handle the process has, whatever earlier calls, crashes and half-done
\* compensations left in the journal.
THEOREM ReadyMeansWhole == Spec => ReadyIsWhole
<1> DEFINE Whole(a) ==
      \A k \in DOMAIN Capabilities : \E i \in HeldFor(a, Capabilities[k]) :
         /\ rows[i].ready /\ rows[i].activate = "completed" /\ rows[i].undo = "none"
         /\ i \in known
<1>1. IInv /\ [Next]_vars =>
        \A a \in Attempts : preparation'[a] = "ready" /\ preparation[a] # "ready" => Whole(a)
  <2> SUFFICES ASSUME IInv, [Next]_vars, NEW a \in Attempts,
                      preparation'[a] = "ready", preparation[a] # "ready"
               PROVE  Whole(a)
    OBVIOUS
  <2>1. Next
    BY DEF vars
  <2>2. At("capability") /\ engine.k > Len(Capabilities) /\ a = created /\ ~Incomplete(created)
    BY <2>1, ReadyOnlyWhole
  <2> QED BY <2>2, WholeWhenMarked
<1> QED BY <1>1, Invariant, PTL DEF Spec, ReadyIsWhole

\* Only RemoveWorktree deletes a worktree, and only a clean one.
LEMMA OnlyRemoveRemoves ==
  ASSUME Next, tree' = "absent", tree # "absent"
  PROVE  At("remove") /\ tree = "clean"
<1>1. CASE RemoveWorktree
  BY <1>1 DEF RemoveWorktree
<1>2. CASE Materialize
  BY <1>2 DEF Materialize
<1>3. CASE AgentWorks
  BY <1>3 DEF AgentWorks
<1>4. ASSUME ~RemoveWorktree, ~Materialize, ~AgentWorks PROVE UNCHANGED tree
  <2>1. CASE PrepareStep
    BY <1>4, <2>1 DEF PrepareStep, PlanCreate, StartCreate, RegisterWorkspace, FinishCreate,
      ReconcileWorkspace, AcquireAllocation, PlanActivation, Activate, FinishActivation,
      PlanUndo, UndoActivation, FinishUndo, RecordBusy, FailPreparation, OpenRequest,
      HoldPreparation, ReleaseUnused, Reattach, MarkPreparationReady, outside
  <2>2. CASE CleanupStep \/ CleanTerminalWorkspace
    BY <1>4, <2>2 DEF CleanupStep, CleanTerminalWorkspace, KeepWorkspace, AskToRelease,
      PlanCleanup, StepCleanup, RemovalFails, FinishPlan, CleanAllocation, ReleaseCleaned,
      outside
  <2>3. CASE RemedyStep
    BY <2>3 DEF RemedyStep, AnswerPreparation, CleanTarget, ReleaseTarget, SetCleanupPolicy,
      QuarantineTarget, HoldTree, ResolveRequest, OfferRelease, outside
  <2>4. CASE \E b \in Attempts : Call(b)
    BY <2>4 DEF Call, BeginPreparation, ResumePreparation, AskExhausted, Rehydrate,
      SchedulerHolds, CleanupAttempt, outside
  <2>5. CASE Environment
    BY <1>4, <2>5 DEF Environment, StartAttempt, EndAttempt, EndExecution, Crash,
      DeadlinePasses, ServiceDies, Remedy, outside
  <2> QED BY <2>1, <2>2, <2>3, <2>4, <2>5, Zenon DEF Next, EngineStep
<1> QED BY <1>1, <1>2, <1>3, <1>4

\* A worktree is removed only when it is clean, the execution is terminal,
\* no allocation is outstanding, and neither a policy nor an
\* uncertain runner keeps it, unless the operator said so explicitly: what
\* cleanup_workspace checked first still holds when the remover runs.
THEOREM RemovalWhenSafe == Spec => RemovalIsSafe
<1>1. IInv /\ [Next]_vars =>
        (tree' = "absent" /\ tree # "absent" =>
           /\ terminal /\ tree = "clean" /\ Outstanding = {}
           /\ (uncertain \/ workspace.policy # "none") => Explicit)
  <2> SUFFICES ASSUME IInv, [Next]_vars, tree' = "absent", tree # "absent"
               PROVE  /\ terminal /\ tree = "clean" /\ Outstanding = {}
                      /\ (uncertain \/ workspace.policy # "none") => Explicit
    OBVIOUS
  <2>1. Next
    BY DEF vars, outside
  <2>2. At("remove") /\ tree = "clean"
    BY <2>1, OnlyRemoveRemoves
  <2> QED BY <2>2 DEF IInv, CleanInv, At, Cleaning
<1> QED BY <1>1, Invariant, PTL DEF Spec, RemovalIsSafe
==============================================================================
