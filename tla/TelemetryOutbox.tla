--------------------------- MODULE TelemetryOutbox ---------------------------
(***************************************************************************)
(* Delivery of trace records to Logfire (factory/src/dotfactory/           *)
(* telemetry_delivery.py, telemetry.py): a range of records is frozen into *)
(* spans, dependencies and batches before anything is sent, batches are    *)
(* sent one after the other and sent again while their outcome is unknown, *)
(* and a record gets its receipt when its span and all owners of it are    *)
(* accepted.  The runtime's drain is the one sender; the process may die   *)
(* between any two transactions and come back with another configuration.  *)
(***************************************************************************)
EXTENDS Integers, Sequences, FiniteSets, SequencesExt, Selection

CONSTANTS
  Log,         \* the trace records in sequence: execution, owners and leaf span
  OptedOut,    \* executions whose frozen policy leaves Logfire out
  Malformed,   \* records that cannot be mapped to spans
  BatchSize,   \* spans per batch
  MaxRestarts, \* bound on crashes and restarts
  MaxExpired   \* bound on records that outlive the maximum delivery age

ASSUME LogAssumption ==
  Log \in Seq([run : {Log[n].run : n \in DOMAIN Log},
               owners : Seq(UNION {Range(Log[n].owners) : n \in DOMAIN Log}),
               leaf : {Log[n].leaf : n \in DOMAIN Log}])
\* ownership: a record names at most a state run, an attempt, a preparation, a runner
\* and the entity below its execution, and nothing twice.
ASSUME OwnersAssumption ==
  \A n \in DOMAIN Log :
    LET chain == <<Log[n].run>> \o Log[n].owners \o <<Log[n].leaf>> IN
    Len(Log[n].owners) <= 5 /\ \A j, k \in DOMAIN chain : chain[j] = chain[k] => j = k
ASSUME SizesAssumption ==
  /\ BatchSize \in Nat \ {0} /\ MaxRestarts \in Nat /\ MaxExpired \in Nat
  /\ Malformed \subseteq DOMAIN Log

VARIABLES
  recorded,  \* trace records written so far
  expired,   \* the first of them that are older than max_delivery_age_seconds
  setting,   \* the instance's configuration, as this process loaded it
  attempts,  \* projection_attempts, otlp_plan_failures and otlp_policy_blocks
  spans,     \* otlp_spans in the order they were frozen
  needed,    \* otlp_dependencies: which spans a record of an attempt needs
  batches,   \* otlp_batches by attempt
  bindings,  \* otlp_policy_bindings: the policy an attempt was frozen under
  receipts,  \* accepted projection_receipts
  skips,     \* otlp_policy_skips
  watermark, \* projection_watermarks
  sender,    \* where publish is
  remote,    \* spans Logfire has ingested
  restarts

source == <<recorded, expired>>
plan == <<attempts, spans, needed, batches, bindings>>
outcome == <<receipts, skips, watermark>>
process == <<setting, restarts>>
vars == <<source, plan, outcome, process, sender, remote>>

Settings == {"admitted", "metadata", "disabled"}
BatchStatus == {"pending", "in_flight", "accepted", "retryable", "blocked"}
SpanIds == UNION {{Log[n].run, Log[n].leaf} \cup Range(Log[n].owners) : n \in DOMAIN Log}
NoParent == "none"
ASSUME NoParentAssumption == NoParent \notin SpanIds
SpanType == [id : SpanIds, parent : SpanIds \cup {NoParent}, by : DOMAIN Log,
             view : {"admitted", "metadata"}]
Idle == [at |-> "idle", attempt |-> 0, batch |-> 0]

Init ==
  /\ recorded = 0 /\ expired = 0 /\ setting = "admitted"
  /\ attempts = <<>> /\ spans = <<>> /\ needed = {} /\ batches = <<>> /\ bindings = {}
  /\ receipts = {} /\ skips = {} /\ watermark = 0
  /\ sender = Idle /\ remote = {} /\ restarts = 0

TypeOK ==
  /\ recorded \in 0 .. Len(Log) /\ expired \in 0 .. recorded /\ setting \in Settings
  /\ attempts \in Seq([from : DOMAIN Log, through : DOMAIN Log,
                       status : {"running", "paused", "completed"}, frozen : BOOLEAN,
                       invalid : BOOLEAN, blocked : BOOLEAN])
  /\ Len(batches) = Len(attempts)
  /\ batches \in Seq(Seq([spans : Seq(SpanIds), status : BatchStatus, ambiguous : BOOLEAN]))
  /\ spans \in Seq([body : SpanType, accepted : BOOLEAN])
  /\ needed \subseteq ((DOMAIN attempts) \X (1 .. recorded) \X SpanIds)
  /\ bindings \subseteq ((DOMAIN attempts) \X {Log[n].run : n \in DOMAIN Log} \X Settings)
  /\ receipts \cup skips \subseteq ((DOMAIN attempts) \X (1 .. recorded))
  /\ watermark \in 0 .. recorded
  /\ sender \in [at : {"idle", "freeze", "next", "validate", "begin", "send", "ack",
                       "block", "retry"},
                 attempt : Nat, batch : Nat]
  /\ remote \subseteq SpanType

-----------------------------------------------------------------------------
(* Spans.                                                                  *)

At(step) == sender.at = step
Go(step) == sender' = [sender EXCEPT !.at = step]
Publish(a) == sender' = [at |-> "freeze", attempt |-> a, batch |-> 0]
Return == sender' = Idle
Attempt == sender.attempt
SetAttempt(attempt) == attempts' = [attempts EXCEPT ![Attempt] = attempt]

\* record_spans: the owners a record names, outermost first, and its observation.
Chain(n) == <<Log[n].run>> \o Log[n].owners \o <<Log[n].leaf>>

\* The places at which the records mention spans, in order: the k-th of record n is
\* at Depth * n + k.
Depth == 7
By(place) == (place - 1) \div Depth
RankAt(place) == ((place - 1) % Depth) + 1
Places == {p \in Depth + 1 .. Depth * (Len(Log) + 1) : RankAt(p) \in DOMAIN Chain(By(p))}
IdAt(place) == Chain(By(place))[RankAt(place)]
BodyAt(place) ==
  [id |-> IdAt(place),
   parent |-> IF RankAt(place) = 1 THEN NoParent ELSE Chain(By(place))[RankAt(place) - 1],
   by |-> By(place), view |-> setting]

Find(table, id) == CHOOSE k \in DOMAIN table : table[k].body.id = id
Frozen(id) == \E k \in DOMAIN spans : spans[k].body.id = id

\* The span and its owners, as they were frozen: what every set of spans holds that
\* has the span and the parent of each of its own.
IdsIn(table) == {table[k].body.id : k \in DOMAIN table}
HoldsParents(table, ids) ==
  \A k \in DOMAIN table :
    table[k].body.id \in ids /\ table[k].body.parent # NoParent => table[k].body.parent \in ids
Ancestry(table, id) ==
  LET families == {ids \in SUBSET IdsIn(table) : id \in ids /\ HoldsParents(table, ids)} IN
  {s \in IdsIn(table) : \A ids \in families : s \in ids}

AcceptedIn(table) == {table[k].body.id : k \in {j \in DOMAIN table : table[j].accepted}}

-----------------------------------------------------------------------------
(* authorize: may a record be sent?                                        *)

Expired(n) == n <= expired
\* Mutant: what cannot be mapped is left out too.
SkippableOrMalformed(n) == Log[n].run \in OptedOut \/ Expired(n) \/ n \in Malformed
\* A run that opted out, or a record too old, is left out; any other refusal
\* holds the whole range.
Skippable(n) == Log[n].run \in OptedOut \/ Expired(n)
Refused(n) == Log[n].run \notin OptedOut /\ setting = "disabled"

\* Every record of the executions in the range, older ones as context.
InRange(a) == attempts[a].from .. attempts[a].through
Read(a) ==
  {n \in 1 .. attempts[a].through : \E m \in InRange(a) : Log[m].run = Log[n].run}
Mapped(a) == {n \in Read(a) : ~Skippable(n)}

-----------------------------------------------------------------------------
(* Freezing a plan.                                                        *)

\* drain takes up what is not completed, or opens the range after the watermark.
Incomplete == {a \in DOMAIN attempts : attempts[a].status # "completed"}

Resume(a) ==
  /\ At("idle") /\ a \in Incomplete /\ ~attempts[a].invalid
  /\ Publish(a)
  /\ UNCHANGED <<source, plan, outcome, process, remote>>

\* Mutant: a range has a fixed size.
StartPage ==
  /\ At("idle") /\ Incomplete = {} /\ watermark < recorded
  /\ attempts' = Append(attempts,
       [from |-> watermark + 1, through |-> watermark + 2, status |-> "running",
        frozen |-> FALSE, invalid |-> FALSE, blocked |-> FALSE])
  /\ batches' = Append(batches, <<>>)
  /\ Publish(Len(attempts) + 1)
  /\ UNCHANGED <<source, spans, needed, bindings, outcome, process, remote>>

Start ==
  /\ At("idle") /\ Incomplete = {} /\ watermark < recorded
  /\ attempts' = Append(attempts,
       [from |-> watermark + 1, through |-> recorded, status |-> "running",
        frozen |-> FALSE, invalid |-> FALSE, blocked |-> FALSE])
  /\ batches' = Append(batches, <<>>)
  /\ Publish(Len(attempts) + 1)
  /\ UNCHANGED <<source, spans, needed, bindings, outcome, process, remote>>

\* The first mention of a span that is not frozen, in the order of the records.
Mentioned(a, id, before) == \E n \in Mapped(a) : n < before /\ id \in Range(Chain(n))
FreshPlaces(a) ==
  {p \in Places : By(p) \in Mapped(a) /\ ~Frozen(IdAt(p)) /\ ~Mentioned(a, IdAt(p), By(p))}
RowAt(place) == [body |-> BodyAt(place), accepted |-> FALSE]
RowsAt(places) == [k \in DOMAIN places |-> RowAt(places[k])]

\* INSERT OR IGNORE: the first frozen context of a span stays, its parent with it.
FrozenSpans(fresh) == spans \o RowsAt(Ascending(fresh))

Dependencies(a, table) ==
  UNION {{<<a, n, s>> : s \in Ancestry(table, Log[n].leaf)} : n \in Mapped(a) \cap InRange(a)}

\* Batches follow the order of freezing, owners before what they own.
Cut(queue) ==
  [k \in 1 .. (Len(queue) + BatchSize - 1) \div BatchSize |->
    [spans |-> SubSeq(queue, (k - 1) * BatchSize + 1,
                      IF k * BatchSize < Len(queue) THEN k * BatchSize ELSE Len(queue)),
     status |-> "pending", ambiguous |-> FALSE]]

Unsent(a, table, deps) ==
  LET ids == [k \in DOMAIN table |-> table[k].body.id] IN
  Select(ids, {k \in DOMAIN table :
                 ids[k] \notin AcceptedIn(table) /\ \E d \in deps : d[1] = a /\ d[3] = ids[k]})

\* Mutant: any accepted span counts.
CoverAny(a, table, deps) ==
  {<<a, n>> : n \in {m \in {d[2] : d \in deps} :
     \E d \in deps : d[1] = a /\ d[2] = m /\ d[3] \in AcceptedIn(table)}}

\* _cover: a receipt for every record all of whose spans are accepted.
Cover(a, table, deps) ==
  {<<a, n>> : n \in {m \in {d[2] : d \in deps} :
     /\ \E d \in deps : d[1] = a /\ d[2] = m
     /\ \A d \in deps : d[1] = a /\ d[2] = m => d[3] \in AcceptedIn(table)}}

Freeze ==
  /\ At("freeze") /\ ~attempts[Attempt].frozen
  /\ \A n \in Read(Attempt) : ~Refused(n) /\ (n \in Malformed => Skippable(n))
  /\ \E fresh \in {FreshPlaces(Attempt)} : \E table \in {FrozenSpans(fresh)} :
     \E deps \in {needed \cup Dependencies(Attempt, table)} :
     /\ spans' = table /\ needed' = deps
     /\ batches' = [batches EXCEPT ![Attempt] = Cut(Unsent(Attempt, table, deps))]
     /\ receipts' = receipts \cup Cover(Attempt, table, deps)
  /\ bindings' = bindings \cup {<<Attempt, Log[n].run, setting>> : n \in Mapped(Attempt)}
  /\ skips' = skips \cup
       {<<Attempt, n>> : n \in {m \in InRange(Attempt) : Skippable(m)}}
  /\ SetAttempt([attempts[Attempt] EXCEPT !.frozen = TRUE]) /\ Go("next")
  /\ UNCHANGED <<source, watermark, process, remote>>

\* A plan frozen before is not frozen again.
KeepPlan ==
  /\ At("freeze") /\ attempts[Attempt].frozen /\ Go("next")
  /\ UNCHANGED <<source, plan, outcome, process, remote>>

BlockPolicy ==
  SetAttempt([attempts[Attempt] EXCEPT !.blocked = TRUE, !.status = "paused"])

\* The transaction is undone: nothing of the plan remains.
FreezeRefused ==
  /\ At("freeze") /\ ~attempts[Attempt].frozen
  /\ \E n \in Read(Attempt) :
       /\ \A m \in Read(Attempt) : m < n => ~Refused(m) /\ (m \in Malformed => Skippable(m))
       /\ \/ Refused(n) /\ BlockPolicy
          \/ /\ ~Refused(n) /\ n \in Malformed /\ ~Skippable(n)
             /\ SetAttempt([attempts[Attempt] EXCEPT !.invalid = TRUE, !.status = "paused"])
  /\ Return
  /\ UNCHANGED <<source, spans, needed, batches, bindings, outcome, process, remote>>

-----------------------------------------------------------------------------
(* Sending batches.                                                        *)

Waiting(a) == {k \in DOMAIN batches[a] : batches[a][k].status # "accepted"}
First(S) == CHOOSE k \in S : \A j \in S : k <= j
Batch == batches[Attempt][sender.batch]
SetBatch(status, ambiguous) ==
  batches' = [batches EXCEPT ![Attempt] = [batches[Attempt] EXCEPT ![sender.batch] =
               [Batch EXCEPT !.status = status, !.ambiguous = ambiguous]]]

\* Mutant: what was sent once is not sent again.
NextUnsent ==
  /\ At("next") /\ Waiting(Attempt) # {}
  /\ LET k == First(Waiting(Attempt)) IN
     IF batches[Attempt][k].status # "pending" THEN Return
     ELSE sender' = [sender EXCEPT !.at = "validate", !.batch = k]
  /\ UNCHANGED <<source, plan, outcome, process, remote>>

NextBatch ==
  /\ At("next") /\ Waiting(Attempt) # {}
  /\ LET k == First(Waiting(Attempt)) IN
     IF batches[Attempt][k].status = "blocked" THEN Return
     ELSE sender' = [sender EXCEPT !.at = "validate", !.batch = k]
  /\ UNCHANGED <<source, plan, outcome, process, remote>>

\* validate_batch: the policy now, the policy it was frozen under, its redaction.
\* Redacting what was redacted changes nothing, whatever the policy says now.
Depending == {d[2] : d \in {e \in needed : e[1] = Attempt}}

\* Mutant: a payload is built anew whenever it is sent.
BodyAnew(id) ==
  BodyAt(Max({p \in Places : By(p) <= recorded /\ IdAt(p) = id}))

Body(id) == spans[Find(spans, id)].body

Valid ==
  /\ setting # "disabled" /\ \A n \in Depending : ~Expired(n)
  /\ \A b \in bindings : b[1] = Attempt => b[3] = setting
  /\ \A k \in DOMAIN Batch.spans :
       setting = "metadata" => Body(Batch.spans[k]).view = "metadata"

\* Mutant: a plan that was allowed when it was frozen is not looked at again.
ValidateNothing ==
  /\ At("validate") /\ Go("begin")
  /\ UNCHANGED <<source, plan, outcome, process, remote>>

ValidateBatch ==
  /\ At("validate")
  /\ \/ Valid /\ SetAttempt([attempts[Attempt] EXCEPT !.blocked = FALSE]) /\ Go("begin")
     \/ ~Valid /\ BlockPolicy /\ Return
  /\ UNCHANGED <<source, spans, needed, batches, bindings, outcome, process, remote>>

\* The outcome of the delivery before this one stays until this one has its own.
BeginDelivery ==
  /\ At("begin") /\ SetBatch("in_flight", Batch.ambiguous)
  /\ SetAttempt([attempts[Attempt] EXCEPT !.status = "running"]) /\ Go("send")
  /\ UNCHANGED <<source, spans, needed, bindings, outcome, process, remote>>

Sent == {Body(Batch.spans[k]) : k \in DOMAIN Batch.spans}

\* All of it is accepted.
SendAccepted ==
  /\ At("send") /\ remote' = remote \cup Sent /\ Go("ack")
  /\ UNCHANGED <<source, plan, outcome, process>>

\* Some of it is accepted and nobody says which; or nothing, for good; or the
\* answer makes no sense.
SendRefused ==
  /\ At("send") /\ \E part \in SUBSET Sent : remote' = remote \cup part
  /\ Go("block")
  /\ UNCHANGED <<source, plan, outcome, process>>

\* Logfire is busy, or the answer is lost.
SendUnknown ==
  /\ At("send") /\ remote' \in {remote, remote \cup Sent} /\ Go("retry")
  /\ UNCHANGED <<source, plan, outcome, process>>

Acknowledge ==
  /\ At("ack")
  /\ \E table \in {[k \in DOMAIN spans |->
           IF spans[k].body.id \in Range(Batch.spans)
           THEN [spans[k] EXCEPT !.accepted = TRUE] ELSE spans[k]]} :
     /\ spans' = table
     /\ receipts' = receipts \cup Cover(Attempt, table, needed)
  /\ SetBatch("accepted", FALSE) /\ Go("next")
  /\ UNCHANGED <<source, attempts, needed, bindings, skips, watermark, process, remote>>

Reject ==
  /\ \/ At("block") /\ \E ambiguous \in BOOLEAN : SetBatch("blocked", ambiguous)
     \/ At("retry") /\ \E ambiguous \in BOOLEAN : SetBatch("retryable", ambiguous)
  /\ SetAttempt([attempts[Attempt] EXCEPT !.status = "paused"]) /\ Return
  /\ UNCHANGED <<source, spans, needed, bindings, outcome, process, remote>>

Settled(n) == \E a \in DOMAIN attempts : <<a, n>> \in receipts \cup skips

\* A range may end before a record nobody has settled.
Finish ==
  /\ At("next") /\ Waiting(Attempt) = {}
  /\ \A n \in InRange(Attempt) : <<Attempt, n>> \in receipts \cup skips
  /\ SetAttempt([attempts[Attempt] EXCEPT !.status = "completed", !.blocked = FALSE])
  /\ watermark' = LET gaps == {n \in 1 .. recorded : ~Settled(n)} IN
                  IF gaps = {} THEN recorded ELSE First(gaps) - 1
  /\ Return
  /\ UNCHANGED <<source, spans, needed, batches, bindings, receipts, skips, process, remote>>

-----------------------------------------------------------------------------
(* The surroundings.                                                       *)

Record ==
  /\ recorded < Len(Log) /\ recorded' = recorded + 1
  /\ UNCHANGED <<expired, plan, outcome, process, sender, remote>>

Expire ==
  /\ expired < recorded /\ expired < MaxExpired /\ expired' = expired + 1
  /\ UNCHANGED <<recorded, plan, outcome, process, sender, remote>>

Restart ==
  /\ restarts < MaxRestarts /\ restarts' = restarts + 1
  /\ setting' \in Settings /\ Return
  /\ UNCHANGED <<source, plan, outcome, remote>>

SenderStep ==
  \/ (\E a \in DOMAIN attempts : Resume(a)) \/ Start
  \/ Freeze \/ KeepPlan \/ FreezeRefused
  \/ NextBatch \/ ValidateBatch \/ BeginDelivery \/ SendAccepted \/ SendRefused
  \/ SendUnknown \/ Acknowledge \/ Reject \/ Finish

Next == SenderStep \/ Record \/ Expire \/ Restart

Spec == Init /\ [][Next]_vars

\* The runtime drains in every step of its loop, and a batch that is sent again
\* and again is accepted at last, or refused.
Fairness == WF_vars(SenderStep) /\ SF_vars(SendAccepted \/ SendRefused)

FairSpec == Spec /\ Fairness

-----------------------------------------------------------------------------
(* projection_health: what the operator sees of a record.                  *)

Rank(status) ==
  CASE status \in {"pending", "accepted"} -> 0 [] status = "retryable" -> 1
    [] status \in {"in_flight", "ambiguous"} -> 2 [] OTHER -> 3
Shown(batch) == IF batch.ambiguous THEN "ambiguous" ELSE batch.status

DeliveryStatus(a) ==
  IF attempts[a].blocked THEN "policy_blocked"
  ELSE IF attempts[a].invalid THEN "blocked"
  ELSE FoldLeft(LAMBDA worst, batch :
                  IF Rank(Shown(batch)) >= Rank(worst) /\ Shown(batch) # "accepted"
                  THEN Shown(batch) ELSE worst,
                "pending", batches[a])

\* An attempt that is neither frozen nor invalid is not shown.
Owners(n) == {a \in DOMAIN attempts : n \in InRange(a) /\ (attempts[a].frozen \/ attempts[a].invalid)}

Health(n) ==
  IF \E a \in DOMAIN attempts : <<a, n>> \in receipts THEN "confirmed"
  ELSE IF \E a \in DOMAIN attempts : <<a, n>> \in skips THEN "policy_skipped"
  ELSE IF Owners(n) = {} THEN "pending"
  ELSE DeliveryStatus(CHOOSE a \in Owners(n) : \A b \in Owners(n) : b <= a)

-----------------------------------------------------------------------------
(* Properties.                                                             *)

\* No receipt without evidence: what is recorded as delivered is at Logfire with
\* all of its owners, whatever was lost, refused in part or sent twice.
ReceiptsAreEvidence ==
  \A r \in receipts : \A s \in Ancestry(spans, Log[r[2]].leaf) : \E b \in remote : b.id = s

\* Logfire never sees two versions of one span, over all ranges, retries and
\* restarts, and none without its owner, unless it accepted only a part of the
\* batch that held both.
OneOwnedBodyPerSpan ==
  /\ \A b, c \in remote : b.id = c.id => b = c
  /\ \A b \in remote :
       \/ b.parent = NoParent \/ \E c \in remote : c.id = b.parent
       \/ \E a \in DOMAIN batches : \E k \in DOMAIN batches[a] :
            {b.id, b.parent} \subseteq Range(batches[a][k].spans)

\* What leaves the machine never says more than the configuration of the sending
\* process allows, also when it was frozen under another: nothing when Logfire is
\* disabled, nothing unredacted under metadata, nothing of a run that opted out.
\* (A span frozen under metadata stays redacted when it is sent under admitted.)
EgressIsAllowed ==
  [][\A b \in remote' \ remote : /\ setting # "disabled"
                                 /\ setting = "metadata" => b.view = "metadata"
                                 /\ Log[b.by].run \notin OptedOut]_vars

\* The watermark passes no record that is neither delivered nor meant to be left
\* out.  (A consequence of KeepsDeliveryPromise, which the run checks.)
WatermarkSkipsNothing ==
  \A n \in 1 .. watermark :
    \/ \E a \in DOMAIN attempts : <<a, n>> \in receipts
    \/ Log[n].run \in OptedOut \/ Expired(n)

\* Every record is decided once, on evidence or for a reason, and the watermark
\* moves over decided records only: the outbox implements DeliveryPromise.
Delivered == {r[2] : r \in receipts}
Omitted == {s[2] : s \in skips}

Promise == INSTANCE DeliveryPromise WITH delivered <- Delivered, omitted <- Omitted
KeepsDeliveryPromise == Promise!Spec

\* A delivery is held back for somebody to decide, and the operator is shown so
\* of every record it holds.  (A refusal while freezing leaves no plan, and is
\* not shown.)
HeldBack(a) ==
  \/ attempts[a].blocked /\ ~attempts[a].frozen
  \/ /\ \/ attempts[a].invalid \/ attempts[a].blocked
        \/ \E k \in DOMAIN batches[a] : batches[a][k].status = "blocked"
     /\ \A n \in InRange(a) : Health(n) \in
          {"confirmed", "policy_skipped", "policy_blocked", "blocked", "ambiguous"}

\* Again and again everything recorded is delivered or left out, or its delivery
\* is visibly held back.
Held == \E a \in Incomplete : HeldBack(a)
RecordsAreDelivered == []<>(watermark = recorded \/ Held)
=============================================================================
