------------------------- MODULE TelemetryOutbox_proofs -------------------------
(***************************************************************************)
(* What the delivery of trace records keeps for every log, batch size,     *)
(* policy and number of restarts: type correctness, ReceiptsAreEvidence,   *)
(* OneOwnedBodyPerSpan, WatermarkSkipsNothing and EgressIsAllowed.         *)
(*                                                                         *)
(* Everything rests on the order in which spans are frozen (OwnersFirst):  *)
(* each once, after its owner.  Then dependencies recorded earlier stay    *)
(* complete when the table goes on (AncestryKept, Covers), batches cut     *)
(* from it hold owners no later than what they own (Queued), and the       *)
(* sender, who takes up a batch only when all before it are accepted       *)
(* (SenderTyped), sends nothing before its owner.                          *)
(*                                                                         *)
(* The outbox implements DeliveryPromise because ranges follow one another *)
(* and freezing a range decides which of its records are sent and which    *)
(* are left out (DecidedInv).                                              *)
(***************************************************************************)
EXTENDS TelemetryOutbox, Selection_proofs

\* The sender works on an attempt there is, and on its first batch that is not
\* accepted.
SenderTyped ==
  /\ sender.at # "idle" => Attempt \in DOMAIN attempts
  /\ sender.at \in {"validate", "begin", "send", "ack", "block", "retry"} =>
       /\ sender.batch \in DOMAIN batches[Attempt]
       /\ \A k \in 1 .. sender.batch - 1 : batches[Attempt][k].status = "accepted"

\* A range was recorded when it was opened, and has no batches before it is frozen.
RangesTyped ==
  \A a \in DOMAIN attempts :
    /\ attempts[a].from <= attempts[a].through /\ attempts[a].through <= recorded
    /\ ~attempts[a].frozen => batches[a] = <<>>

\* A span is frozen once, after its owner, and never for a run that opted out.
OwnersFirst(table) ==
  /\ \A j, k \in DOMAIN table : table[j].body.id = table[k].body.id => j = k
  /\ \A k \in DOMAIN table :
       /\ \/ table[k].body.parent = NoParent
          \/ \E j \in 1 .. k - 1 : table[j].body.id = table[k].body.parent
       /\ Log[table[k].body.by].run \notin OptedOut

\* What a record of an attempt depends on holds its frozen span with all owners of it,
\* and the owner of whatever it holds.
Covers(deps, table) ==
  \A d \in deps :
    /\ Log[d[2]].leaf \in IdsIn(table) /\ d[3] \in IdsIn(table)
    /\ \A s \in Ancestry(table, Log[d[2]].leaf) : <<d[1], d[2], s>> \in deps
    /\ \A k \in DOMAIN table :
         table[k].body.id = d[3] /\ table[k].body.parent # NoParent =>
           <<d[1], d[2], table[k].body.parent>> \in deps

\* Batches hold frozen spans; those of an accepted batch are accepted; and the owner
\* of a span in a batch is accepted, or in that batch or an earlier one.
Queued(queues, table) ==
  \A a \in DOMAIN queues : \A k \in DOMAIN queues[a] : \A i \in DOMAIN queues[a][k].spans :
    LET id == queues[a][k].spans[i] IN
    /\ id \in IdsIn(table)
    /\ queues[a][k].status = "accepted" => id \in AcceptedIn(table)
    /\ \A r \in DOMAIN table :
         table[r].body.id = id /\ table[r].body.parent # NoParent =>
           \/ table[r].body.parent \in AcceptedIn(table)
           \/ \E j \in 1 .. k : table[r].body.parent \in Range(queues[a][j].spans)

\* A receipt is for a frozen span that is accepted with all of its owners.
Covered(given, table) ==
  \A r \in given :
    /\ Log[r[2]].leaf \in IdsIn(table)
    /\ Ancestry(table, Log[r[2]].leaf) \subseteq AcceptedIn(table)

\* A row of otlp_spans.
SpanRow == [body : SpanType, accepted : BOOLEAN]

\* A row of otlp_batches.
BatchType == [spans : Seq(SpanIds), status : BatchStatus, ambiguous : BOOLEAN]

\* A table of spans goes on: what it holds stays, what is accepted stays accepted,
\* and what comes is new.
Continues(table, later) ==
  /\ \A k \in DOMAIN table :
       /\ k \in DOMAIN later /\ later[k].body = table[k].body
       /\ table[k].accepted => later[k].accepted
  /\ \A k \in DOMAIN later : k \in DOMAIN table \/ later[k].body.id \notin IdsIn(table)

\* The spans Logfire has.
RemoteIds == {b.id : b \in remote}

\* The batch at hand says no more than the configuration allows.
SentIsAllowed ==
  /\ setting # "disabled"
  /\ \A b \in Sent : setting = "metadata" => b.view = "metadata"

\* Accepted spans are at Logfire, which has them as they were frozen.  A batch whose
\* acceptance is not recorded yet is there already, and one that may be sent says no
\* more than the configuration allows.
EvidenceKnown ==
  /\ AcceptedIn(spans) \subseteq RemoteIds
  /\ \A b \in remote : \E k \in DOMAIN spans : spans[k].body = b
  /\ At("ack") => Sent \subseteq remote
  /\ At("begin") \/ At("send") => SentIsAllowed

\* The owner of a span is at Logfire, or was in a batch with it.
Owned(b) ==
  \/ b.parent = NoParent \/ b.parent \in RemoteIds
  \/ \E a \in DOMAIN batches : \E k \in DOMAIN batches[a] :
       {b.id, b.parent} \subseteq Range(batches[a][k].spans)

\* That holds of all it has.
OwnersAtHand == \A b \in remote : Owned(b)

\* Only what policy leaves out, or what is too old, is skipped.
SkipsAreMeant == \A s \in skips : Log[s[2]].run \in OptedOut \/ s[2] <= expired

\* All records up to the watermark are settled.
WatermarkSettled == \A n \in 1 .. watermark : Settled(n)

\* What makes the types and the promises inductive.
PlanInv ==
  /\ SenderTyped /\ RangesTyped
  /\ OwnersFirst(spans) /\ Covers(needed, spans)
  /\ Queued(batches, spans) /\ Covered(receipts, spans)
  /\ EvidenceKnown /\ OwnersAtHand /\ SkipsAreMeant /\ WatermarkSettled

\* The inductive invariant.
DeliveryInv == TypeOK /\ PlanInv

-----------------------------------------------------------------------------
(* The places at which records mention spans.                              *)

\* The log, its runs, owners and leaves.
LEMMA LogIs ==
  /\ Len(Log) \in Nat /\ DOMAIN Log = 1 .. Len(Log)
  /\ \A n \in DOMAIN Log :
       /\ Log[n].run \in SpanIds /\ Log[n].leaf \in SpanIds
       /\ Log[n].owners \in Seq(SpanIds)
<1> DEFINE Names == UNION {Range(Log[n].owners) : n \in DOMAIN Log}
           Runs == {Log[n].run : n \in DOMAIN Log}
           Leaves == {Log[n].leaf : n \in DOMAIN Log}
<1>1. Log \in Seq([run : Runs, owners : Seq(Names), leaf : Leaves])
  BY LogAssumption
<1>2. Names \subseteq SpanIds
  BY DEF SpanIds
<1>3. \A n \in DOMAIN Log : Log[n].run \in SpanIds /\ Log[n].leaf \in SpanIds
  BY DEF SpanIds
<1> HIDE DEF Names, Runs, Leaves
<1>4. Len(Log) \in Nat /\ DOMAIN Log = 1 .. Len(Log)
  BY <1>1
<1>5. \A n \in DOMAIN Log : Log[n].owners \in Seq(Names)
  <2> DEFINE Rows == [run : Runs, owners : Seq(Names), leaf : Leaves]
  <2>1. \A row \in Rows : row.owners \in Seq(Names)
    OBVIOUS
  <2>2. Log \in Seq(Rows)
    BY <1>1
  <2> HIDE DEF Rows
  <2> QED
    BY <2>1, <2>2, ElementOf
<1>6. \A n \in DOMAIN Log : Log[n].owners \in Seq(SpanIds)
  BY <1>2, <1>5
<1> QED
  BY <1>3, <1>4, <1>6

\* A record names two to seven spans, nothing twice, its own last.
LEMMA ChainIs ==
  ASSUME NEW n \in DOMAIN Log
  PROVE  /\ Chain(n) \in Seq(SpanIds) /\ Len(Chain(n)) \in 2 .. Depth
         /\ DOMAIN Chain(n) = 1 .. Len(Chain(n))
         /\ \A r \in DOMAIN Chain(n) : Chain(n)[r] \in SpanIds
         /\ Chain(n)[Len(Chain(n))] = Log[n].leaf
         /\ \A j, k \in DOMAIN Chain(n) : Chain(n)[j] = Chain(n)[k] => j = k
<1> DEFINE owners == Log[n].owners
           run == Log[n].run
           leaf == Log[n].leaf
<1>1. run \in SpanIds /\ leaf \in SpanIds /\ owners \in Seq(SpanIds) /\ Len(owners) <= 5
  BY LogIs, OwnersAssumption
<1>2. Chain(n) = <<run>> \o owners \o <<leaf>>
  BY DEF Chain
<1>3. \A j, k \in DOMAIN Chain(n) : Chain(n)[j] = Chain(n)[k] => j = k
  BY <1>2, OwnersAssumption
<1> HIDE DEF owners, run, leaf
<1>4. /\ Chain(n) \in Seq(SpanIds) /\ Len(Chain(n)) = Len(owners) + 2
      /\ Len(owners) \in Nat
      /\ Chain(n)[Len(owners) + 2] = leaf
  BY <1>1, <1>2
<1>5. DOMAIN Chain(n) = 1 .. Len(Chain(n)) /\ \A r \in DOMAIN Chain(n) : Chain(n)[r] \in SpanIds
  BY <1>4
<1> QED
  BY <1>1, <1>3, <1>4, <1>5 DEF Depth, leaf

\* The place of a record's mention.
LEMMA PlaceIs ==
  ASSUME NEW n \in DOMAIN Log, NEW r \in DOMAIN Chain(n)
  PROVE  /\ Depth * n + r \in Places /\ By(Depth * n + r) = n /\ RankAt(Depth * n + r) = r
         /\ IdAt(Depth * n + r) = Chain(n)[r]
<1> DEFINE p == Depth * n + r
<1>1. r \in 1 .. 7 /\ n \in 1 .. Len(Log) /\ Len(Log) \in Nat
  BY LogIs, ChainIs DEF Depth
<1>2. p = 7 * n + r
  BY DEF Depth
<1> HIDE DEF p
<1>3. p \in Int /\ (p - 1) \div 7 = n /\ ((p - 1) % 7) + 1 = r
  <2>1. (7 * n + r - 1) \div 7 = n /\ ((7 * n + r - 1) % 7) + 1 = r
    BY <1>1
  <2>2. p \in Int /\ p - 1 = 7 * n + r - 1
    BY <1>1, <1>2
  <2> QED
    BY <2>1, <2>2
<1>4. p \in 8 .. 7 * (Len(Log) + 1)
  BY <1>1, <1>2
<1>5. By(p) = n /\ RankAt(p) = r
  BY <1>3 DEF By, RankAt, Depth
<1>6. p \in Depth + 1 .. Depth * (Len(Log) + 1)
  BY <1>4 DEF Depth
<1>7. p \in Places /\ IdAt(p) = Chain(n)[r]
  BY <1>5, <1>6 DEF Places, IdAt
<1> QED
  BY <1>5, <1>7 DEF p

\* What is mentioned at a place.
LEMMA PlaceOf ==
  ASSUME NEW p \in Places
  PROVE  /\ p \in Nat /\ By(p) \in DOMAIN Log /\ RankAt(p) \in DOMAIN Chain(By(p))
         /\ RankAt(p) \in 1 .. Depth
         /\ p = Depth * By(p) + RankAt(p)
         /\ IdAt(p) \in SpanIds
<1>1. p \in 8 .. 7 * (Len(Log) + 1) /\ RankAt(p) \in DOMAIN Chain(By(p)) /\ Len(Log) \in Nat
  BY LogIs DEF Places, Depth
<1>2. /\ p \in Nat /\ (p - 1) \div 7 \in 1 .. Len(Log)
      /\ p = 7 * ((p - 1) \div 7) + ((p - 1) % 7) + 1
      /\ (p - 1) % 7 \in 0 .. 6
  BY <1>1
<1>3. By(p) \in DOMAIN Log /\ p = Depth * By(p) + RankAt(p) /\ RankAt(p) \in 1 .. Depth
  BY <1>2, LogIs DEF By, RankAt, Depth
<1> QED
  BY <1>1, <1>2, <1>3, ChainIs DEF IdAt

-----------------------------------------------------------------------------
(* What a table of spans keeps when it goes on.                            *)

\* An ancestry holds the frozen owner of whatever it holds.
LEMMA AncestryHolds ==
  ASSUME NEW table, NEW id
  PROVE  /\ Ancestry(table, id) \subseteq IdsIn(table)
         /\ \A k \in DOMAIN table :
              /\ table[k].body.id \in Ancestry(table, id)
              /\ table[k].body.parent # NoParent /\ table[k].body.parent \in IdsIn(table)
              => table[k].body.parent \in Ancestry(table, id)
BY DEF Ancestry, HoldsParents

\* A table that goes on loses nothing.
LEMMA ContinuesIs ==
  ASSUME NEW table, NEW later, Continues(table, later)
  PROVE  /\ IdsIn(table) \subseteq IdsIn(later) /\ AcceptedIn(table) \subseteq AcceptedIn(later)
         /\ \A k \in DOMAIN later : later[k].body.id \in IdsIn(table) =>
              k \in DOMAIN table /\ later[k].body = table[k].body
BY DEF Continues, IdsIn, AcceptedIn

\* Owners are frozen.
LEMMA ParentsAreIn ==
  ASSUME NEW table \in Seq(SpanRow), OwnersFirst(table)
  PROVE  \A k \in DOMAIN table :
           table[k].body.parent # NoParent => table[k].body.parent \in IdsIn(table)
<1>1. Len(table) \in Nat /\ DOMAIN table = 1 .. Len(table)
  OBVIOUS
<1>2. \A k \in DOMAIN table : \A j \in 1 .. k - 1 : j \in DOMAIN table
  BY <1>1
<1> QED
  BY <1>2 DEF OwnersFirst, IdsIn

\* The ancestry of a frozen span does not grow.
LEMMA AncestryKept ==
  ASSUME NEW table \in Seq(SpanRow), OwnersFirst(table), NEW later, Continues(table, later),
         NEW id \in IdsIn(table)
  PROVE  Ancestry(later, id) \subseteq Ancestry(table, id)
<1> DEFINE A == Ancestry(table, id)
<1>1. A \subseteq IdsIn(table) /\ A \subseteq IdsIn(later)
  BY AncestryHolds, ContinuesIs
<1>2. id \in A
  BY DEF Ancestry
<1>3. HoldsParents(later, A)
  <2> SUFFICES ASSUME NEW k \in DOMAIN later, later[k].body.id \in A,
                      later[k].body.parent # NoParent
               PROVE  later[k].body.parent \in A
    BY DEF HoldsParents
  <2>1. k \in DOMAIN table /\ later[k].body = table[k].body
    BY <1>1, ContinuesIs
  <2>2. table[k].body.parent \in IdsIn(table)
    BY <2>1, ParentsAreIn
  <2> QED
    BY <2>1, <2>2, AncestryHolds
<1> HIDE DEF A
<1>4. Ancestry(later, id) \subseteq A
  BY <1>1, <1>2, <1>3 DEF Ancestry
<1> QED
  BY <1>4 DEF A

\* Dependencies stay complete.
LEMMA CoversKept ==
  ASSUME NEW table \in Seq(SpanRow), OwnersFirst(table), NEW later, Continues(table, later),
         NEW deps, Covers(deps, table)
  PROVE  Covers(deps, later)
<1> SUFFICES ASSUME NEW d \in deps
             PROVE  /\ Log[d[2]].leaf \in IdsIn(later) /\ d[3] \in IdsIn(later)
                    /\ \A s \in Ancestry(later, Log[d[2]].leaf) : <<d[1], d[2], s>> \in deps
                    /\ \A k \in DOMAIN later :
                         later[k].body.id = d[3] /\ later[k].body.parent # NoParent =>
                           <<d[1], d[2], later[k].body.parent>> \in deps
  BY DEF Covers
<1>1. /\ Log[d[2]].leaf \in IdsIn(table) /\ d[3] \in IdsIn(table)
      /\ \A s \in Ancestry(table, Log[d[2]].leaf) : <<d[1], d[2], s>> \in deps
      /\ \A k \in DOMAIN table :
           table[k].body.id = d[3] /\ table[k].body.parent # NoParent =>
             <<d[1], d[2], table[k].body.parent>> \in deps
  BY DEF Covers
<1>2. Ancestry(later, Log[d[2]].leaf) \subseteq Ancestry(table, Log[d[2]].leaf)
  BY <1>1, AncestryKept
<1> QED
  BY <1>1, <1>2, ContinuesIs

\* Batches stay in order.
LEMMA QueuedKept ==
  ASSUME NEW table, NEW later, Continues(table, later), NEW queues, Queued(queues, table)
  PROVE  Queued(queues, later)
<1> SUFFICES ASSUME NEW a \in DOMAIN queues, NEW k \in DOMAIN queues[a],
                    NEW i \in DOMAIN queues[a][k].spans, NEW id, id = queues[a][k].spans[i]
             PROVE  /\ id \in IdsIn(later)
                    /\ queues[a][k].status = "accepted" => id \in AcceptedIn(later)
                    /\ \A r \in DOMAIN later :
                         later[r].body.id = id /\ later[r].body.parent # NoParent =>
                           \/ later[r].body.parent \in AcceptedIn(later)
                           \/ \E j \in 1 .. k : later[r].body.parent \in Range(queues[a][j].spans)
  BY DEF Queued
<1>1. /\ id \in IdsIn(table)
      /\ queues[a][k].status = "accepted" => id \in AcceptedIn(table)
      /\ \A r \in DOMAIN table :
           table[r].body.id = id /\ table[r].body.parent # NoParent =>
             \/ table[r].body.parent \in AcceptedIn(table)
             \/ \E j \in 1 .. k : table[r].body.parent \in Range(queues[a][j].spans)
  BY DEF Queued
<1> QED
  BY <1>1, ContinuesIs

\* Receipts stay justified.
LEMMA CoveredKept ==
  ASSUME NEW table \in Seq(SpanRow), OwnersFirst(table), NEW later, Continues(table, later),
         NEW given, Covered(given, table)
  PROVE  Covered(given, later)
<1> SUFFICES ASSUME NEW r \in given
             PROVE  /\ Log[r[2]].leaf \in IdsIn(later)
                    /\ Ancestry(later, Log[r[2]].leaf) \subseteq AcceptedIn(later)
  BY DEF Covered
<1>1. /\ Log[r[2]].leaf \in IdsIn(table)
      /\ Ancestry(table, Log[r[2]].leaf) \subseteq AcceptedIn(table)
  BY DEF Covered
<1> QED
  BY <1>1, AncestryKept, ContinuesIs

\* _cover gives only justified receipts.
LEMMA CoverIs ==
  ASSUME NEW table, NEW deps, Covers(deps, table), NEW a
  PROVE  Covered(Cover(a, table, deps), table)
<1> SUFFICES ASSUME NEW r \in Cover(a, table, deps)
             PROVE  /\ Log[r[2]].leaf \in IdsIn(table)
                    /\ Ancestry(table, Log[r[2]].leaf) \subseteq AcceptedIn(table)
  BY DEF Covered
<1>1. PICK n \in {d[2] : d \in deps} :
        /\ r = <<a, n>>
        /\ \E d \in deps : d[1] = a /\ d[2] = n
        /\ \A d \in deps : d[1] = a /\ d[2] = n => d[3] \in AcceptedIn(table)
  BY DEF Cover
<1>2. PICK d \in deps : d[1] = a /\ d[2] = n
  BY <1>1
<1>3. r[2] = n
  BY <1>1
<1>4. /\ Log[n].leaf \in IdsIn(table)
      /\ \A s \in Ancestry(table, Log[n].leaf) : <<a, n, s>> \in deps
  BY <1>2 DEF Covers
<1>5. \A s \in Ancestry(table, Log[n].leaf) : s \in AcceptedIn(table)
  <2> SUFFICES ASSUME NEW s \in Ancestry(table, Log[n].leaf) PROVE s \in AcceptedIn(table)
    OBVIOUS
  <2> DEFINE e == <<a, n, s>>
  <2>1. e[1] = a /\ e[2] = n /\ e[3] = s /\ e \in deps
    BY <1>4
  <2> HIDE DEF e
  <2> QED
    BY <2>1, <1>1
<1> QED
  BY <1>3, <1>4, <1>5

\* freeze records complete dependencies.
LEMMA DependenciesIs ==
  ASSUME NEW table \in Seq(SpanRow), OwnersFirst(table), NEW a,
         \A n \in Mapped(a) : Log[n].leaf \in IdsIn(table)
  PROVE  /\ Covers(Dependencies(a, table), table)
         /\ \A d \in Dependencies(a, table) :
              \E n \in Mapped(a) \cap InRange(a) : \E s \in IdsIn(table) : d = <<a, n, s>>
<1> DEFINE deps == Dependencies(a, table)
<1>1. \A d \in deps : \E n \in Mapped(a) \cap InRange(a) :
        \E s \in Ancestry(table, Log[n].leaf) : d = <<a, n, s>>
  BY DEF Dependencies
<1>2. \A n \in Mapped(a) \cap InRange(a) : \A s \in Ancestry(table, Log[n].leaf) :
        <<a, n, s>> \in deps
  BY DEF Dependencies
<1> HIDE DEF deps
<1>3. ASSUME NEW d \in deps
      PROVE  /\ Log[d[2]].leaf \in IdsIn(table) /\ d[3] \in IdsIn(table)
             /\ \A s \in Ancestry(table, Log[d[2]].leaf) : <<d[1], d[2], s>> \in deps
             /\ \A k \in DOMAIN table :
                  table[k].body.id = d[3] /\ table[k].body.parent # NoParent =>
                    <<d[1], d[2], table[k].body.parent>> \in deps
  <2>1. PICK n \in Mapped(a) \cap InRange(a) : \E s \in Ancestry(table, Log[n].leaf) :
          d = <<a, n, s>>
    BY <1>1, <1>3
  <2>2. d[1] = a /\ d[2] = n /\ d[3] \in Ancestry(table, Log[n].leaf)
    BY <2>1
  <2>3. d[3] \in IdsIn(table)
    BY <2>2, AncestryHolds
  <2>4. \A s \in Ancestry(table, Log[n].leaf) : <<d[1], d[2], s>> \in deps
    BY <1>2, <2>2
  <2>5. \A k \in DOMAIN table :
          table[k].body.id = d[3] /\ table[k].body.parent # NoParent =>
            table[k].body.parent \in Ancestry(table, Log[n].leaf)
    BY <2>2, AncestryHolds, ParentsAreIn
  <2> QED
    BY <2>2, <2>3, <2>4, <2>5
<1>4. Covers(deps, table)
  BY <1>3 DEF Covers
<1> QED
  BY <1>1, <1>4, AncestryHolds DEF deps

-----------------------------------------------------------------------------
(* The spans a range freezes.                                              *)

\* Places follow the order of the records.
LEMMA ByGrows ==
  ASSUME NEW p \in Places, NEW q \in Places
  PROVE  By(p) < By(q) => p < q
<1>1. /\ By(p) \in Nat /\ By(q) \in Nat /\ RankAt(p) \in 1 .. 7 /\ RankAt(q) \in 1 .. 7
      /\ p = 7 * By(p) + RankAt(p) /\ q = 7 * By(q) + RankAt(q)
  BY PlaceOf, LogIs DEF Depth
<1> QED
  BY <1>1

\* The first mentions of what is not frozen: each span once, and whatever a record
\* mentions is frozen or mentioned first at a place no later.
LEMMA FreshIs ==
  ASSUME NEW a, Mapped(a) \subseteq DOMAIN Log
  PROVE  /\ FreshPlaces(a) \subseteq Places /\ FreshPlaces(a) \subseteq Nat
         /\ IsFiniteSet(FreshPlaces(a))
         /\ \A p \in FreshPlaces(a) : By(p) \in Mapped(a) /\ ~Frozen(IdAt(p))
         /\ \A p, q \in FreshPlaces(a) : IdAt(p) = IdAt(q) => p = q
         /\ \A n \in Mapped(a) : \A r \in DOMAIN Chain(n) :
              \/ Frozen(Chain(n)[r])
              \/ \E p \in FreshPlaces(a) : p <= Depth * n + r /\ IdAt(p) = Chain(n)[r]
<1> DEFINE fresh == FreshPlaces(a)
<1>1. /\ fresh \subseteq Places
      /\ \A p \in fresh : /\ By(p) \in Mapped(a) /\ ~Frozen(IdAt(p))
                          /\ ~Mentioned(a, IdAt(p), By(p))
      /\ \A p \in Places : By(p) \in Mapped(a) /\ ~Frozen(IdAt(p))
                           /\ ~Mentioned(a, IdAt(p), By(p)) => p \in fresh
  BY DEF FreshPlaces
<1>2. fresh \subseteq Nat
  BY <1>1, PlaceOf
<1> HIDE DEF fresh
<1>3. IsFiniteSet(fresh)
  <2>1. Places \subseteq Depth + 1 .. Depth * (Len(Log) + 1)
    BY DEF Places
  <2>2. Depth + 1 \in Int /\ Depth * (Len(Log) + 1) \in Int
    BY LogIs DEF Depth
  <2> QED
    BY <1>1, <2>1, <2>2, FS_Interval, FS_Subset
<1>4. ASSUME NEW p \in fresh, NEW q \in fresh, IdAt(p) = IdAt(q), By(p) < By(q)
      PROVE  FALSE
  <2>1. p \in Places /\ By(p) \in DOMAIN Log /\ RankAt(p) \in DOMAIN Chain(By(p))
    BY <1>1, PlaceOf
  <2>2. IdAt(p) \in Range(Chain(By(p)))
    BY <2>1 DEF IdAt, Range
  <2>3. Mentioned(a, IdAt(q), By(q))
    BY <1>1, <1>4, <2>2 DEF Mentioned
  <2> QED
    BY <1>1, <2>3
<1>5. ASSUME NEW p \in fresh, NEW q \in fresh, IdAt(p) = IdAt(q) PROVE p = q
  <2>1. p \in Places /\ q \in Places
    BY <1>1
  <2>2. By(p) \in Nat /\ By(q) \in Nat /\ By(p) \in DOMAIN Log
    BY <2>1, PlaceOf, LogIs
  <2>3. By(p) = By(q)
    BY <1>4, <1>5, <2>2
  <2>4. RankAt(p) \in DOMAIN Chain(By(p)) /\ RankAt(q) \in DOMAIN Chain(By(p))
    BY <2>1, <2>3, PlaceOf
  <2>5. RankAt(p) = RankAt(q)
    BY <1>5, <2>2, <2>3, <2>4, ChainIs DEF IdAt
  <2> QED
    BY <2>1, <2>3, <2>5, PlaceOf
<1>6. ASSUME NEW n \in Mapped(a), NEW r \in DOMAIN Chain(n), ~Frozen(Chain(n)[r])
      PROVE  \E p \in fresh : p <= Depth * n + r /\ IdAt(p) = Chain(n)[r]
  <2> DEFINE id == Chain(n)[r]
             place == Depth * n + r
             S == {p \in Places : By(p) \in Mapped(a) /\ IdAt(p) = id}
  <2>1. place \in S
    BY PlaceIs
  <2>2. S \subseteq Nat
    BY PlaceOf
  <2>3. \A p \in S : p \in Places /\ By(p) \in Mapped(a) /\ IdAt(p) = id
    OBVIOUS
  <2>4. \A m \in Mapped(a) : \A k \in DOMAIN Chain(m) : Chain(m)[k] = id => Depth * m + k \in S
    BY PlaceIs
  <2>9. ~Frozen(id)
    BY <1>6
  <2> HIDE DEF S, id, place
  <2>5. PICK p \in S : \A q \in S : p <= q
    BY <2>1, <2>2, LeastIn
  <2>6. ~Mentioned(a, id, By(p))
    <3> SUFFICES ASSUME NEW m \in Mapped(a), m < By(p), id \in Range(Chain(m)) PROVE FALSE
      BY DEF Mentioned
    <3>1. PICK k \in DOMAIN Chain(m) : Chain(m)[k] = id
      BY DEF Range
    <3> DEFINE q == Depth * m + k
    <3>2. q \in S
      BY <3>1, <2>4
    <3>3. q \in Places /\ By(q) = m
      BY <3>1, PlaceIs
    <3> HIDE DEF q
    <3>4. q < p
      BY <2>3, <3>3, ByGrows
    <3> QED
      BY <2>2, <2>5, <3>2, <3>4
  <2>7. p \in fresh
    BY <1>1, <2>3, <2>6, <2>9
  <2> QED
    BY <2>1, <2>3, <2>5, <2>7 DEF id, place
<1> QED
  BY <1>1, <1>2, <1>3, <1>5, <1>6 DEF fresh

\* What freeze does to otlp_spans: the table goes on, owners first, and holds the span
\* of every record it read and did not leave out.
LEMMA TableIs ==
  ASSUME spans \in Seq(SpanRow), OwnersFirst(spans), NEW a, Mapped(a) \subseteq DOMAIN Log,
         FreshPlaces(a) # {} => setting \in {"admitted", "metadata"}
  PROVE  LET table == FrozenSpans(FreshPlaces(a)) IN
         /\ table \in Seq(SpanRow) /\ Continues(spans, table) /\ OwnersFirst(table)
         /\ \A n \in Mapped(a) : Log[n].leaf \in IdsIn(table)
         /\ AcceptedIn(table) \subseteq AcceptedIn(spans)
<1> DEFINE fresh == FreshPlaces(a)
           asc == Ascending(fresh)
           rows == RowsAt(asc)
           table == FrozenSpans(fresh)
           n0 == Len(spans)
<1>1. /\ fresh \subseteq Places /\ fresh \subseteq Nat /\ IsFiniteSet(fresh)
      /\ \A p \in fresh : By(p) \in Mapped(a) /\ ~Frozen(IdAt(p))
      /\ \A p, q \in fresh : IdAt(p) = IdAt(q) => p = q
      /\ \A n \in Mapped(a) : \A r \in DOMAIN Chain(n) :
           \/ Frozen(Chain(n)[r])
           \/ \E p \in fresh : p <= Depth * n + r /\ IdAt(p) = Chain(n)[r]
  BY FreshIs
<1>2. fresh # {} => setting \in {"admitted", "metadata"}
  OBVIOUS
<1>3. table = spans \o rows
  BY DEF FrozenSpans
<1> HIDE DEF fresh
<1>4. /\ asc \in Seq(fresh)
      /\ \A k, l \in DOMAIN asc : k < l => asc[k] < asc[l]
      /\ \A p \in fresh : \E k \in DOMAIN asc : asc[k] = p
  BY <1>1, AscendingIs
<1> HIDE DEF asc, table
<1>5. n0 \in Nat /\ DOMAIN spans = 1 .. n0 /\ Len(asc) \in Nat /\ DOMAIN asc = 1 .. Len(asc)
      /\ \A k \in DOMAIN asc : asc[k] \in fresh
  BY <1>4, ElementOf
<1>6. ASSUME NEW p \in fresh
      PROVE  /\ RowAt(p) \in SpanRow /\ RowAt(p).body.id = IdAt(p)
             /\ RowAt(p).body.by = By(p)
             /\ \/ RowAt(p).body.parent = NoParent
                \/ /\ RankAt(p) - 1 \in DOMAIN Chain(By(p))
                   /\ RowAt(p).body.parent = Chain(By(p))[RankAt(p) - 1]
  <2>1. /\ p \in Places /\ By(p) \in DOMAIN Log /\ RankAt(p) \in DOMAIN Chain(By(p))
        /\ IdAt(p) \in SpanIds /\ setting \in {"admitted", "metadata"}
    BY <1>1, <1>2, PlaceOf
  <2>2. RankAt(p) = 1 \/ RankAt(p) - 1 \in DOMAIN Chain(By(p))
    BY <2>1, ChainIs
  <2> DEFINE parent == IF RankAt(p) = 1 THEN NoParent ELSE Chain(By(p))[RankAt(p) - 1]
             body == [id |-> IdAt(p), parent |-> parent, by |-> By(p), view |-> setting]
  <2>3. parent \in SpanIds \cup {NoParent}
    BY <2>1, <2>2, ChainIs
  <2>4. RowAt(p) = [body |-> body, accepted |-> FALSE]
    BY DEF RowAt, BodyAt
  <2>5. \/ parent = NoParent
        \/ /\ RankAt(p) - 1 \in DOMAIN Chain(By(p))
           /\ parent = Chain(By(p))[RankAt(p) - 1]
    BY <2>2
  <2> HIDE DEF parent
  <2>6. body \in SpanType
    BY <2>1, <2>3 DEF SpanType
  <2>7. body.id = IdAt(p) /\ body.by = By(p) /\ body.parent = parent
    OBVIOUS
  <2> HIDE DEF body
  <2> QED
    BY <2>4, <2>5, <2>6, <2>7 DEF SpanRow
<1>7. DOMAIN rows = DOMAIN asc /\ \A k \in DOMAIN asc : rows[k] = RowAt(asc[k])
  BY DEF RowsAt
<1>8. rows \in Seq(SpanRow) /\ Len(rows) = Len(asc)
  <2>1. rows = [k \in 1 .. Len(asc) |-> RowAt(asc[k])]
    BY <1>5 DEF RowsAt
  <2>2. \A k \in 1 .. Len(asc) : RowAt(asc[k]) \in SpanRow
    BY <1>5, <1>6
  <2> QED
    BY <1>5, <2>1, <2>2
<1> HIDE DEF rows
<1>9. /\ table \in Seq(SpanRow) /\ DOMAIN table = 1 .. n0 + Len(asc)
      /\ \A k \in 1 .. n0 : table[k] = spans[k]
      /\ \A k \in DOMAIN asc : table[n0 + k] = RowAt(asc[k])
  <2>1. /\ table \in Seq(SpanRow) /\ DOMAIN table = 1 .. Len(spans) + Len(rows)
        /\ \A k \in 1 .. Len(spans) : table[k] = spans[k]
        /\ \A k \in 1 .. Len(rows) : table[Len(spans) + k] = rows[k]
    BY <1>3, <1>8, ConcatIs
  <2> QED
    BY <1>5, <1>7, <1>8, <2>1
<1> HIDE DEF n0
<1>10. \A k \in DOMAIN table : \/ k \in DOMAIN spans /\ table[k] = spans[k]
                               \/ \E i \in DOMAIN asc : k = n0 + i /\ table[k] = RowAt(asc[i])
  <2> SUFFICES ASSUME NEW k \in DOMAIN table, k \notin DOMAIN spans
               PROVE  \E i \in DOMAIN asc : k = n0 + i /\ table[k] = RowAt(asc[i])
    BY <1>5, <1>9
  <2>1. k - n0 \in DOMAIN asc /\ k = n0 + (k - n0)
    BY <1>5, <1>9
  <2> QED
    BY <1>9, <2>1
<1>11. \A i \in DOMAIN asc : /\ ~Frozen(RowAt(asc[i]).body.id)
                             /\ RowAt(asc[i]).body.id = IdAt(asc[i])
  BY <1>1, <1>5, <1>6
<1>12. Continues(spans, table)
  <2>1. \A k \in DOMAIN spans : k \in DOMAIN table /\ table[k] = spans[k]
    BY <1>5, <1>9
  <2>2. \A k \in DOMAIN table : k \in DOMAIN spans \/ table[k].body.id \notin IdsIn(spans)
    BY <1>10, <1>11 DEF Frozen, IdsIn
  <2> QED
    BY <2>1, <2>2 DEF Continues
<1>13. ASSUME NEW i \in DOMAIN asc, NEW l \in DOMAIN asc, IdAt(asc[i]) = IdAt(asc[l])
       PROVE  i = l
  <2>1. asc[i] = asc[l] /\ asc[i] \in Nat /\ asc[l] \in Nat
    BY <1>1, <1>5, <1>13
  <2>2. ~(i < l) /\ ~(l < i)
    BY <1>4, <2>1
  <2> QED
    BY <1>5, <2>2
<1>14. \A j, k \in DOMAIN table : table[j].body.id = table[k].body.id => j = k
  <2> SUFFICES ASSUME NEW j \in DOMAIN table, NEW k \in DOMAIN table,
                      table[j].body.id = table[k].body.id
               PROVE  j = k
    OBVIOUS
  <2>1. CASE j \in DOMAIN spans /\ table[j] = spans[j] /\ k \in DOMAIN spans /\ table[k] = spans[k]
    BY <2>1 DEF OwnersFirst
  <2>2. ASSUME j \in DOMAIN spans, table[j] = spans[j],
               NEW i \in DOMAIN asc, table[k] = RowAt(asc[i])
        PROVE  FALSE
    BY <1>11, <2>2 DEF Frozen
  <2>3. ASSUME k \in DOMAIN spans, table[k] = spans[k],
               NEW i \in DOMAIN asc, table[j] = RowAt(asc[i])
        PROVE  FALSE
    BY <1>11, <2>3 DEF Frozen
  <2>4. ASSUME NEW i \in DOMAIN asc, table[j] = RowAt(asc[i]), j = n0 + i,
               NEW l \in DOMAIN asc, table[k] = RowAt(asc[l]), k = n0 + l
        PROVE  j = k
    BY <1>11, <1>13, <2>4
  <2> QED
    BY <1>10, <2>1, <2>2, <2>3, <2>4
<1>15. ASSUME NEW n \in Mapped(a), NEW r \in DOMAIN Chain(n)
       PROVE  \/ \E j \in DOMAIN spans : table[j].body.id = Chain(n)[r]
              \/ \E i \in DOMAIN asc : /\ table[n0 + i].body.id = Chain(n)[r]
                                     /\ n0 + i \in DOMAIN table
                                       /\ asc[i] <= Depth * n + r
  <2>1. CASE Frozen(Chain(n)[r])
    BY <1>5, <1>9, <2>1 DEF Frozen
  <2>2. ASSUME NEW p \in fresh, p <= Depth * n + r, IdAt(p) = Chain(n)[r]
        PROVE  \E i \in DOMAIN asc : /\ table[n0 + i].body.id = Chain(n)[r]
                                     /\ n0 + i \in DOMAIN table
                                     /\ asc[i] <= Depth * n + r
    <3>1. PICK i \in DOMAIN asc : asc[i] = p
      BY <1>4
    <3>2. table[n0 + i].body.id = Chain(n)[r]
      BY <1>9, <1>11, <2>2, <3>1
    <3>3. n0 + i \in DOMAIN table
      BY <1>5, <1>9
    <3> QED
      BY <2>2, <3>1, <3>2, <3>3
  <2> QED
    BY <1>1, <2>1, <2>2
<1>16. ASSUME NEW i \in DOMAIN asc, RowAt(asc[i]).body.parent # NoParent
       PROVE  \E j \in 1 .. (n0 + i) - 1 : table[j].body.id = RowAt(asc[i]).body.parent
  <2> DEFINE p == asc[i]
             n == By(p)
             r == RankAt(p) - 1
  <2>1. /\ p \in fresh /\ n \in Mapped(a) /\ r \in DOMAIN Chain(n)
        /\ RowAt(p).body.parent = Chain(n)[r]
    BY <1>1, <1>5, <1>6, <1>16
  <2>2. p \in Nat /\ p = Depth * n + RankAt(p) /\ RankAt(p) \in 1 .. 7
    BY <1>1, <2>1, PlaceOf DEF Depth
  <2>3. n \in Nat
    BY <2>1, LogIs
  <2>4. Depth * n + r < p
    BY <2>2, <2>3 DEF Depth
  <2> HIDE DEF n, r
  <2>5. CASE \E j \in DOMAIN spans : table[j].body.id = Chain(n)[r]
    <3>1. PICK j \in DOMAIN spans : table[j].body.id = Chain(n)[r]
      BY <2>5
    <3>2. j \in 1 .. (n0 + i) - 1
      BY <1>5
    <3> QED
      BY <2>1, <3>1, <3>2
  <2>6. ASSUME NEW l \in DOMAIN asc, table[n0 + l].body.id = Chain(n)[r], asc[l] <= Depth * n + r
        PROVE  \E j \in 1 .. (n0 + i) - 1 : table[j].body.id = RowAt(asc[i]).body.parent
    <3>0. Depth * n + r \in Int
      BY <2>1, <2>3, ChainIs DEF Depth, r
    <3>1. asc[l] < asc[i] /\ asc[l] \in Nat /\ asc[i] \in Nat
      <4>1. asc[l] \in Nat /\ asc[i] \in Nat /\ p = asc[i]
        BY <1>1, <1>5
      <4> HIDE DEF p
      <4>2. asc[l] <= Depth * n + r /\ Depth * n + r < p
        BY <2>4, <2>6
      <4> QED
        BY <3>0, <4>1, <4>2
    <3>2. l < i
      <4>1. ~(i < l) /\ i # l
        BY <1>4, <3>1
      <4> QED
        BY <1>5, <4>1
    <3>3. n0 + l \in 1 .. (n0 + i) - 1
      BY <1>5, <3>2
    <3> QED
      BY <2>1, <2>6, <3>3 DEF p
  <2> QED
    BY <1>15, <2>1, <2>5, <2>6
<1>17. \A k \in DOMAIN table :
         /\ \/ table[k].body.parent = NoParent
            \/ \E j \in 1 .. k - 1 : table[j].body.id = table[k].body.parent
         /\ Log[table[k].body.by].run \notin OptedOut
  <2>1. ASSUME NEW k \in DOMAIN spans, table[k] = spans[k]
        PROVE  /\ \/ table[k].body.parent = NoParent
                  \/ \E j \in 1 .. k - 1 : table[j].body.id = table[k].body.parent
               /\ Log[table[k].body.by].run \notin OptedOut
    <3>1. \A j \in 1 .. k - 1 : table[j] = spans[j]
      BY <1>5, <1>9
    <3> QED
      BY <2>1, <3>1 DEF OwnersFirst
  <2>2. ASSUME NEW i \in DOMAIN asc
        PROVE  Log[RowAt(asc[i]).body.by].run \notin OptedOut
    BY <1>1, <1>5, <1>6 DEF Mapped, Skippable
  <2> QED
    BY <1>10, <1>16, <2>1, <2>2
<1>18. OwnersFirst(table)
  BY <1>14, <1>17 DEF OwnersFirst
<1>19. \A n \in Mapped(a) : Log[n].leaf \in IdsIn(table)
  <2> SUFFICES ASSUME NEW n \in Mapped(a) PROVE Log[n].leaf \in IdsIn(table)
    OBVIOUS
  <2>1. Len(Chain(n)) \in DOMAIN Chain(n) /\ Chain(n)[Len(Chain(n))] = Log[n].leaf
    BY ChainIs
  <2>2. \A j \in DOMAIN spans : j \in DOMAIN table
    BY <1>5, <1>9
  <2> QED
    BY <1>15, <2>1, <2>2 DEF IdsIn
<1>20. AcceptedIn(table) \subseteq AcceptedIn(spans)
  <2>1. \A i \in DOMAIN asc : RowAt(asc[i]).accepted = FALSE
    BY DEF RowAt
  <2> QED
    BY <1>10, <2>1 DEF AcceptedIn
<1> QED
  BY <1>9, <1>12, <1>18, <1>19, <1>20 DEF table, fresh

-----------------------------------------------------------------------------
(* The batches a range freezes.                                            *)

\* Batches hold what is queued, in order: what comes before something in a batch is in
\* that batch or an earlier one.
LEMMA CutIs ==
  ASSUME NEW queue \in Seq(SpanIds)
  PROVE  /\ Cut(queue) \in Seq(BatchType)
         /\ \A k \in DOMAIN Cut(queue) :
              /\ Cut(queue)[k].status = "pending"
              /\ \A i \in DOMAIN Cut(queue)[k].spans :
                   \E q \in DOMAIN queue :
                     /\ Cut(queue)[k].spans[i] = queue[q]
                     /\ \A p \in 1 .. q : \E j \in 1 .. k : queue[p] \in Range(Cut(queue)[j].spans)
<1> DEFINE B == BatchSize
           L == Len(queue)
           last(k) == IF k * B < L THEN k * B ELSE L
           part(k) == SubSeq(queue, (k - 1) * B + 1, last(k))
           batch(k) == [spans |-> part(k), status |-> "pending", ambiguous |-> FALSE]
           count == (L + B - 1) \div B
<1>1. B \in Nat \ {0} /\ L \in Nat /\ DOMAIN queue = 1 .. L
  BY SizesAssumption
<1>2. Cut(queue) = [k \in 1 .. count |-> batch(k)]
  BY DEF Cut
<1>3. \A k \in DOMAIN queue : queue[k] \in SpanIds
  BY ElementOf
<1> HIDE DEF B, L
<1>4. count \in Nat
  BY <1>1
<1> HIDE DEF count
<1>5. ASSUME NEW k \in Nat \ {0}
      PROVE  /\ k * B \in Nat /\ (k - 1) * B \in Nat /\ k * B = (k - 1) * B + B
             /\ last(k) \in Nat /\ last(k) <= L
  BY <1>1
<1>6. ASSUME NEW k \in Nat \ {0}
      PROVE  /\ part(k) \in Seq(SpanIds)
             /\ \A i \in DOMAIN part(k) : /\ i \in Nat \ {0} /\ (k - 1) * B + i <= last(k)
                                          /\ part(k)[i] = queue[(k - 1) * B + i]
             /\ \A q \in (k - 1) * B + 1 .. last(k) :
                  /\ q - (k - 1) * B \in DOMAIN part(k)
                  /\ part(k)[q - (k - 1) * B] = queue[q]
  <2> DEFINE m == (k - 1) * B
             n == last(k)
  <2>1. m \in Nat /\ n \in Nat /\ n <= L
    BY <1>5
  <2> HIDE DEF m, n, last
  <2>2. part(k) = SubSeq(queue, m + 1, n)
    BY DEF m, n
  <2> HIDE DEF part
  <2>5. /\ part(k) \in Seq(SpanIds) /\ DOMAIN part(k) = 1 .. n - m
        /\ \A i \in 1 .. n - m : part(k)[i] = queue[m + i]
    BY <1>1, <2>1, <2>2, SubSeqIs DEF L
  <2>7. \A i \in 1 .. n - m : i \in Nat \ {0} /\ m + i <= n
    BY <2>1
  <2>8. \A q \in m + 1 .. n : q - m \in 1 .. n - m /\ m + (q - m) = q
    BY <2>1
  <2> QED
    BY <2>5, <2>7, <2>8 DEF m, n
<1> HIDE DEF part, last
<1>7. \A k \in 1 .. count : batch(k) \in BatchType
  BY <1>4, <1>6 DEF BatchType, BatchStatus
<1>8. /\ Cut(queue) \in Seq(BatchType) /\ DOMAIN Cut(queue) = 1 .. count
      /\ \A k \in 1 .. count : Cut(queue)[k].spans = part(k) /\ Cut(queue)[k].status = "pending"
  BY <1>2, <1>4, <1>7
<1>9. ASSUME NEW k \in 1 .. count, NEW i \in DOMAIN part(k)
      PROVE  \E q \in DOMAIN queue :
               /\ part(k)[i] = queue[q]
               /\ \A p \in 1 .. q : \E j \in 1 .. k : queue[p] \in Range(part(j))
  <2> DEFINE q == (k - 1) * B + i
  <2>1. k \in Nat \ {0}
    BY <1>4
  <2>2. /\ i \in Nat \ {0} /\ part(k)[i] = queue[q] /\ q <= last(k)
        /\ (k - 1) * B \in Nat /\ k * B \in Nat /\ last(k) \in Nat /\ last(k) <= L
    BY <1>5, <1>6, <2>1
  <2>20. q \in Nat \ {0}
    BY <2>2
  <2>21. last(k) <= k * B
    BY <1>1, <2>2 DEF last
  <2> HIDE DEF q
  <2>22. q \in DOMAIN queue
    BY <1>1, <2>2, <2>20
  <2>3. ASSUME NEW p \in 1 .. q
        PROVE  \E j \in 1 .. k : queue[p] \in Range(part(j))
    <3> DEFINE S == {j \in Nat \ {0} : p <= j * B}
    <3>1. q \in Nat /\ p \in Nat /\ p <= q /\ k * B \in Nat /\ last(k) \in Nat /\ p <= L
      BY <1>1, <2>2, <2>20
    <3>2. k \in S
      BY <2>1, <2>2, <2>21, <3>1
    <3>3. PICK j \in S : \A l \in S : j <= l
      BY <3>2, LeastIn
    <3>4. j \in Nat \ {0} /\ p <= j * B /\ j <= k
      BY <3>2, <3>3
    <3>5. j - 1 \notin S
      BY <3>3, <3>4
    <3>6. (j - 1) * B < p
      <4>1. CASE j = 1
        BY <1>1, <4>1
      <4>2. CASE j # 1
        BY <1>5, <3>4, <3>5, <4>2
      <4> QED
        BY <4>1, <4>2
    <3> HIDE DEF S
    <3>7. p \in (j - 1) * B + 1 .. last(j)
      BY <1>1, <1>5, <3>1, <3>4, <3>6 DEF last
    <3>8. p - (j - 1) * B \in DOMAIN part(j) /\ part(j)[p - (j - 1) * B] = queue[p]
      BY <1>6, <3>4, <3>7
    <3>9. queue[p] \in Range(part(j))
      BY <3>8 DEF Range
    <3>10. j \in 1 .. k
      BY <2>1, <3>4
    <3> QED
      BY <3>9, <3>10
  <2> QED
    BY <2>2, <2>22, <2>3
<1>10. \A k \in 1 .. count : \A j \in 1 .. k : j \in 1 .. count
  BY <1>4
<1>11. ASSUME NEW k \in DOMAIN Cut(queue), NEW i \in DOMAIN Cut(queue)[k].spans
       PROVE  \E q \in DOMAIN queue :
                /\ Cut(queue)[k].spans[i] = queue[q]
                /\ \A p \in 1 .. q : \E j \in 1 .. k : queue[p] \in Range(Cut(queue)[j].spans)
  <2>1. k \in 1 .. count /\ Cut(queue)[k].spans = part(k)
    BY <1>8
  <2>2. PICK q \in DOMAIN queue :
          /\ part(k)[i] = queue[q]
          /\ \A p \in 1 .. q : \E j \in 1 .. k : queue[p] \in Range(part(j))
    BY <1>9, <2>1
  <2>3. \A j \in 1 .. k : Cut(queue)[j].spans = part(j)
    BY <1>8, <1>10, <2>1
  <2> QED
    BY <2>1, <2>2, <2>3
<1> QED
  BY <1>8, <1>11

\* A row of projection_attempts.
AttemptType == [from : DOMAIN Log, through : DOMAIN Log,
                status : {"running", "paused", "completed"}, frozen : BOOLEAN,
                invalid : BOOLEAN, blocked : BOOLEAN]

\* What is left to send: frozen spans, each after its owner unless that is accepted.
LEMMA QueueIs ==
  ASSUME NEW table \in Seq(SpanRow), OwnersFirst(table), NEW deps, Covers(deps, table), NEW a
  PROVE  LET queue == Unsent(a, table, deps) IN
         /\ queue \in Seq(SpanIds)
         /\ \A k \in DOMAIN queue :
              /\ queue[k] \in IdsIn(table)
              /\ \A r \in DOMAIN table :
                   table[r].body.id = queue[k] /\ table[r].body.parent # NoParent =>
                     \/ table[r].body.parent \in AcceptedIn(table)
                     \/ \E p \in 1 .. k : queue[p] = table[r].body.parent
<1> DEFINE queue == Unsent(a, table, deps)
           ids == [k \in DOMAIN table |-> table[k].body.id]
           chosen == {k \in DOMAIN table :
                        /\ ids[k] \notin AcceptedIn(table)
                        /\ \E d \in deps : d[1] = a /\ d[3] = ids[k]}
<1>1. Len(table) \in Nat /\ DOMAIN table = 1 .. Len(table)
  OBVIOUS
<1>2. \A k \in DOMAIN table : table[k].body.id \in SpanIds
  <2>1. \A row \in SpanRow : row.body.id \in SpanIds
    BY DEF SpanRow, SpanType
  <2> QED
    BY <2>1, ElementOf
<1>3. ids \in Seq(SpanIds) /\ DOMAIN ids = DOMAIN table
  <2>1. ids = [k \in 1 .. Len(table) |-> table[k].body.id]
    BY <1>1
  <2>2. \A k \in 1 .. Len(table) : table[k].body.id \in SpanIds
    BY <1>1, <1>2
  <2> QED
    BY <1>1, <2>1, <2>2
<1>4. queue = Select(ids, chosen)
  BY DEF Unsent
<1>5. chosen \subseteq DOMAIN ids
  BY <1>3
<1>6. \A k \in DOMAIN table : ids[k] = table[k].body.id
  OBVIOUS
<1>7. \A k \in DOMAIN table : k \in chosen <=>
        ids[k] \notin AcceptedIn(table) /\ \E d \in deps : d[1] = a /\ d[3] = ids[k]
  OBVIOUS
<1> HIDE DEF queue, ids, chosen
<1>8. /\ queue \in Seq(SpanIds)
      /\ DOMAIN queue = 1 .. Len(queue) /\ Len(queue) \in Nat
      /\ \A k \in DOMAIN queue : Nth(chosen, k) \in chosen /\ queue[k] = ids[Nth(chosen, k)]
      /\ \A k, l \in DOMAIN queue : k < l => Nth(chosen, k) < Nth(chosen, l)
      /\ \A i \in chosen : \E k \in DOMAIN queue : Nth(chosen, k) = i
  <2>1. /\ queue \in Seq(SpanIds)
        /\ \A k \in 1 .. Len(queue) :
              /\ Nth(chosen, k) \in chosen
              /\ queue[k] = ids[Nth(chosen, k)]
        /\ \A k, l \in 1 .. Len(queue) : k < l => Nth(chosen, k) < Nth(chosen, l)
        /\ \A i \in chosen : \E k \in 1 .. Len(queue) : Nth(chosen, k) = i
    BY <1>3, <1>4, <1>5, SelectIs
  <2>2. DOMAIN queue = 1 .. Len(queue) /\ Len(queue) \in Nat
    BY <2>1
  <2> QED
    BY <2>1, <2>2
<1>9. ASSUME NEW k \in DOMAIN queue
      PROVE  queue[k] \in IdsIn(table)
  BY <1>3, <1>5, <1>6, <1>8 DEF IdsIn
<1>10. ASSUME NEW k \in DOMAIN queue, NEW r \in DOMAIN table,
              table[r].body.id = queue[k], table[r].body.parent # NoParent,
              table[r].body.parent \notin AcceptedIn(table)
       PROVE  \E p \in 1 .. k : queue[p] = table[r].body.parent
  <2> DEFINE i == Nth(chosen, k)
             parent == table[r].body.parent
  <2>1. i \in chosen /\ i \in DOMAIN table /\ queue[k] = table[i].body.id /\ ids[i] = queue[k]
    BY <1>3, <1>5, <1>6, <1>8
  <2>2. i = r
    BY <1>10, <2>1 DEF OwnersFirst
  <2>3. PICK j \in 1 .. r - 1 : table[j].body.id = parent
    BY <1>10 DEF OwnersFirst
  <2>4. PICK d \in deps : d[1] = a /\ d[3] = queue[k]
    BY <1>7, <2>1
  <2>5. <<a, d[2], parent>> \in deps
    BY <1>10, <2>4 DEF Covers
  <2>6. j \in DOMAIN table /\ j < r /\ r \in Nat
    BY <1>1
  <2>7. j \in chosen
    <3>1. \E e \in deps : e[1] = a /\ e[3] = parent
      BY <2>5
    <3> QED
      BY <1>6, <1>7, <1>10, <2>3, <2>6, <3>1
  <2>8. PICK p \in DOMAIN queue : Nth(chosen, p) = j
    BY <1>8, <2>7
  <2>9. p < k
    <3>1. ~(k < p) /\ p # k
      BY <1>8, <2>2, <2>6, <2>8
    <3> QED
      BY <1>8, <3>1
  <2>10. p \in 1 .. k
    BY <1>8, <2>9
  <2>11. queue[p] = parent
    BY <1>6, <1>8, <2>3, <2>6, <2>8
  <2> QED
    BY <2>10, <2>11
<1> QED
  BY <1>8, <1>9, <1>10 DEF queue

\* freeze writes batches in order.
LEMMA FreezesQueued ==
  ASSUME NEW table \in Seq(SpanRow), OwnersFirst(table), NEW deps, Covers(deps, table),
         NEW queues, Queued(queues, table), NEW a
  PROVE  Queued([queues EXCEPT ![a] = Cut(Unsent(a, table, deps))], table)
<1> DEFINE queue == Unsent(a, table, deps)
           cut == Cut(queue)
           later == [queues EXCEPT ![a] = cut]
<1>1. /\ queue \in Seq(SpanIds)
      /\ \A k \in DOMAIN queue :
           /\ queue[k] \in IdsIn(table)
           /\ \A r \in DOMAIN table :
                table[r].body.id = queue[k] /\ table[r].body.parent # NoParent =>
                  \/ table[r].body.parent \in AcceptedIn(table)
                  \/ \E p \in 1 .. k : queue[p] = table[r].body.parent
  BY QueueIs
<1> HIDE DEF queue
<1>2. \A k \in DOMAIN cut :
        /\ cut[k].status = "pending"
        /\ \A i \in DOMAIN cut[k].spans :
             \E q \in DOMAIN queue :
               /\ cut[k].spans[i] = queue[q]
               /\ \A p \in 1 .. q : \E j \in 1 .. k : queue[p] \in Range(cut[j].spans)
  BY <1>1, CutIs
<1> HIDE DEF cut
<1>3. /\ DOMAIN later = DOMAIN queues
      /\ \A b \in DOMAIN later : later[b] = IF b = a THEN cut ELSE queues[b]
  OBVIOUS
<1> HIDE DEF later
<1>4. ASSUME NEW k \in DOMAIN cut, NEW i \in DOMAIN cut[k].spans, NEW id, id = cut[k].spans[i]
      PROVE  /\ id \in IdsIn(table)
             /\ cut[k].status # "accepted"
             /\ \A r \in DOMAIN table :
                  table[r].body.id = id /\ table[r].body.parent # NoParent =>
                    \/ table[r].body.parent \in AcceptedIn(table)
                    \/ \E j \in 1 .. k : table[r].body.parent \in Range(cut[j].spans)
  <2>1. PICK q \in DOMAIN queue :
               /\ id = queue[q]
               /\ \A p \in 1 .. q : \E j \in 1 .. k : queue[p] \in Range(cut[j].spans)
    BY <1>2, <1>4
  <2> QED
    BY <1>1, <1>2, <2>1
<1>5. \A b \in DOMAIN later : \A k \in DOMAIN later[b] : \A i \in DOMAIN later[b][k].spans :
        LET id == later[b][k].spans[i] IN
        /\ id \in IdsIn(table)
        /\ later[b][k].status = "accepted" => id \in AcceptedIn(table)
        /\ \A r \in DOMAIN table :
             table[r].body.id = id /\ table[r].body.parent # NoParent =>
               \/ table[r].body.parent \in AcceptedIn(table)
               \/ \E j \in 1 .. k : table[r].body.parent \in Range(later[b][j].spans)
  <2> SUFFICES ASSUME NEW b \in DOMAIN later, NEW k \in DOMAIN later[b],
                      NEW i \in DOMAIN later[b][k].spans, NEW id, id = later[b][k].spans[i]
               PROVE  /\ id \in IdsIn(table)
                      /\ later[b][k].status = "accepted" => id \in AcceptedIn(table)
                      /\ \A r \in DOMAIN table :
                           table[r].body.id = id /\ table[r].body.parent # NoParent =>
                             \/ table[r].body.parent \in AcceptedIn(table)
                             \/ \E j \in 1 .. k : table[r].body.parent \in Range(later[b][j].spans)
    OBVIOUS
  <2>1. CASE b = a
    BY <1>3, <1>4, <2>1
  <2>2. CASE b # a
    BY <1>3, <2>2 DEF Queued
  <2> QED
    BY <2>1, <2>2
<1> QED
  BY <1>5 DEF Queued, later, cut, queue

-----------------------------------------------------------------------------
(* The steps.                                                              *)

\* The types of the tables.
LEMMA TypesAre ==
  ASSUME TypeOK
  PROVE  /\ spans \in Seq(SpanRow)
         /\ attempts \in Seq(AttemptType) /\ batches \in Seq(Seq(BatchType))
         /\ recorded \in 0 .. Len(Log) /\ expired \in 0 .. recorded
         /\ recorded \in Nat /\ expired \in Nat /\ watermark \in Nat
         /\ DOMAIN attempts = 1 .. Len(attempts) /\ Len(attempts) \in Nat
         /\ DOMAIN batches = DOMAIN attempts
         /\ \A a \in DOMAIN attempts : attempts[a] \in AttemptType /\ batches[a] \in Seq(BatchType)
<1>1. spans \in Seq(SpanRow) /\ attempts \in Seq(AttemptType)
  BY DEF TypeOK, SpanRow, AttemptType
<1>2. batches \in Seq(Seq(BatchType)) /\ Len(batches) = Len(attempts)
  BY DEF TypeOK, BatchType
<1>3. /\ recorded \in 0 .. Len(Log) /\ expired \in 0 .. recorded
      /\ recorded \in Nat /\ expired \in Nat /\ watermark \in Nat
  BY LogIs DEF TypeOK
<1>4. /\ DOMAIN attempts = 1 .. Len(attempts) /\ Len(attempts) \in Nat
      /\ DOMAIN batches = 1 .. Len(batches)
  BY <1>1, <1>2
<1>5. \A a \in DOMAIN attempts : attempts[a] \in AttemptType /\ batches[a] \in Seq(BatchType)
  BY <1>1, <1>2, <1>4, ElementOf
<1> QED
  BY <1>1, <1>2, <1>3, <1>4, <1>5

\* The records an attempt reads.
LEMMA MappedIs ==
  ASSUME TypeOK, NEW a \in DOMAIN attempts
  PROVE  /\ InRange(a) \subseteq DOMAIN Log
         /\ Read(a) \subseteq DOMAIN Log
         /\ Mapped(a) \subseteq Read(a) /\ Mapped(a) \subseteq DOMAIN Log
         /\ attempts[a].from \in DOMAIN Log /\ attempts[a].through \in DOMAIN Log
<1>1. attempts[a].from \in DOMAIN Log /\ attempts[a].through \in DOMAIN Log
  BY TypesAre DEF AttemptType
<1>2. /\ attempts[a].from .. attempts[a].through \subseteq DOMAIN Log
      /\ 1 .. attempts[a].through \subseteq DOMAIN Log
  BY <1>1, LogIs
<1> QED
  BY <1>1, <1>2 DEF InRange, Read, Mapped

\* A table that stays goes on.
LEMMA ContinuesSelf ==
  ASSUME NEW table
  PROVE  Continues(table, table)
BY DEF Continues

\* What freeze does to the plan.
LEMMA FreezeIs ==
  ASSUME TypeOK, PlanInv, Freeze
  PROVE  /\ Attempt \in DOMAIN attempts
         /\ spans' \in Seq(SpanRow) /\ Continues(spans, spans') /\ OwnersFirst(spans')
         /\ \A n \in Mapped(Attempt) : Log[n].leaf \in IdsIn(spans')
         /\ AcceptedIn(spans') \subseteq AcceptedIn(spans)
         /\ needed' = needed \cup Dependencies(Attempt, spans')
         /\ batches' = [batches EXCEPT ![Attempt] = Cut(Unsent(Attempt, spans', needed'))]
         /\ receipts' = receipts \cup Cover(Attempt, spans', needed')
<1>1. Attempt \in DOMAIN attempts
  BY DEF Freeze, At, PlanInv, SenderTyped
<1>2. Mapped(Attempt) \subseteq DOMAIN Log /\ Mapped(Attempt) \subseteq Read(Attempt)
  BY <1>1, MappedIs
<1>3. FreshPlaces(Attempt) # {} => setting \in {"admitted", "metadata"}
  <2> SUFFICES ASSUME NEW p \in FreshPlaces(Attempt) PROVE setting \in {"admitted", "metadata"}
    OBVIOUS
  <2>1. By(p) \in Mapped(Attempt)
    BY DEF FreshPlaces
  <2>2. ~Refused(By(p)) /\ Log[By(p)].run \notin OptedOut
    BY <1>2, <2>1 DEF Freeze, Mapped, Skippable
  <2> QED
    BY <2>2 DEF Refused, TypeOK, Settings
<1>4. spans' = FrozenSpans(FreshPlaces(Attempt))
  BY DEF Freeze
<1>5. spans \in Seq(SpanRow) /\ OwnersFirst(spans)
  BY TypesAre DEF PlanInv
<1> DEFINE table == FrozenSpans(FreshPlaces(Attempt))
<1>6. /\ table \in Seq(SpanRow) /\ Continues(spans, table) /\ OwnersFirst(table)
      /\ \A n \in Mapped(Attempt) : Log[n].leaf \in IdsIn(table)
      /\ AcceptedIn(table) \subseteq AcceptedIn(spans)
  BY <1>2, <1>3, <1>5, TableIs
<1>7. /\ needed' = needed \cup Dependencies(Attempt, table)
      /\ batches' = [batches EXCEPT ![Attempt] = Cut(Unsent(Attempt, table, needed'))]
      /\ receipts' = receipts \cup Cover(Attempt, table, needed')
  BY DEF Freeze
<1>8. spans' = table
  BY <1>4
<1> HIDE DEF table
<1> QED
  BY <1>1, <1>6, <1>7, <1>8

\* What acknowledge does to the plan.
LEMMA AcknowledgeIs ==
  ASSUME TypeOK, PlanInv, Acknowledge
  PROVE  /\ Attempt \in DOMAIN attempts /\ sender.batch \in DOMAIN batches[Attempt]
         /\ spans' \in Seq(SpanRow) /\ Continues(spans, spans') /\ OwnersFirst(spans')
         /\ \A id \in Range(Batch.spans) : id \in AcceptedIn(spans')
         /\ AcceptedIn(spans') \subseteq AcceptedIn(spans) \cup Range(Batch.spans)
         /\ receipts' = receipts \cup Cover(Attempt, spans', needed)
<1> DEFINE ids == Range(Batch.spans)
           table == [k \in DOMAIN spans |->
                      IF spans[k].body.id \in ids THEN [spans[k] EXCEPT !.accepted = TRUE]
                      ELSE spans[k]]
<1>1. Attempt \in DOMAIN attempts /\ sender.batch \in DOMAIN batches[Attempt]
  BY DEF Acknowledge, At, PlanInv, SenderTyped
<1>2. spans' = table /\ receipts' = receipts \cup Cover(Attempt, table, needed)
  BY DEF Acknowledge
<1>3. spans \in Seq(SpanRow) /\ OwnersFirst(spans)
  BY TypesAre DEF PlanInv
<1>4. ids \subseteq IdsIn(spans)
  <2>1. \A i \in DOMAIN Batch.spans : Batch.spans[i] \in IdsIn(spans)
    BY <1>1, TypesAre DEF Batch, PlanInv, Queued
  <2> QED
    BY <2>1 DEF Range
<1> HIDE DEF ids
<1>5. /\ DOMAIN spans = 1 .. Len(spans) /\ Len(spans) \in Nat
      /\ \A k \in DOMAIN spans : spans[k] \in SpanRow
  BY <1>3, ElementOf
<1>6. ASSUME NEW k \in DOMAIN spans
      PROVE  /\ table[k] \in SpanRow /\ table[k].body = spans[k].body
             /\ table[k].accepted <=> (spans[k].accepted \/ spans[k].body.id \in ids)
  <2>1. spans[k] \in SpanRow
    BY <1>5
  <2>2. \A row \in SpanRow : /\ [row EXCEPT !.accepted = TRUE] \in SpanRow
                         /\ [row EXCEPT !.accepted = TRUE].body = row.body
                         /\ [row EXCEPT !.accepted = TRUE].accepted = TRUE
    BY DEF SpanRow
  <2>3. table[k] = IF spans[k].body.id \in ids THEN [spans[k] EXCEPT !.accepted = TRUE]
                   ELSE spans[k]
    OBVIOUS
  <2> QED
    BY <2>1, <2>2, <2>3
<1>7. table \in Seq(SpanRow) /\ DOMAIN table = DOMAIN spans
  <2>1. table = [k \in 1 .. Len(spans) |-> table[k]]
    BY <1>5
  <2>2. \A k \in 1 .. Len(spans) : table[k] \in SpanRow
    BY <1>5, <1>6
  <2> HIDE DEF table
  <2>3. table \in [1 .. Len(spans) -> SpanRow]
    BY <2>1, <2>2
  <2> QED
    BY <1>5, <2>3
<1> HIDE DEF table
<1>8. Continues(spans, table)
  BY <1>6, <1>7 DEF Continues
<1>9. OwnersFirst(table)
  <2>1. \A k \in DOMAIN spans : \A j \in 1 .. k - 1 : j \in DOMAIN spans
    BY <1>5
  <2> QED
    BY <1>3, <1>6, <1>7, <2>1 DEF OwnersFirst
<1>10. \A id \in ids : id \in AcceptedIn(table)
  BY <1>4, <1>6, <1>7 DEF AcceptedIn, IdsIn
<1>11. AcceptedIn(table) \subseteq AcceptedIn(spans) \cup ids
  BY <1>6, <1>7 DEF AcceptedIn
<1> QED
  BY <1>1, <1>2, <1>7, <1>8, <1>9, <1>10, <1>11 DEF ids

\* Only freeze and acknowledge change spans, dependencies and receipts, and the spans
\* go on.
LEMMA SpansMove ==
  ASSUME TypeOK, PlanInv, [Next]_vars
  PROVE  /\ spans' \in Seq(SpanRow) /\ Continues(spans, spans') /\ OwnersFirst(spans')
         /\ Freeze \/ Acknowledge \/ (spans' = spans /\ receipts' = receipts)
         /\ Freeze \/ needed' = needed
<1>1. CASE Freeze
  BY <1>1, FreezeIs
<1>2. CASE Acknowledge
  BY <1>2, AcknowledgeIs DEF Acknowledge
<1>3. CASE ~Freeze /\ ~Acknowledge
  <2>1. spans' = spans /\ needed' = needed /\ receipts' = receipts
    BY <1>3 DEF Next, SenderStep, vars, source, plan, outcome, process, Resume, Start,
       KeepPlan, FreezeRefused, NextBatch, ValidateBatch, BeginDelivery, SendAccepted,
       SendRefused, SendUnknown, Reject, Finish, Record, Expire, Restart
  <2>2. spans \in Seq(SpanRow) /\ OwnersFirst(spans)
    BY TypesAre DEF PlanInv
  <2> QED
    BY <2>1, <2>2, ContinuesSelf
<1> QED
  BY <1>1, <1>2, <1>3

\* The changes of an attempt keep its type.
LEMMA AttemptsChange ==
  ASSUME NEW attempt \in AttemptType
  PROVE  /\ [attempt EXCEPT !.frozen = TRUE] \in AttemptType
         /\ [attempt EXCEPT !.blocked = TRUE, !.status = "paused"] \in AttemptType
         /\ [attempt EXCEPT !.invalid = TRUE, !.status = "paused"] \in AttemptType
         /\ [attempt EXCEPT !.blocked = FALSE] \in AttemptType
         /\ [attempt EXCEPT !.status = "running"] \in AttemptType
         /\ [attempt EXCEPT !.status = "paused"] \in AttemptType
         /\ [attempt EXCEPT !.status = "completed", !.blocked = FALSE] \in AttemptType
BY DEF AttemptType

\* An attempt keeps its range.
SameRange(later, attempt) == later.from = attempt.from /\ later.through = attempt.through

\* An attempt keeps its range, and whether it is frozen.
SamePlan(later, attempt) == SameRange(later, attempt) /\ later.frozen = attempt.frozen

\* One attempt changes.
LEMMA SetAttemptIs ==
  ASSUME TypeOK, Attempt \in DOMAIN attempts, NEW row \in AttemptType, SetAttempt(row)
  PROVE  /\ attempts' \in Seq(AttemptType) /\ DOMAIN attempts' = DOMAIN attempts
         /\ Len(attempts') = Len(attempts)
         /\ attempts'[Attempt] = row
         /\ \A a \in DOMAIN attempts : a # Attempt => attempts'[a] = attempts[a]
<1>1. attempts \in Seq(AttemptType)
  BY TypesAre
<1>2. attempts' = [attempts EXCEPT ![Attempt] = row]
  BY DEF SetAttempt
<1> QED
  BY <1>1, <1>2, SeqExcept

\* A new attempt takes the records after the watermark, and has no batches.
LEMMA StartIs ==
  ASSUME TypeOK, Start
  PROVE  /\ attempts' \in Seq(AttemptType) /\ Len(attempts') = Len(attempts) + 1
         /\ batches' \in Seq(Seq(BatchType)) /\ Len(batches') = Len(attempts')
         /\ DOMAIN attempts' = 1 .. Len(attempts) + 1
         /\ \A a \in DOMAIN attempts : attempts'[a] = attempts[a] /\ batches'[a] = batches[a]
         /\ SameRange(attempts'[Len(attempts) + 1], [from |-> watermark + 1, through |-> recorded])
         /\ watermark + 1 <= recorded
         /\ batches'[Len(attempts) + 1] = <<>>
<1> DEFINE new == [from |-> watermark + 1, through |-> recorded, status |-> "running",
                   frozen |-> FALSE, invalid |-> FALSE, blocked |-> FALSE]
<1>1. /\ attempts \in Seq(AttemptType) /\ batches \in Seq(Seq(BatchType))
      /\ Len(batches) = Len(attempts)
  BY TypesAre DEF TypeOK
<1>2. watermark + 1 \in DOMAIN Log /\ recorded \in DOMAIN Log /\ watermark + 1 <= recorded
  BY TypesAre, LogIs DEF Start
<1>3. new \in AttemptType
  BY <1>2 DEF AttemptType
<1>4. attempts' = Append(attempts, new) /\ batches' = Append(batches, <<>>)
  BY DEF Start
<1>5. SameRange(new, [from |-> watermark + 1, through |-> recorded])
  BY DEF SameRange
<1> HIDE DEF new
<1>6. <<>> \in Seq(BatchType)
  OBVIOUS
<1> QED
  BY <1>1, <1>2, <1>3, <1>4, <1>5, <1>6, AppendIs

\* Attempts keep their ranges, and only freeze freezes them.
LEMMA AttemptsMove ==
  ASSUME TypeOK, PlanInv, [Next]_vars
  PROVE  /\ attempts' \in Seq(AttemptType)
         /\ Start \/ (DOMAIN attempts' = DOMAIN attempts /\ Len(attempts') = Len(attempts))
         /\ \A a \in DOMAIN attempts : /\ a \in DOMAIN attempts'
                                       /\ SameRange(attempts'[a], attempts[a])
                                       /\ \/ Freeze /\ a = Attempt
                                          \/ SamePlan(attempts'[a], attempts[a])
<1>1. /\ attempts \in Seq(AttemptType) /\ Len(attempts) \in Nat
      /\ DOMAIN attempts = 1 .. Len(attempts)
      /\ \A a \in DOMAIN attempts : attempts[a] \in AttemptType
  BY TypesAre
<1>2. ASSUME Attempt \in DOMAIN attempts, NEW row \in AttemptType, SetAttempt(row),
             SameRange(row, attempts[Attempt]), Freeze \/ SamePlan(row, attempts[Attempt])
      PROVE  /\ attempts' \in Seq(AttemptType)
             /\ DOMAIN attempts' = DOMAIN attempts /\ Len(attempts') = Len(attempts)
             /\ \A a \in DOMAIN attempts : /\ a \in DOMAIN attempts'
                                           /\ SameRange(attempts'[a], attempts[a])
                                           /\ \/ Freeze /\ a = Attempt
                                              \/ SamePlan(attempts'[a], attempts[a])
  BY <1>2, SetAttemptIs DEF SameRange, SamePlan
<1> DEFINE now == attempts[Attempt]
<1>3. ASSUME Attempt \in DOMAIN attempts PROVE now \in AttemptType
  BY <1>1, <1>3
<1>4. sender.at # "idle" => Attempt \in DOMAIN attempts
  BY DEF PlanInv, SenderTyped
<1>5. CASE Start
  <2>1. \A a \in DOMAIN attempts : a \in 1 .. Len(attempts) + 1
    BY <1>1
  <2> QED
    BY <1>5, <2>1, StartIs DEF SameRange, SamePlan
<1>6. CASE Freeze
  <2> DEFINE row == [now EXCEPT !.frozen = TRUE]
  <2>1. Attempt \in DOMAIN attempts /\ SetAttempt(row)
    BY <1>4, <1>6 DEF Freeze, At
  <2>2. row \in AttemptType
    BY <1>3, <2>1, AttemptsChange
  <2>3. SameRange(row, now)
    BY <1>3, <2>1 DEF SameRange, AttemptType
  <2> HIDE DEF row
  <2> QED
    BY <1>2, <1>6, <2>1, <2>2, <2>3
<1>7. ASSUME Attempt \in DOMAIN attempts,
             \/ BlockPolicy
             \/ SetAttempt([now EXCEPT !.invalid = TRUE, !.status = "paused"])
             \/ SetAttempt([now EXCEPT !.blocked = FALSE])
             \/ SetAttempt([now EXCEPT !.status = "running"])
             \/ SetAttempt([now EXCEPT !.status = "paused"])
             \/ SetAttempt([now EXCEPT !.status = "completed", !.blocked = FALSE])
      PROVE  /\ attempts' \in Seq(AttemptType)
             /\ DOMAIN attempts' = DOMAIN attempts /\ Len(attempts') = Len(attempts)
             /\ \A a \in DOMAIN attempts : /\ a \in DOMAIN attempts'
                                           /\ SameRange(attempts'[a], attempts[a])
                                           /\ \/ Freeze /\ a = Attempt
                                              \/ SamePlan(attempts'[a], attempts[a])
  <2>1. \E row \in AttemptType : SetAttempt(row) /\ SamePlan(row, now)
    <3>1. \A attempt \in AttemptType :
            /\ SamePlan([attempt EXCEPT !.blocked = TRUE, !.status = "paused"], attempt)
            /\ SamePlan([attempt EXCEPT !.invalid = TRUE, !.status = "paused"], attempt)
            /\ SamePlan([attempt EXCEPT !.blocked = FALSE], attempt)
            /\ SamePlan([attempt EXCEPT !.status = "running"], attempt)
            /\ SamePlan([attempt EXCEPT !.status = "paused"], attempt)
            /\ SamePlan([attempt EXCEPT !.status = "completed", !.blocked = FALSE], attempt)
      BY DEF SamePlan, SameRange, AttemptType
    <3>2. now \in AttemptType
      BY <1>3, <1>7
    <3>3. CASE BlockPolicy
      <4> DEFINE row == [now EXCEPT !.blocked = TRUE, !.status = "paused"]
      <4>1. row \in AttemptType /\ SamePlan(row, now) /\ SetAttempt(row)
        BY <3>1, <3>2, <3>3, AttemptsChange DEF BlockPolicy
      <4> HIDE DEF row
      <4> QED
        BY <4>1
    <3>4. CASE SetAttempt([now EXCEPT !.invalid = TRUE, !.status = "paused"])
      <4> DEFINE row == [now EXCEPT !.invalid = TRUE, !.status = "paused"]
      <4>1. row \in AttemptType /\ SamePlan(row, now) /\ SetAttempt(row)
        BY <3>1, <3>2, <3>4, AttemptsChange
      <4> HIDE DEF row
      <4> QED
        BY <4>1
    <3>5. CASE SetAttempt([now EXCEPT !.blocked = FALSE])
      <4> DEFINE row == [now EXCEPT !.blocked = FALSE]
      <4>1. row \in AttemptType /\ SamePlan(row, now) /\ SetAttempt(row)
        BY <3>1, <3>2, <3>5, AttemptsChange
      <4> HIDE DEF row
      <4> QED
        BY <4>1
    <3>6. CASE SetAttempt([now EXCEPT !.status = "running"])
      <4> DEFINE row == [now EXCEPT !.status = "running"]
      <4>1. row \in AttemptType /\ SamePlan(row, now) /\ SetAttempt(row)
        BY <3>1, <3>2, <3>6, AttemptsChange
      <4> HIDE DEF row
      <4> QED
        BY <4>1
    <3>7. CASE SetAttempt([now EXCEPT !.status = "paused"])
      <4> DEFINE row == [now EXCEPT !.status = "paused"]
      <4>1. row \in AttemptType /\ SamePlan(row, now) /\ SetAttempt(row)
        BY <3>1, <3>2, <3>7, AttemptsChange
      <4> HIDE DEF row
      <4> QED
        BY <4>1
    <3>8. CASE SetAttempt([now EXCEPT !.status = "completed", !.blocked = FALSE])
      <4> DEFINE row == [now EXCEPT !.status = "completed", !.blocked = FALSE]
      <4>1. row \in AttemptType /\ SamePlan(row, now) /\ SetAttempt(row)
        BY <3>1, <3>2, <3>8, AttemptsChange
      <4> HIDE DEF row
      <4> QED
        BY <4>1
    <3> HIDE DEF now
    <3> QED
      BY <1>7, <3>3, <3>4, <3>5, <3>6, <3>7, <3>8
  <2>2. PICK row \in AttemptType : SetAttempt(row) /\ SamePlan(row, now)
    BY <2>1
  <2> QED
    BY <1>2, <1>7, <2>2 DEF SamePlan
<1>8. CASE FreezeRefused \/ ValidateBatch \/ BeginDelivery \/ Reject \/ Finish
  <2>1. sender.at # "idle"
    BY <1>8 DEF FreezeRefused, ValidateBatch, BeginDelivery, Reject, Finish, At
  <2>2. \/ BlockPolicy
        \/ SetAttempt([now EXCEPT !.invalid = TRUE, !.status = "paused"])
        \/ SetAttempt([now EXCEPT !.blocked = FALSE])
        \/ SetAttempt([now EXCEPT !.status = "running"])
        \/ SetAttempt([now EXCEPT !.status = "paused"])
        \/ SetAttempt([now EXCEPT !.status = "completed", !.blocked = FALSE])
    BY <1>8 DEF FreezeRefused, ValidateBatch, BeginDelivery, Reject, Finish
  <2> QED
    BY <1>4, <1>7, <2>1, <2>2
<1>9. CASE ~(Start \/ Freeze \/ FreezeRefused \/ ValidateBatch \/ BeginDelivery \/ Reject \/ Finish)
  <2>1. attempts' = attempts
    BY <1>9 DEF Next, SenderStep, vars, source, plan, outcome, process, Resume, KeepPlan,
       NextBatch, SendAccepted, SendRefused, SendUnknown, Acknowledge, Record, Expire,
       Restart
  <2> QED
    BY <1>1, <2>1 DEF SameRange, SamePlan
<1> QED
  BY <1>5, <1>6, <1>8, <1>9

\* Where the sender has a batch in hand.
Delivering == {"validate", "begin", "send", "ack", "block", "retry"}

\* The spans of the batches stay.
SameQueue(later, queue) ==
  DOMAIN later = DOMAIN queue /\ \A k \in DOMAIN queue : later[k].spans = queue[k].spans

\* The batch at hand is one.
LEMMA BatchTyped ==
  ASSUME TypeOK, PlanInv, sender.at \in Delivering
  PROVE  Batch \in BatchType /\ Batch.ambiguous \in BOOLEAN
<1>1. Attempt \in DOMAIN attempts /\ sender.batch \in DOMAIN batches[Attempt]
  BY DEF PlanInv, SenderTyped, Delivering
<1>2. Batch \in BatchType
  BY <1>1, TypesAre, ElementOf DEF Batch
<1> QED
  BY <1>2 DEF BatchType

\* One batch changes its status.
LEMMA SetBatchIs ==
  ASSUME TypeOK, PlanInv, sender.at \in Delivering,
         NEW status \in BatchStatus, NEW ambiguous \in BOOLEAN, SetBatch(status, ambiguous)
  PROVE  /\ batches' \in Seq(Seq(BatchType)) /\ DOMAIN batches' = DOMAIN batches
         /\ Len(batches') = Len(batches)
         /\ \A a \in DOMAIN batches :
              /\ SameQueue(batches'[a], batches[a])
              /\ \A k \in DOMAIN batches[a] :
                   batches'[a][k].status =
                     IF a = Attempt /\ k = sender.batch THEN status ELSE batches[a][k].status
<1>1. Attempt \in DOMAIN attempts /\ sender.batch \in DOMAIN batches[Attempt]
  BY DEF PlanInv, SenderTyped, Delivering
<1>2. /\ batches \in Seq(Seq(BatchType)) /\ Attempt \in DOMAIN batches
      /\ batches[Attempt] \in Seq(BatchType)
  BY <1>1, TypesAre
<1> DEFINE new == [Batch EXCEPT !.status = status, !.ambiguous = ambiguous]
           queue == [batches[Attempt] EXCEPT ![sender.batch] = new]
<1>3. batches' = [batches EXCEPT ![Attempt] = queue]
  BY DEF SetBatch
<1>4. new \in BatchType /\ new.spans = batches[Attempt][sender.batch].spans /\ new.status = status
  <2>1. Batch \in BatchType /\ Batch = batches[Attempt][sender.batch]
    BY BatchTyped DEF Batch
  <2>2. \A b \in BatchType :
          /\ [b EXCEPT !.status = status, !.ambiguous = ambiguous] \in BatchType
          /\ [b EXCEPT !.status = status, !.ambiguous = ambiguous].spans = b.spans
          /\ [b EXCEPT !.status = status, !.ambiguous = ambiguous].status = status
    BY DEF BatchType
  <2> QED
    BY <2>1, <2>2
<1> HIDE DEF new
<1>5. /\ queue \in Seq(BatchType) /\ DOMAIN queue = DOMAIN batches[Attempt]
      /\ \A k \in DOMAIN queue : queue[k] = IF k = sender.batch THEN new ELSE batches[Attempt][k]
  BY <1>1, <1>2, <1>4, SeqExcept
<1> HIDE DEF queue
<1>6. /\ batches' \in Seq(Seq(BatchType)) /\ DOMAIN batches' = DOMAIN batches
      /\ Len(batches') = Len(batches)
      /\ \A a \in DOMAIN batches : batches'[a] = IF a = Attempt THEN queue ELSE batches[a]
  BY <1>2, <1>3, <1>5, SeqExcept
<1> QED
  BY <1>4, <1>5, <1>6 DEF SameQueue

\* Only freeze writes batches, and only acknowledge accepts one.
LEMMA BatchesMove ==
  ASSUME TypeOK, PlanInv, [Next]_vars
  PROVE  /\ batches' \in Seq(Seq(BatchType)) /\ Len(batches') = Len(attempts')
         /\ \A a \in DOMAIN batches' : a \in DOMAIN batches \/ batches'[a] = <<>>
         /\ \A a \in DOMAIN batches :
              /\ a \in DOMAIN batches'
              /\ (Freeze /\ a = Attempt) \/ SameQueue(batches'[a], batches[a])
              /\ \A k \in DOMAIN batches[a] :
                   \/ Freeze /\ a = Attempt
                   \/ (batches'[a][k].status = "accepted" <=> batches[a][k].status = "accepted")
                   \/ a = Attempt /\ k = sender.batch /\ batches'[a][k].status # "accepted"
                   \/ a = Attempt /\ k = sender.batch /\ Acknowledge
<1>1. /\ batches \in Seq(Seq(BatchType)) /\ Len(batches) = Len(attempts)
      /\ DOMAIN batches = DOMAIN attempts /\ DOMAIN attempts = 1 .. Len(attempts)
      /\ Len(attempts) \in Nat
  BY TypesAre DEF TypeOK
<1>2. CASE Start
  <2>1. /\ batches' \in Seq(Seq(BatchType)) /\ Len(batches') = Len(attempts')
        /\ Len(attempts') = Len(attempts) + 1
        /\ \A a \in DOMAIN attempts : batches'[a] = batches[a]
        /\ batches'[Len(attempts) + 1] = <<>>
    BY <1>2, StartIs
  <2>2. DOMAIN batches' = 1 .. Len(attempts) + 1
    BY <1>1, <2>1
  <2>3. \A a \in DOMAIN batches' : a \in DOMAIN batches \/ a = Len(attempts) + 1
    BY <1>1, <2>2
  <2>4. \A a \in DOMAIN batches : a \in DOMAIN batches'
    BY <1>1, <2>2
  <2> QED
    BY <1>1, <2>1, <2>3, <2>4 DEF SameQueue
<1>3. CASE Freeze
  <2> DEFINE queue == Cut(Unsent(Attempt, spans', needed'))
  <2>1. /\ Attempt \in DOMAIN attempts /\ spans' \in Seq(SpanRow) /\ OwnersFirst(spans')
        /\ batches' = [batches EXCEPT ![Attempt] = queue]
    BY <1>3, FreezeIs
  <2>2. Len(attempts') = Len(attempts)
    BY <1>3, AttemptsMove, TypesAre DEF Freeze, Start, At
  <2>3. Covers(needed', spans')
    <3>1. Covers(needed, spans')
      BY <1>3, FreezeIs, CoversKept, TypesAre DEF PlanInv
    <3>2. Covers(Dependencies(Attempt, spans'), spans')
      BY <1>3, FreezeIs, DependenciesIs
    <3> QED
      BY <1>3, <3>1, <3>2, FreezeIs DEF Covers
  <2>4. queue \in Seq(BatchType)
    <3>1. Unsent(Attempt, spans', needed') \in Seq(SpanIds)
      BY <2>1, <2>3, QueueIs
    <3> QED
      BY <3>1, CutIs
  <2> HIDE DEF queue
  <2>5. /\ batches' \in Seq(Seq(BatchType)) /\ DOMAIN batches' = DOMAIN batches
        /\ Len(batches') = Len(batches)
        /\ \A a \in DOMAIN batches : a # Attempt => batches'[a] = batches[a]
    BY <1>1, <2>1, <2>4, SeqExcept
  <2> QED
    BY <1>1, <1>3, <2>2, <2>5 DEF SameQueue
<1>4. CASE BeginDelivery \/ Acknowledge \/ Reject
  <2>1. sender.at \in Delivering
    BY <1>4 DEF BeginDelivery, Acknowledge, Reject, At, Delivering
  <2>2. PICK status \in BatchStatus, ambiguous \in BOOLEAN :
          SetBatch(status, ambiguous) /\ (status # "accepted" \/ Acknowledge)
    <3>1. CASE BeginDelivery
      BY <2>1, <3>1, BatchTyped DEF BeginDelivery, BatchStatus
    <3>2. CASE Acknowledge
      BY <3>2 DEF Acknowledge, BatchStatus
    <3>3. CASE Reject
      BY <3>3 DEF Reject, BatchStatus
    <3> QED
      BY <1>4, <3>1, <3>2, <3>3
  <2>3. /\ batches' \in Seq(Seq(BatchType)) /\ DOMAIN batches' = DOMAIN batches
        /\ Len(batches') = Len(batches)
        /\ \A a \in DOMAIN batches :
              /\ SameQueue(batches'[a], batches[a])
              /\ \A k \in DOMAIN batches[a] :
                   batches'[a][k].status =
                     IF a = Attempt /\ k = sender.batch THEN status ELSE batches[a][k].status
    BY <2>1, <2>2, SetBatchIs
  <2>4. Len(attempts') = Len(attempts)
    <3>1. ~Start
      BY <2>1 DEF Start, At, Delivering
    <3> QED
      BY <3>1, AttemptsMove
  <2> QED
    BY <1>1, <2>2, <2>3, <2>4
<1>5. CASE ~(Start \/ Freeze \/ BeginDelivery \/ Acknowledge \/ Reject)
  <2>1. batches' = batches
    BY <1>5 DEF Next, SenderStep, vars, source, plan, outcome, process, Resume, KeepPlan,
       FreezeRefused, NextBatch, ValidateBatch, SendAccepted, SendRefused, SendUnknown,
       Finish, Record, Expire, Restart
  <2>2. Len(attempts') = Len(attempts)
    BY <1>5, AttemptsMove
  <2> QED
    BY <1>1, <2>1, <2>2 DEF SameQueue
<1> QED
  BY <1>2, <1>3, <1>4, <1>5

-----------------------------------------------------------------------------
(* The parts of the invariant.                                             *)

\* Dependencies stay complete.
LEMMA CoversStep ==
  ASSUME TypeOK, PlanInv, [Next]_vars
  PROVE  Covers(needed', spans')
<1>1. Covers(needed, spans')
  BY SpansMove, CoversKept, TypesAre DEF PlanInv
<1>2. CASE Freeze
  <2>1. Covers(Dependencies(Attempt, spans'), spans')
    BY <1>2, FreezeIs, DependenciesIs
  <2> QED
    BY <1>1, <1>2, <2>1, FreezeIs DEF Covers
<1>3. CASE ~Freeze
  BY <1>1, <1>3, SpansMove
<1> QED
  BY <1>2, <1>3

\* Receipts stay justified.
LEMMA CoveredStep ==
  ASSUME TypeOK, PlanInv, [Next]_vars
  PROVE  Covered(receipts', spans')
<1>1. Covered(receipts, spans')
  BY SpansMove, CoveredKept, TypesAre DEF PlanInv
<1>2. Covers(needed', spans')
  BY CoversStep
<1>3. CASE Freeze
  <2>1. Covered(Cover(Attempt, spans', needed'), spans')
    BY <1>2, CoverIs
  <2> QED
    BY <1>1, <1>3, <2>1, FreezeIs DEF Covered
<1>4. CASE Acknowledge
  <2>1. Covered(Cover(Attempt, spans', needed), spans')
    BY <1>2, <1>4, CoverIs DEF Acknowledge
  <2> QED
    BY <1>1, <1>4, <2>1, AcknowledgeIs DEF Covered
<1>5. CASE ~Freeze /\ ~Acknowledge
  BY <1>1, <1>5, SpansMove
<1> QED
  BY <1>3, <1>4, <1>5

\* Batches stay in order.
LEMMA QueuedStep ==
  ASSUME TypeOK, PlanInv, [Next]_vars
  PROVE  Queued(batches', spans')
<1>1. Queued(batches, spans')
  BY SpansMove, QueuedKept DEF PlanInv
<1>2. CASE Freeze
  <2>1. Covers(needed', spans')
    BY CoversStep
  <2>2. /\ batches' = [batches EXCEPT ![Attempt] = Cut(Unsent(Attempt, spans', needed'))]
        /\ spans' \in Seq(SpanRow) /\ OwnersFirst(spans')
    BY <1>2, FreezeIs
  <2>3. Queued([batches EXCEPT ![Attempt] = Cut(Unsent(Attempt, spans', needed'))], spans')
    BY <1>1, <2>1, <2>2, FreezesQueued
  <2> QED
    BY <2>2, <2>3
<1>3. CASE ~Freeze
  <2> SUFFICES ASSUME NEW a \in DOMAIN batches', NEW k \in DOMAIN batches'[a],
                      NEW i \in DOMAIN batches'[a][k].spans,
                      NEW id, id = batches'[a][k].spans[i]
               PROVE  /\ id \in IdsIn(spans')
                      /\ batches'[a][k].status = "accepted" => id \in AcceptedIn(spans')
                      /\ \A r \in DOMAIN spans' :
                           spans'[r].body.id = id /\ spans'[r].body.parent # NoParent =>
                             \/ spans'[r].body.parent \in AcceptedIn(spans')
                             \/ \E j \in 1 .. k :
                                  spans'[r].body.parent \in Range(batches'[a][j].spans)
    BY DEF Queued
  <2>1. a \in DOMAIN batches
    <3>1. DOMAIN <<>> = {}
      OBVIOUS
    <3> QED
      BY <3>1, BatchesMove
  <2>2. /\ SameQueue(batches'[a], batches[a]) /\ k \in DOMAIN batches[a]
        /\ batches'[a][k].spans = batches[a][k].spans
    BY <1>3, <2>1, BatchesMove DEF SameQueue
  <2>3. i \in DOMAIN batches[a][k].spans /\ id = batches[a][k].spans[i]
    BY <2>2
  <2>4. /\ id \in IdsIn(spans')
        /\ batches[a][k].status = "accepted" => id \in AcceptedIn(spans')
        /\ \A r \in DOMAIN spans' :
             spans'[r].body.id = id /\ spans'[r].body.parent # NoParent =>
               \/ spans'[r].body.parent \in AcceptedIn(spans')
               \/ \E j \in 1 .. k : spans'[r].body.parent \in Range(batches[a][j].spans)
    BY <1>1, <2>1, <2>2, <2>3 DEF Queued
  <2>5. \A j \in 1 .. k : batches'[a][j].spans = batches[a][j].spans
    <3>1. batches[a] \in Seq(BatchType)
      BY <2>1, TypesAre
    <3>2. \A j \in 1 .. k : j \in DOMAIN batches[a]
      BY <2>2, <3>1
    <3> QED
      BY <2>2, <3>2 DEF SameQueue
  <2>6. batches'[a][k].status = "accepted" => id \in AcceptedIn(spans')
    <3>1. CASE batches[a][k].status = "accepted"
      BY <2>4, <3>1
    <3>2. CASE a = Attempt /\ k = sender.batch /\ Acknowledge
      <4>1. id \in Range(Batch.spans)
        BY <2>3, <3>2 DEF Batch, Range
      <4> QED
        BY <3>2, <4>1, AcknowledgeIs
    <3> QED
      BY <1>3, <2>1, <2>2, <3>1, <3>2, BatchesMove
  <2> QED
    BY <2>4, <2>5, <2>6
<1> QED
  BY <1>2, <1>3

\* Where the sender may be.
SenderSteps == {"idle", "freeze", "next", "validate", "begin", "send", "ack", "block", "retry"}

\* What the sender knows.
SenderType == [at : SenderSteps, attempt : Nat, batch : Nat]

\* The sender takes up the first batch that waits, and keeps to it.
LEMMA SenderMove ==
  ASSUME TypeOK, PlanInv, [Next]_vars
  PROVE  /\ sender' \in SenderType
         /\ sender'.at # "idle" => sender'.attempt \in DOMAIN attempts'
         /\ sender'.at \in Delivering =>
              \/ /\ NextBatch /\ sender'.at = "validate" /\ sender'.attempt = Attempt
                 /\ sender'.batch \in DOMAIN batches[Attempt]
                 /\ \A k \in 1 .. sender'.batch - 1 : batches[Attempt][k].status = "accepted"
              \/ /\ sender.at \in Delivering /\ sender'.attempt = Attempt
                 /\ sender'.batch = sender.batch
<1>1. /\ sender \in SenderType /\ DOMAIN attempts = 1 .. Len(attempts) /\ Len(attempts) \in Nat
      /\ sender.at # "idle" => Attempt \in DOMAIN attempts
  BY TypesAre DEF TypeOK, SenderType, SenderSteps, PlanInv, SenderTyped
<1>2. \A a \in DOMAIN attempts : a \in DOMAIN attempts'
  BY AttemptsMove
<1>3. \A step \in SenderSteps :
        Go(step) => /\ sender' \in SenderType /\ sender'.at = step
                    /\ sender'.attempt = Attempt /\ sender'.batch = sender.batch
  BY <1>1 DEF Go, SenderType, Attempt
<1>4. Return => sender' \in SenderType /\ sender'.at = "idle"
  BY DEF Return, Idle, SenderType, SenderSteps
<1>5. \A a \in Nat : Publish(a) =>
        sender' \in SenderType /\ sender'.at = "freeze" /\ sender'.attempt = a
  BY DEF Publish, SenderType, SenderSteps
<1>6. CASE \E a \in DOMAIN attempts : Resume(a)
  BY <1>1, <1>2, <1>5, <1>6 DEF Resume, Delivering
<1>7. CASE Start
  <2>1. Len(attempts) + 1 \in DOMAIN attempts' /\ Len(attempts) + 1 \in Nat
    BY <1>1, <1>7, StartIs
  <2> QED
    BY <1>5, <1>7, <2>1 DEF Start, Delivering
<1>8. CASE Freeze \/ KeepPlan
  <2>1. Go("next") /\ sender.at # "idle"
    BY <1>8 DEF Freeze, KeepPlan, At
  <2> QED
    BY <1>1, <1>2, <1>3, <2>1 DEF Delivering, SenderSteps
<1>9. CASE FreezeRefused \/ Reject \/ Finish \/ Restart
  BY <1>4, <1>9 DEF FreezeRefused, Reject, Finish, Restart, Delivering
<1>10. CASE NextBatch
  <2> DEFINE waiting == Waiting(Attempt)
             k == First(waiting)
  <2>1. Attempt \in DOMAIN attempts /\ waiting # {}
    BY <1>1, <1>10 DEF NextBatch, At
  <2>2. batches[Attempt] \in Seq(BatchType)
    BY <2>1, TypesAre
  <2>3. /\ waiting \subseteq DOMAIN batches[Attempt]
        /\ DOMAIN batches[Attempt] = 1 .. Len(batches[Attempt])
        /\ Len(batches[Attempt]) \in Nat
        /\ \A j \in DOMAIN batches[Attempt] :
             j \notin waiting => batches[Attempt][j].status = "accepted"
    BY <2>2 DEF Waiting
  <2>4. Return \/ sender' = [sender EXCEPT !.at = "validate", !.batch = k]
    BY <1>10 DEF NextBatch
  <2> HIDE DEF waiting
  <2>5. k \in waiting /\ \A j \in waiting : k <= j
    <3>1. waiting \subseteq Nat
      BY <2>3
    <3>2. \E i \in waiting : \A j \in waiting : i <= j
      BY <2>1, <3>1, LeastIn
    <3> QED
      BY <3>2 DEF First
  <2> HIDE DEF k
  <2>6. \A j \in 1 .. k - 1 : batches[Attempt][j].status = "accepted"
    <3>1. \A j \in 1 .. k - 1 : j \in DOMAIN batches[Attempt] /\ ~(k <= j)
      BY <2>3, <2>5
    <3> QED
      BY <2>3, <2>5, <3>1
  <2>7. CASE Return
    BY <1>4, <2>7 DEF Delivering
  <2>8. CASE sender' = [sender EXCEPT !.at = "validate", !.batch = k]
    <3>1. k \in Nat
      BY <2>3, <2>5
    <3>2. /\ sender' \in SenderType /\ sender'.at = "validate" /\ sender'.attempt = Attempt
          /\ sender'.batch = k
      BY <1>1, <2>8, <3>1 DEF SenderType, SenderSteps, Attempt
    <3> QED
      BY <1>2, <1>10, <2>1, <2>3, <2>5, <2>6, <3>2
  <2> QED
    BY <2>4, <2>7, <2>8
<1>11. CASE \/ ValidateBatch \/ BeginDelivery \/ SendAccepted
            \/ SendRefused \/ SendUnknown \/ Acknowledge
  <2>1. sender.at \in Delivering /\ sender.at # "idle"
    BY <1>11 DEF ValidateBatch, BeginDelivery, SendAccepted, SendRefused, SendUnknown,
       Acknowledge, At, Delivering
  <2>2. Return \/ \E step \in SenderSteps : Go(step)
    BY <1>11 DEF ValidateBatch, BeginDelivery, SendAccepted, SendRefused, SendUnknown,
       Acknowledge, SenderSteps
  <2>3. CASE Return
    BY <1>4, <2>3 DEF Delivering
  <2>4. CASE \E step \in SenderSteps : Go(step)
    BY <1>1, <1>2, <1>3, <2>1, <2>4
  <2> QED
    BY <2>2, <2>3, <2>4
<1>12. CASE Record \/ Expire \/ UNCHANGED vars
  <2>1. sender' = sender
    BY <1>12 DEF Record, Expire, vars
  <2> QED
    BY <1>1, <1>2, <2>1 DEF Attempt
<1> QED
  BY <1>6, <1>7, <1>8, <1>9, <1>10, <1>11, <1>12 DEF Next, SenderStep

\* SenderTyped is kept.
LEMMA SenderTypedStep ==
  ASSUME TypeOK, PlanInv, [Next]_vars
  PROVE  SenderTyped'
<1>1. sender'.at # "idle" => sender'.attempt \in DOMAIN attempts'
  BY SenderMove
<1>2. ASSUME sender'.at \in Delivering
      PROVE  /\ sender'.batch \in DOMAIN batches'[sender'.attempt]
             /\ \A k \in 1 .. sender'.batch - 1 :
                  batches'[sender'.attempt][k].status = "accepted"
  <2>1. /\ sender.at # "idle" /\ sender'.attempt = Attempt /\ ~Freeze
        /\ sender'.batch \in DOMAIN batches[Attempt]
        /\ \A k \in 1 .. sender'.batch - 1 : batches[Attempt][k].status = "accepted"
        /\ NextBatch \/ sender'.batch = sender.batch
    <3>1. CASE NextBatch /\ sender'.attempt = Attempt /\ sender'.batch \in DOMAIN batches[Attempt]
               /\ \A k \in 1 .. sender'.batch - 1 : batches[Attempt][k].status = "accepted"
      BY <3>1 DEF NextBatch, Freeze, At
    <3>2. CASE sender.at \in Delivering /\ sender'.attempt = Attempt /\ sender'.batch = sender.batch
      BY <3>2 DEF Delivering, Freeze, At, PlanInv, SenderTyped
    <3> QED
      BY <1>2, <3>1, <3>2, SenderMove
  <2>2. /\ Attempt \in DOMAIN attempts /\ Attempt \in DOMAIN batches
        /\ batches[Attempt] \in Seq(BatchType)
    BY <2>1, TypesAre DEF PlanInv, SenderTyped
  <2>3. DOMAIN batches'[Attempt] = DOMAIN batches[Attempt]
    BY <2>1, <2>2, BatchesMove DEF SameQueue
  <2>4. ASSUME NEW k \in 1 .. sender'.batch - 1
        PROVE  batches'[Attempt][k].status = "accepted"
    <3>1. k \in DOMAIN batches[Attempt] /\ k # sender'.batch
      BY <2>1, <2>2
    <3>2. CASE NextBatch
      BY <2>1, <3>2 DEF NextBatch, plan
    <3>3. CASE sender'.batch = sender.batch
      BY <2>1, <2>2, <3>1, <3>3, BatchesMove
    <3> QED
      BY <2>1, <3>2, <3>3
  <2> QED
    BY <2>1, <2>3, <2>4
<1> QED
  BY <1>1, <1>2 DEF SenderTyped, Attempt, Delivering

\* Records come and grow old.
LEMMA SourceMove ==
  ASSUME TypeOK, PlanInv, [Next]_vars
  PROVE  /\ recorded' \in 0 .. Len(Log) /\ expired' \in 0 .. recorded'
         /\ recorded <= recorded' /\ expired <= expired' /\ expired' \in Nat
<1>1. /\ recorded \in 0 .. Len(Log) /\ expired \in 0 .. recorded /\ Len(Log) \in Nat
  BY LogIs DEF TypeOK
<1>2. CASE Record
  BY <1>1, <1>2 DEF Record
<1>3. CASE Expire
  BY <1>1, <1>3 DEF Expire
<1>4. CASE ~Record /\ ~Expire
  <2>1. recorded' = recorded /\ expired' = expired
    BY <1>4 DEF Next, SenderStep, vars, source, Resume, Start, Freeze, KeepPlan,
       FreezeRefused, NextBatch, ValidateBatch, BeginDelivery, SendAccepted, SendRefused,
       SendUnknown, Acknowledge, Reject, Finish, Restart
  <2> QED
    BY <1>1, <2>1
<1> QED
  BY <1>2, <1>3, <1>4

\* RangesTyped is kept.
LEMMA RangesStep ==
  ASSUME TypeOK, PlanInv, [Next]_vars
  PROVE  RangesTyped'
<1> SUFFICES ASSUME NEW a \in DOMAIN attempts'
             PROVE  /\ attempts'[a].from <= attempts'[a].through
                    /\ attempts'[a].through <= recorded'
                    /\ ~attempts'[a].frozen => batches'[a] = <<>>
  BY DEF RangesTyped
<1>1. recorded \in Nat /\ recorded' \in Nat /\ recorded <= recorded'
  BY SourceMove, TypesAre, LogIs
<1>2. CASE a \in DOMAIN attempts
  <2>1. /\ attempts[a].from \in Nat /\ attempts[a].through \in Nat
        /\ attempts[a].from <= attempts[a].through /\ attempts[a].through <= recorded
        /\ ~attempts[a].frozen => batches[a] = <<>>
    BY <1>2, MappedIs, LogIs DEF PlanInv, RangesTyped
  <2>2. SameRange(attempts'[a], attempts[a])
    BY <1>2, AttemptsMove
  <2>3. CASE Freeze /\ a = Attempt
    <3> DEFINE row == [attempts[Attempt] EXCEPT !.frozen = TRUE]
    <3>1. attempts[Attempt] \in AttemptType
      BY <1>2, <2>3, TypesAre
    <3>2. row \in AttemptType /\ row.frozen = TRUE
      BY <3>1, AttemptsChange DEF AttemptType
    <3>3. SetAttempt(row)
      BY <2>3 DEF Freeze
    <3> HIDE DEF row
    <3>4. attempts'[a].frozen = TRUE
      BY <1>2, <2>3, <3>2, <3>3, SetAttemptIs
    <3> QED
      BY <1>1, <2>1, <2>2, <3>4 DEF SameRange
  <2>4. CASE ~(Freeze /\ a = Attempt)
    <3>1. a \in DOMAIN batches
      BY <1>2, TypesAre
    <3>2. SamePlan(attempts'[a], attempts[a]) /\ SameQueue(batches'[a], batches[a])
      BY <1>2, <2>4, <3>1, AttemptsMove, BatchesMove
    <3>3. ASSUME batches[a] = <<>> PROVE batches'[a] = <<>>
      <4>1. batches'[a] \in Seq(BatchType)
        BY <3>1, BatchesMove, ElementOf
      <4>2. DOMAIN batches'[a] = {}
        BY <3>2, <3>3 DEF SameQueue
      <4> DEFINE queue == batches'[a]
      <4>3. queue \in Seq(BatchType) /\ DOMAIN queue = {}
        BY <4>1, <4>2
      <4> HIDE DEF queue
      <4>4. Len(queue) \in Nat /\ DOMAIN queue = 1 .. Len(queue)
        BY <4>3
      <4>5. Len(queue) = 0
        BY <4>3, <4>4
      <4> QED
        BY <4>3, <4>5 DEF queue
    <3> QED
      BY <1>1, <2>1, <2>2, <3>2, <3>3 DEF SameRange, SamePlan
  <2> QED
    BY <2>3, <2>4
<1>3. CASE a \notin DOMAIN attempts
  <2>1. Start
    BY <1>3, AttemptsMove
  <2>2. a = Len(attempts) + 1
    BY <1>3, <2>1, StartIs, TypesAre
  <2>3. /\ attempts'[a].from = watermark + 1 /\ attempts'[a].through = recorded
        /\ watermark + 1 <= recorded /\ batches'[a] = <<>>
    BY <2>1, <2>2, StartIs DEF SameRange
  <2> QED
    BY <1>1, <2>3
<1> QED
  BY <1>2, <1>3

\* The body of a frozen span.
LEMMA BodyIs ==
  ASSUME NEW id \in IdsIn(spans)
  PROVE  Body(id).id = id /\ \E k \in DOMAIN spans : spans[k].body = Body(id)
<1>1. \E k \in DOMAIN spans : spans[k].body.id = id
  BY DEF IdsIn
<1> QED
  BY <1>1 DEF Body, Find

\* What a batch sends is frozen.
LEMMA SentIs ==
  ASSUME TypeOK, PlanInv, sender.at \in Delivering
  PROVE  /\ Attempt \in DOMAIN batches /\ sender.batch \in DOMAIN batches[Attempt]
         /\ \A i \in DOMAIN Batch.spans : Batch.spans[i] \in IdsIn(spans)
         /\ \A b \in Sent : /\ \E k \in DOMAIN spans : spans[k].body = b
                            /\ \E i \in DOMAIN Batch.spans : Batch.spans[i] = b.id
         /\ \A id \in Range(Batch.spans) : \E b \in Sent : b.id = id
<1>1. Attempt \in DOMAIN batches /\ sender.batch \in DOMAIN batches[Attempt]
  BY TypesAre DEF PlanInv, SenderTyped, Delivering
<1>2. \A i \in DOMAIN Batch.spans : Batch.spans[i] \in IdsIn(spans)
  BY <1>1 DEF PlanInv, Queued, Batch
<1>3. \A i \in DOMAIN Batch.spans : /\ Body(Batch.spans[i]).id = Batch.spans[i]
                                    /\ \E k \in DOMAIN spans : spans[k].body = Body(Batch.spans[i])
  BY <1>2, BodyIs
<1> QED
  BY <1>1, <1>2, <1>3 DEF Sent, Range

\* Logfire ingests only what is sent.
LEMMA RemoteMove ==
  ASSUME TypeOK, PlanInv, [Next]_vars
  PROVE  /\ remote \subseteq remote'
         /\ \/ remote' = remote
            \/ /\ At("send") /\ remote' \subseteq remote \cup Sent
               /\ spans' = spans /\ batches' = batches /\ setting' = setting
<1>1. CASE SendAccepted \/ SendRefused \/ SendUnknown
  <2>1. spans' = spans /\ batches' = batches /\ setting' = setting
    BY <1>1 DEF SendAccepted, SendRefused, SendUnknown, plan, process
  <2> QED
    BY <1>1, <2>1 DEF SendAccepted, SendRefused, SendUnknown
<1>2. CASE ~(SendAccepted \/ SendRefused \/ SendUnknown)
  <2>1. remote' = remote
    BY <1>2 DEF Next, SenderStep, vars, Resume, Start, Freeze, KeepPlan, FreezeRefused,
       NextBatch, ValidateBatch, BeginDelivery, Acknowledge, Reject, Finish, Record,
       Expire, Restart
  <2> QED
    BY <2>1
<1> QED
  BY <1>1, <1>2

\* Owners stay at hand: what is sent has its owner accepted, or sent before or with it.
LEMMA OwnedStep ==
  ASSUME TypeOK, PlanInv, [Next]_vars
  PROVE  OwnersAtHand'
<1> SUFFICES ASSUME NEW b \in remote' PROVE Owned(b)'
  BY DEF OwnersAtHand
<1>1. RemoteIds \subseteq RemoteIds'
  BY RemoteMove DEF RemoteIds
<1>2. CASE b \in remote
  <2>1. Owned(b)
    BY <1>2 DEF PlanInv, OwnersAtHand
  <2>2. ASSUME NEW a \in DOMAIN batches, NEW k \in DOMAIN batches[a],
               {b.id, b.parent} \subseteq Range(batches[a][k].spans)
        PROVE  Owned(b)'
    <3>1. ~(Freeze /\ a = Attempt)
      <4>1. attempts[a].frozen
        BY <2>2, TypesAre DEF PlanInv, RangesTyped
      <4> QED
        BY <4>1 DEF Freeze
    <3>2. a \in DOMAIN batches' /\ SameQueue(batches'[a], batches[a])
      BY <3>1, BatchesMove
    <3>3. k \in DOMAIN batches'[a] /\ batches'[a][k].spans = batches[a][k].spans
      BY <3>2 DEF SameQueue
    <3> QED
      BY <2>2, <3>2, <3>3 DEF Owned
  <2> QED
    BY <1>1, <2>1, <2>2 DEF Owned
<1>3. CASE b \notin remote
  <2>1. At("send") /\ b \in Sent /\ batches' = batches
    BY <1>3, RemoteMove
  <2>2. sender.at \in Delivering
    BY <2>1 DEF At, Delivering
  <2>3. Attempt \in DOMAIN batches /\ sender.batch \in DOMAIN batches[Attempt]
    BY <2>2, SentIs
  <2>4. PICK r \in DOMAIN spans : spans[r].body = b
    BY <2>1, <2>2, SentIs
  <2>5. PICK i \in DOMAIN Batch.spans : Batch.spans[i] = b.id
    BY <2>1, <2>2, SentIs
  <2>6. \/ b.parent = NoParent \/ b.parent \in AcceptedIn(spans)
        \/ \E j \in 1 .. sender.batch : b.parent \in Range(batches[Attempt][j].spans)
    BY <2>3, <2>4, <2>5 DEF PlanInv, Queued, Batch
  <2>7. CASE b.parent \in AcceptedIn(spans)
    BY <1>1, <2>7 DEF PlanInv, EvidenceKnown, Owned
  <2>8. ASSUME NEW j \in 1 .. sender.batch, b.parent \in Range(batches[Attempt][j].spans)
        PROVE  Owned(b)'
    <3>1. batches[Attempt] \in Seq(BatchType)
      BY <2>3, TypesAre
    <3>2. j = sender.batch \/ (j \in 1 .. sender.batch - 1 /\ j \in DOMAIN batches[Attempt])
      BY <2>3, <3>1
    <3>3. CASE j = sender.batch
      <4>1. {b.id, b.parent} \subseteq Range(batches[Attempt][sender.batch].spans)
        BY <2>5, <2>8, <3>3 DEF Batch, Range
      <4> QED
        BY <2>1, <2>3, <4>1 DEF Owned
    <3>4. CASE j \in 1 .. sender.batch - 1 /\ j \in DOMAIN batches[Attempt]
      <4>1. batches[Attempt][j].status = "accepted"
        BY <2>2, <3>4 DEF PlanInv, SenderTyped, Delivering
      <4>2. PICK n \in DOMAIN batches[Attempt][j].spans : batches[Attempt][j].spans[n] = b.parent
        BY <2>8 DEF Range
      <4>3. b.parent \in AcceptedIn(spans)
        BY <2>3, <3>4, <4>1, <4>2 DEF PlanInv, Queued
      <4> QED
        BY <1>1, <4>3 DEF PlanInv, EvidenceKnown, Owned
    <3> QED
      BY <3>2, <3>3, <3>4
  <2> QED
    BY <2>6, <2>7, <2>8 DEF Owned
<1> QED
  BY <1>2, <1>3

\* The batch in hand sends the same.
LEMMA SentSame ==
  ASSUME spans' = spans, sender'.attempt = Attempt, sender'.batch = sender.batch,
         batches'[Attempt][sender.batch].spans = Batch.spans
  PROVE  Sent' = Sent
<1>1. \A id : Body(id)' = spans[Find(spans, id)].body
  BY DEF Body, Find
<1>2. Batch'.spans = Batch.spans
  BY DEF Batch, Attempt
<1> QED
  BY <1>2 DEF Sent, Body, Find

\* EvidenceKnown is kept.
LEMMA SentStep ==
  ASSUME TypeOK, PlanInv, [Next]_vars
  PROVE  EvidenceKnown'
<1>1. RemoteIds \subseteq RemoteIds' /\ remote \subseteq remote'
  BY RemoteMove DEF RemoteIds
<1>2. AcceptedIn(spans') \subseteq RemoteIds'
  <2>1. AcceptedIn(spans) \subseteq RemoteIds
    BY DEF PlanInv, EvidenceKnown
  <2>2. CASE Freeze
    BY <1>1, <2>1, <2>2, FreezeIs
  <2>3. CASE Acknowledge
    <3>1. Sent \subseteq remote /\ sender.at \in Delivering
      BY <2>3 DEF Acknowledge, At, Delivering, PlanInv, EvidenceKnown
    <3>2. \A id \in Range(Batch.spans) : id \in RemoteIds
      BY <3>1, SentIs DEF RemoteIds
    <3> QED
      BY <1>1, <2>1, <2>3, <3>2, AcknowledgeIs
  <2>4. CASE ~Freeze /\ ~Acknowledge
    BY <1>1, <2>1, <2>4, SpansMove
  <2> QED
    BY <2>2, <2>3, <2>4
<1>3. \A b \in remote' : \E k \in DOMAIN spans' : spans'[k].body = b
  <2> SUFFICES ASSUME NEW b \in remote' PROVE \E k \in DOMAIN spans' : spans'[k].body = b
    OBVIOUS
  <2>1. \E k \in DOMAIN spans : spans[k].body = b
    <3>1. CASE b \in remote
      BY <3>1 DEF PlanInv, EvidenceKnown
    <3>2. CASE b \notin remote
      BY <3>2, RemoteMove, SentIs DEF At, Delivering
    <3> QED
      BY <3>1, <3>2
  <2> QED
    BY <2>1, SpansMove DEF Continues
<1>4. CASE ValidateBatch
  <2>1. /\ spans' = spans /\ batches' = batches /\ setting' = setting
        /\ sender.at \in Delivering /\ sender \in SenderType
    BY <1>4 DEF ValidateBatch, process, At, Delivering, TypeOK, SenderType, SenderSteps
  <2>2. CASE Return
    BY <1>2, <1>3, <2>2 DEF Return, Idle, EvidenceKnown, At
  <2>3. CASE Valid /\ Go("begin")
    <3>1. sender'.at = "begin" /\ sender'.attempt = Attempt /\ sender'.batch = sender.batch
      BY <2>1, <2>3 DEF Go, SenderType, Attempt
    <3>2. Sent' = Sent
      BY <2>1, <3>1, SentSame DEF Batch
    <3>3. SentIsAllowed
      BY <2>3 DEF Valid, Sent, SentIsAllowed
    <3>4. SentIsAllowed'
      BY <2>1, <3>2, <3>3 DEF SentIsAllowed
    <3> QED
      BY <1>2, <1>3, <2>1, <3>1, <3>2, <3>4 DEF EvidenceKnown, At
  <2> QED
    BY <1>4, <2>2, <2>3 DEF ValidateBatch
<1>5. CASE BeginDelivery
  <2>1. /\ spans' = spans /\ setting' = setting /\ SetBatch("in_flight", Batch.ambiguous)
        /\ sender.at = "begin" /\ sender.at \in Delivering /\ sender \in SenderType /\ Go("send")
    BY <1>5 DEF BeginDelivery, process, At, Delivering, TypeOK, SenderType, SenderSteps
  <2>2. sender'.at = "send" /\ sender'.attempt = Attempt /\ sender'.batch = sender.batch
    BY <2>1 DEF Go, SenderType, Attempt
  <2>3. batches'[Attempt][sender.batch].spans = Batch.spans
    <3>1. "in_flight" \in BatchStatus /\ Batch.ambiguous \in BOOLEAN
      BY <2>1, BatchTyped DEF BatchStatus
    <3>2. Attempt \in DOMAIN batches /\ sender.batch \in DOMAIN batches[Attempt]
      BY <2>1, SentIs
    <3> QED
      BY <2>1, <3>1, <3>2, SetBatchIs DEF SameQueue, Batch
  <2>4. Sent' = Sent
    BY <2>1, <2>2, <2>3, SentSame
  <2>5. SentIsAllowed
    BY <2>1 DEF PlanInv, EvidenceKnown, At
  <2>6. SentIsAllowed'
    BY <2>1, <2>4, <2>5 DEF SentIsAllowed
  <2> QED
    BY <1>2, <1>3, <2>1, <2>2, <2>4, <2>6 DEF EvidenceKnown, At
<1>6. CASE SendAccepted
  <2>1. /\ spans' = spans /\ batches' = batches /\ remote' = remote \cup Sent
        /\ sender \in SenderType /\ Go("ack")
    BY <1>6 DEF SendAccepted, plan, TypeOK, SenderType, SenderSteps
  <2>2. sender'.at = "ack" /\ sender'.attempt = Attempt /\ sender'.batch = sender.batch
    BY <2>1 DEF Go, SenderType, Attempt
  <2>3. Sent' = Sent
    BY <2>1, <2>2, SentSame DEF Batch
  <2> QED
    BY <1>2, <1>3, <2>1, <2>2, <2>3 DEF EvidenceKnown, At
<1>7. CASE Record \/ Expire \/ UNCHANGED vars
  <2>1. /\ spans' = spans /\ batches' = batches /\ remote' = remote /\ sender' = sender
        /\ setting' = setting
    BY <1>7 DEF Record, Expire, vars, plan, process
  <2>2. Sent' = Sent
    BY <2>1, SentSame DEF Batch, Attempt
  <2>3. /\ At("ack") => Sent \subseteq remote
        /\ At("begin") \/ At("send") => SentIsAllowed
    BY DEF PlanInv, EvidenceKnown
  <2>4. SentIsAllowed => SentIsAllowed'
    BY <2>1, <2>2 DEF SentIsAllowed
  <2> QED
    BY <1>2, <1>3, <2>1, <2>2, <2>3, <2>4 DEF EvidenceKnown, At
<1>8. CASE ~(\/ ValidateBatch \/ BeginDelivery \/ SendAccepted \/ Record \/ Expire
             \/ UNCHANGED vars)
  <2>1. sender \in SenderType
    BY DEF TypeOK, SenderType, SenderSteps
  <2>2. Return => sender'.at = "idle"
    BY DEF Return, Idle
  <2>3. \A step : Go(step) => sender'.at = step
    BY <2>1 DEF Go, SenderType
  <2>4. \A a : Publish(a) => sender'.at = "freeze"
    BY DEF Publish
  <2>5. CASE FreezeRefused \/ Reject \/ Finish \/ Restart
    BY <1>2, <1>3, <2>2, <2>5 DEF FreezeRefused, Reject, Finish, Restart, EvidenceKnown, At
  <2>6. CASE Freeze \/ KeepPlan \/ Acknowledge \/ SendRefused \/ SendUnknown
    <3>1. Go("next") \/ Go("block") \/ Go("retry")
      BY <2>6 DEF Freeze, KeepPlan, Acknowledge, SendRefused, SendUnknown
    <3>2. sender'.at \in {"next", "block", "retry"}
      BY <2>3, <3>1
    <3> QED
      BY <1>2, <1>3, <3>2 DEF EvidenceKnown, At
  <2>7. CASE Start \/ \E a \in DOMAIN attempts : Resume(a)
    <3>1. \E a : Publish(a)
      BY <2>7 DEF Start, Resume
    <3> QED
      BY <1>2, <1>3, <2>4, <3>1 DEF EvidenceKnown, At
  <2>8. CASE NextBatch
    <3>1. Return \/ \E k : sender' = [sender EXCEPT !.at = "validate", !.batch = k]
      BY <2>8 DEF NextBatch
    <3>2. sender'.at \in {"idle", "validate"}
      BY <2>1, <2>2, <3>1 DEF SenderType
    <3> QED
      BY <1>2, <1>3, <3>2 DEF EvidenceKnown, At
  <2> QED
    BY <1>8, <2>5, <2>6, <2>7, <2>8 DEF Next, SenderStep
<1> QED
  BY <1>4, <1>5, <1>6, <1>7, <1>8

\* Receipts and skips stay; only freeze skips, and only finish moves the watermark.
LEMMA OutcomesMove ==
  ASSUME TypeOK, PlanInv, [Next]_vars
  PROVE  /\ receipts \subseteq receipts' /\ skips \subseteq skips'
         /\ Freeze \/ skips' = skips
         /\ Finish \/ watermark' = watermark
<1>1. CASE Freeze
  BY <1>1, FreezeIs DEF Freeze
<1>2. CASE Acknowledge
  BY <1>2, AcknowledgeIs DEF Acknowledge
<1>3. CASE Finish
  BY <1>3 DEF Finish
<1>4. CASE ~Freeze /\ ~Acknowledge /\ ~Finish
  <2>1. receipts' = receipts /\ skips' = skips /\ watermark' = watermark
    BY <1>4 DEF Next, SenderStep, vars, outcome, Resume, Start, KeepPlan, FreezeRefused,
       NextBatch, ValidateBatch, BeginDelivery, SendAccepted, SendRefused, SendUnknown,
       Reject, Record, Expire, Restart
  <2> QED
    BY <2>1
<1> QED
  BY <1>1, <1>2, <1>3, <1>4

\* SkipsAreMeant is kept.
LEMMA SkipsStep ==
  ASSUME TypeOK, PlanInv, [Next]_vars
  PROVE  SkipsAreMeant'
<1> SUFFICES ASSUME NEW s \in skips' PROVE Log[s[2]].run \in OptedOut \/ s[2] <= expired'
  BY DEF SkipsAreMeant
<1>1. expired \in Nat /\ expired' \in Nat /\ expired <= expired'
  BY TypesAre, SourceMove
<1>2. CASE s \in skips
  <2>1. s[2] \in Nat
    BY <1>2 DEF TypeOK
  <2> QED
    BY <1>1, <1>2, <2>1 DEF PlanInv, SkipsAreMeant
<1>3. CASE s \notin skips
  <2>1. Freeze
    BY <1>3, OutcomesMove
  <2>2. PICK n \in InRange(Attempt) : Skippable(n) /\ s = <<Attempt, n>>
    BY <1>3, <2>1 DEF Freeze
  <2>3. s[2] = n /\ n \in Nat
    BY <2>1, <2>2, FreezeIs, MappedIs, LogIs
  <2> QED
    BY <1>1, <2>2, <2>3 DEF Skippable, Expired
<1> QED
  BY <1>2, <1>3

\* The watermark stops before the first record that is not settled.
LEMMA WatermarkStep ==
  ASSUME TypeOK, PlanInv, [Next]_vars
  PROVE  WatermarkSettled' /\ watermark' \in 0 .. recorded'
<1>1. ASSUME NEW n, Settled(n) PROVE Settled(n)'
  BY <1>1, OutcomesMove, AttemptsMove DEF Settled
<1>2. /\ recorded \in Nat /\ recorded' \in Nat /\ recorded <= recorded'
      /\ watermark \in 0 .. recorded
  BY TypesAre, SourceMove, LogIs DEF TypeOK
<1>3. CASE Finish
  <2> DEFINE gaps == {n \in 1 .. recorded : ~Settled(n)}
  <2>1. watermark' = IF gaps = {} THEN recorded ELSE First(gaps) - 1
    BY <1>3 DEF Finish
  <2>2. gaps \subseteq 1 .. recorded /\ \A n \in 1 .. recorded : n \notin gaps => Settled(n)
    OBVIOUS
  <2> HIDE DEF gaps
  <2>3. CASE gaps = {}
    BY <1>1, <1>2, <2>1, <2>2, <2>3 DEF WatermarkSettled
  <2>4. CASE gaps # {}
    <3> DEFINE k == First(gaps)
    <3>1. k \in gaps /\ \A n \in gaps : k <= n
      <4>1. gaps \subseteq Nat
        BY <1>2, <2>2
      <4>2. \E i \in gaps : \A j \in gaps : i <= j
        BY <2>4, <4>1, LeastIn
      <4> QED
        BY <4>2 DEF First
    <3>2. watermark' = k - 1
      BY <2>1, <2>4
    <3> HIDE DEF k
    <3>3. k \in 1 .. recorded /\ watermark' \in 0 .. recorded
      BY <1>2, <2>2, <3>1, <3>2
    <3>4. \A n \in 1 .. watermark' : Settled(n)
      <4> SUFFICES ASSUME NEW n \in 1 .. watermark' PROVE Settled(n)
        OBVIOUS
      <4>1. n \in 1 .. recorded /\ ~(k <= n)
        BY <1>2, <3>2, <3>3
      <4> QED
        BY <2>2, <3>1, <4>1
    <3> QED
      BY <1>1, <1>2, <3>3, <3>4 DEF WatermarkSettled
  <2> QED
    BY <2>3, <2>4
<1>4. CASE ~Finish
  <2>1. watermark' = watermark
    BY <1>4, OutcomesMove
  <2> QED
    BY <1>1, <1>2, <2>1 DEF PlanInv, WatermarkSettled
<1> QED
  BY <1>3, <1>4

\* TypeOK is kept.
LEMMA TypeStep ==
  ASSUME TypeOK, PlanInv, [Next]_vars
  PROVE  TypeOK'
<1>1. recorded' \in 0 .. Len(Log) /\ expired' \in 0 .. recorded' /\ recorded <= recorded'
      /\ recorded \in Nat /\ recorded' \in Nat
  BY SourceMove, TypesAre, LogIs
<1>2. setting' \in Settings
  <2>1. CASE Restart
    BY <2>1 DEF Restart
  <2>2. CASE ~Restart
    <3>1. setting' = setting
      BY <2>2 DEF Next, SenderStep, vars, process, Resume, Start, Freeze, KeepPlan,
         FreezeRefused, NextBatch, ValidateBatch, BeginDelivery, SendAccepted,
         SendRefused, SendUnknown, Acknowledge, Reject, Finish, Record, Expire
    <3> QED
      BY <3>1 DEF TypeOK
  <2> QED
    BY <2>1, <2>2
<1>3. attempts' \in Seq(AttemptType) /\ \A a \in DOMAIN attempts : a \in DOMAIN attempts'
  BY AttemptsMove
<1>4. batches' \in Seq(Seq(BatchType)) /\ Len(batches') = Len(attempts')
  BY BatchesMove
<1>5. spans' \in Seq(SpanRow)
  BY SpansMove
<1>6. needed' \subseteq ((DOMAIN attempts') \X (1 .. recorded') \X SpanIds)
  <2>1. needed \subseteq ((DOMAIN attempts') \X (1 .. recorded') \X SpanIds)
    <3>1. \A n \in 1 .. recorded : n \in 1 .. recorded'
      BY <1>1
    <3> QED
      BY <1>3, <3>1 DEF TypeOK
  <2>2. CASE Freeze
    <3>1. Attempt \in DOMAIN attempts /\ Attempt \in DOMAIN attempts'
      BY <1>3, <2>2, FreezeIs
    <3>2. IdsIn(spans') \subseteq SpanIds
      <4>1. \A row \in SpanRow : row.body.id \in SpanIds
        BY DEF SpanRow, SpanType
      <4> QED
        BY <1>5, <4>1, ElementOf DEF IdsIn
    <3>3. \A d \in Dependencies(Attempt, spans') :
            \E n \in Mapped(Attempt) \cap InRange(Attempt) : \E s \in IdsIn(spans') :
              d = <<Attempt, n, s>>
      BY <2>2, FreezeIs, DependenciesIs
    <3>4. \A n \in InRange(Attempt) : n \in 1 .. recorded'
      BY <1>1, <3>1, MappedIs, LogIs DEF InRange, PlanInv, RangesTyped
    <3>5. \A d \in Dependencies(Attempt, spans') :
            d \in (DOMAIN attempts') \X (1 .. recorded') \X SpanIds
      BY <3>1, <3>2, <3>3, <3>4
    <3> QED
      BY <2>1, <2>2, <3>5, FreezeIs
  <2>3. CASE ~Freeze
    BY <2>1, <2>3, SpansMove
  <2> QED
    BY <2>2, <2>3
<1>7. bindings' \subseteq ((DOMAIN attempts') \X {Log[n].run : n \in DOMAIN Log} \X Settings)
  <2> DEFINE Runs == {Log[n].run : n \in DOMAIN Log}
  <2>1. bindings \subseteq ((DOMAIN attempts') \X Runs \X Settings)
    BY <1>3 DEF TypeOK
  <2>2. CASE Freeze
    <3>1. /\ Attempt \in DOMAIN attempts' /\ Mapped(Attempt) \subseteq DOMAIN Log
          /\ setting \in Settings
      BY <1>3, <2>2, FreezeIs, MappedIs DEF TypeOK
    <3>2. \A n \in Mapped(Attempt) : Log[n].run \in Runs
      BY <3>1
    <3>3. bindings' = bindings \cup {<<Attempt, Log[n].run, setting>> : n \in Mapped(Attempt)}
      BY <2>2 DEF Freeze
    <3> HIDE DEF Runs
    <3>4. bindings' \subseteq ((DOMAIN attempts') \X Runs \X Settings)
      BY <2>1, <3>1, <3>2, <3>3
    <3> QED
      BY <3>4 DEF Runs
  <2>3. CASE ~Freeze
    <3>1. bindings' = bindings
      BY <2>3 DEF Next, SenderStep, vars, plan, Resume, Start, KeepPlan, FreezeRefused,
         NextBatch, ValidateBatch, BeginDelivery, SendAccepted, SendRefused, SendUnknown,
         Acknowledge, Reject, Finish, Record, Expire, Restart
    <3> QED
      BY <2>1, <3>1
  <2> QED
    BY <2>2, <2>3
<1>8. receipts' \subseteq ((DOMAIN attempts') \X (1 .. recorded'))
  <2>1. receipts \subseteq ((DOMAIN attempts') \X (1 .. recorded'))
    <3>1. \A n \in 1 .. recorded : n \in 1 .. recorded'
      BY <1>1
    <3> QED
      BY <1>3, <3>1 DEF TypeOK
  <2>2. Freeze \/ Acknowledge =>
          /\ Attempt \in DOMAIN attempts
          /\ receipts' = receipts \cup Cover(Attempt, spans', needed')
    BY FreezeIs, AcknowledgeIs DEF Acknowledge
  <2>3. \A d \in needed' : d[2] \in 1 .. recorded'
    BY <1>6
  <2>4. \A r \in Cover(Attempt, spans', needed') :
          \E n \in 1 .. recorded' : r = <<Attempt, n>>
    BY <2>3 DEF Cover
  <2>5. CASE Freeze \/ Acknowledge
    <3>1. Attempt \in DOMAIN attempts'
      BY <1>3, <2>2, <2>5
    <3> QED
      BY <2>1, <2>2, <2>4, <2>5, <3>1
  <2>6. CASE ~(Freeze \/ Acknowledge)
    BY <2>1, <2>6, SpansMove
  <2> QED
    BY <2>5, <2>6
<1>9. skips' \subseteq ((DOMAIN attempts') \X (1 .. recorded'))
  <2>1. skips \subseteq ((DOMAIN attempts') \X (1 .. recorded'))
    <3>1. \A n \in 1 .. recorded : n \in 1 .. recorded'
      BY <1>1
    <3> QED
      BY <1>3, <3>1 DEF TypeOK
  <2>2. CASE Freeze
    <3>1. Attempt \in DOMAIN attempts /\ Attempt \in DOMAIN attempts'
      BY <1>3, <2>2, FreezeIs
    <3>2. skips' = skips \cup {<<Attempt, n>> : n \in {m \in InRange(Attempt) : Skippable(m)}}
      BY <2>2 DEF Freeze
    <3>3. \A n \in InRange(Attempt) : n \in 1 .. recorded'
      BY <1>1, <3>1, MappedIs, LogIs DEF InRange, PlanInv, RangesTyped
    <3> QED
      BY <2>1, <3>1, <3>2, <3>3
  <2>3. CASE ~Freeze
    BY <2>1, <2>3, OutcomesMove
  <2> QED
    BY <2>2, <2>3
<1>10. watermark' \in 0 .. recorded'
  BY WatermarkStep
<1>11. sender' \in SenderType
  BY SenderMove
<1>12. remote' \subseteq SpanType
  <2>1. \A row \in SpanRow : row.body \in SpanType
    BY DEF SpanRow
  <2>2. \A k \in DOMAIN spans' : spans'[k].body \in SpanType
    BY <1>5, <2>1, ElementOf
  <2> QED
    BY <2>2, SentStep DEF EvidenceKnown
<1> QED
  BY <1>1, <1>2, <1>3, <1>4, <1>5, <1>6, <1>7, <1>8, <1>9, <1>10, <1>11, <1>12
  DEF TypeOK, AttemptType, BatchType, SpanRow, SenderType, SenderSteps

-----------------------------------------------------------------------------
(* What always holds.                                                      *)

\* The invariant holds at the start.
LEMMA Starts == Init => DeliveryInv
<1> SUFFICES ASSUME Init PROVE TypeOK /\ PlanInv
  BY DEF DeliveryInv
<1>1. Len(Log) \in Nat
  BY LogIs
<1>2. DOMAIN <<>> = {} /\ Len(<<>>) = 0
  OBVIOUS
<1>3. TypeOK
  BY <1>1, <1>2 DEF Init, TypeOK, Settings, Idle
<1>4. SenderTyped /\ RangesTyped
  BY <1>2 DEF Init, SenderTyped, RangesTyped, Idle
<1>5. OwnersFirst(spans) /\ Queued(batches, spans)
  BY <1>2 DEF Init, OwnersFirst, Queued
<1>6. Covers(needed, spans) /\ Covered(receipts, spans)
  BY DEF Init, Covers, Covered
<1>7. EvidenceKnown
  BY <1>2 DEF Init, EvidenceKnown, AcceptedIn, At, Idle
<1>8. OwnersAtHand /\ SkipsAreMeant /\ WatermarkSettled
  BY DEF Init, OwnersAtHand, SkipsAreMeant, WatermarkSettled
<1> QED
  BY <1>3, <1>4, <1>5, <1>6, <1>7, <1>8 DEF PlanInv

\* Every step keeps it.
LEMMA Goes == DeliveryInv /\ [Next]_vars => DeliveryInv'
<1> SUFFICES ASSUME TypeOK, PlanInv, [Next]_vars PROVE (TypeOK /\ PlanInv)'
  BY DEF DeliveryInv
<1>1. TypeOK'
  BY TypeStep
<1>2. /\ SenderTyped' /\ RangesTyped' /\ EvidenceKnown'
      /\ OwnersAtHand' /\ SkipsAreMeant' /\ WatermarkSettled'
  BY SenderTypedStep, RangesStep, SentStep, OwnedStep, SkipsStep, WatermarkStep
<1>3. OwnersFirst(spans') /\ Covers(needed', spans') /\ Queued(batches', spans')
      /\ Covered(receipts', spans')
  BY SpansMove, CoversStep, QueuedStep, CoveredStep
<1>4. OwnersFirst(spans)' /\ Covers(needed, spans)' /\ Queued(batches, spans)'
      /\ Covered(receipts, spans)'
  BY <1>3 DEF OwnersFirst, Covers, Queued, Covered, IdsIn, AcceptedIn, Ancestry,
    HoldsParents
<1> QED
  BY <1>1, <1>2, <1>4 DEF PlanInv

\* It always holds.
LEMMA DeliveryHolds == Spec => []DeliveryInv
BY Starts, Goes, PTL DEF Spec

\* All tables have their types, for every log: ranges lie within what is recorded, what
\* is needed, skipped or delivered is recorded, and the sender is where it may be.
THEOREM TelemetryTyped == Spec => []TypeOK
<1>1. DeliveryInv => TypeOK
  BY DEF DeliveryInv
<1> QED
  BY <1>1, DeliveryHolds, PTL

\* For every log, batch size, policy and number of restarts: what has a receipt is at
\* Logfire with all of its owners.
THEOREM EvidenceHolds == Spec => []ReceiptsAreEvidence
<1>1. DeliveryInv => ReceiptsAreEvidence
  BY DEF DeliveryInv, PlanInv, Covered, EvidenceKnown, RemoteIds, ReceiptsAreEvidence
<1> QED
  BY <1>1, DeliveryHolds, PTL

\* For every log, batch size, policy and number of restarts: Logfire has one body of a
\* span, and none without its owner, unless it accepted part of a batch that held both.
THEOREM BodiesHold == Spec => []OneOwnedBodyPerSpan
<1>1. DeliveryInv => OneOwnedBodyPerSpan
  <2> SUFFICES ASSUME TypeOK, PlanInv PROVE OneOwnedBodyPerSpan
    BY DEF DeliveryInv
  <2>1. ASSUME NEW b \in remote, NEW c \in remote, b.id = c.id PROVE b = c
    <3>1. PICK j \in DOMAIN spans : spans[j].body = b
      BY DEF PlanInv, EvidenceKnown
    <3>2. PICK k \in DOMAIN spans : spans[k].body = c
      BY DEF PlanInv, EvidenceKnown
    <3> QED
      BY <2>1, <3>1, <3>2 DEF PlanInv, OwnersFirst
  <2>2. \A b \in remote : \/ b.parent = NoParent \/ \E c \in remote : c.id = b.parent
                          \/ \E a \in DOMAIN batches : \E k \in DOMAIN batches[a] :
                               {b.id, b.parent} \subseteq Range(batches[a][k].spans)
    BY DEF PlanInv, OwnersAtHand, Owned, RemoteIds
  <2> QED
    BY <2>1, <2>2 DEF OneOwnedBodyPerSpan
<1> QED
  BY <1>1, DeliveryHolds, PTL

\* For every log, batch size, policy and number of restarts: the watermark passes no
\* record that is neither delivered nor meant to be left out.
THEOREM WatermarkHolds == Spec => []WatermarkSkipsNothing
<1>1. DeliveryInv => WatermarkSkipsNothing
  <2> SUFFICES ASSUME TypeOK, PlanInv, NEW n \in 1 .. watermark
               PROVE  \/ \E a \in DOMAIN attempts : <<a, n>> \in receipts
                      \/ Log[n].run \in OptedOut \/ Expired(n)
    BY DEF DeliveryInv, WatermarkSkipsNothing
  <2>1. PICK a \in DOMAIN attempts : <<a, n>> \in receipts \cup skips
    BY DEF PlanInv, WatermarkSettled, Settled
  <2>2. CASE <<a, n>> \in skips
    BY <2>2 DEF PlanInv, SkipsAreMeant, Expired
  <2> QED
    BY <2>1, <2>2
<1> QED
  BY <1>1, DeliveryHolds, PTL

\* For every log, batch size, policy and number of restarts: nothing is sent when the
\* configuration in force disables Logfire, nothing unredacted under metadata, and
\* nothing of a run that opted out.
THEOREM EgressHolds == Spec => EgressIsAllowed
<1> DEFINE Allowed ==
      \A b \in remote' \ remote : /\ setting # "disabled"
                                  /\ setting = "metadata" => b.view = "metadata"
                                  /\ Log[b.by].run \notin OptedOut
<1>1. DeliveryInv /\ [Next]_vars => [Allowed]_vars
  <2> SUFFICES ASSUME TypeOK, PlanInv, [Next]_vars, NEW b \in remote' \ remote
               PROVE  /\ setting # "disabled"
                      /\ setting = "metadata" => b.view = "metadata"
                      /\ Log[b.by].run \notin OptedOut
    BY DEF DeliveryInv
  <2>1. At("send") /\ b \in Sent
    BY RemoteMove
  <2>2. PICK k \in DOMAIN spans : spans[k].body = b
    BY <2>1, SentIs DEF At, Delivering
  <2> QED
    BY <2>1, <2>2 DEF PlanInv, EvidenceKnown, SentIsAllowed, OwnersFirst
<1> HIDE DEF Allowed
<1>2. Spec => [][Allowed]_vars
  BY <1>1, DeliveryHolds, PTL DEF Spec
<1> QED
  BY <1>2 DEF Allowed, EgressIsAllowed

-----------------------------------------------------------------------------
(* Every record is decided once: the outbox keeps DeliveryPromise.         *)
(*                                                                         *)
(* Ranges follow one another (InTurn, RangesApart), so a record belongs to *)
(* one attempt.  Freezing it decides which of its records are sent and     *)
(* which are left out (NeededInRange, SkipsApart), and a receipt is given  *)
(* for what was to be sent (ReceiptsNeeded).                               *)

\* A range is opened behind the watermark when all before it are completed.
InTurn ==
  \A a \in DOMAIN attempts :
    \/ attempts[a].status = "completed" /\ attempts[a].through <= watermark
    \/ /\ attempts[a].status # "completed" /\ a = Len(attempts)
       /\ attempts[a].from = watermark + 1

\* No two ranges share a record.
RangesApart ==
  \A a, b \in DOMAIN attempts : a < b => attempts[a].through < attempts[b].from

\* The sender is never at work on a completed attempt.
SenderBusy == sender.at # "idle" => attempts[Attempt].status # "completed"

\* What an attempt sends is of its range, and of a run that did not opt out.
NeededInRange ==
  \A d \in needed : /\ d[1] \in DOMAIN attempts /\ attempts[d[1]].frozen
                    /\ d[2] \in InRange(d[1]) /\ Log[d[2]].run \notin OptedOut

\* A receipt is for a record its attempt was to send.
ReceiptsNeeded == \A r \in receipts : \E d \in needed : d[1] = r[1] /\ d[2] = r[2]

\* What an attempt leaves out is of its range, and it sends nothing for it.
SkipsApart ==
  \A s \in skips : /\ s[1] \in DOMAIN attempts /\ attempts[s[1]].frozen
                   /\ s[2] \in InRange(s[1])
                   /\ \A d \in needed : ~(d[1] = s[1] /\ d[2] = s[2])

\* What makes the promise inductive.
DecidedInv ==
  /\ InTurn /\ RangesApart /\ SenderBusy
  /\ NeededInRange /\ ReceiptsNeeded /\ SkipsApart

\* A new attempt runs.
LEMMA StartRuns ==
  ASSUME TypeOK, Start
  PROVE  attempts'[Len(attempts) + 1].status = "running"
<1> DEFINE new == [from |-> watermark + 1, through |-> recorded, status |-> "running",
                   frozen |-> FALSE, invalid |-> FALSE, blocked |-> FALSE]
<1>1. attempts \in Seq(AttemptType) /\ attempts' = Append(attempts, new)
  BY TypesAre DEF Start
<1>2. new.status = "running" /\ new \in AttemptType
  <2>1. watermark + 1 \in DOMAIN Log /\ recorded \in DOMAIN Log
    BY TypesAre, LogIs DEF Start
  <2> QED
    BY <2>1 DEF AttemptType
<1> HIDE DEF new
<1> QED
  BY <1>1, <1>2, AppendIs

\* Only finish completes an attempt, and a completed one stays so.
LEMMA AttemptsStay ==
  ASSUME TypeOK, PlanInv, SenderBusy, [Next]_vars
  PROVE  \A a \in DOMAIN attempts :
           /\ attempts'[a].status = "completed" <=>
                attempts[a].status = "completed" \/ (Finish /\ a = Attempt)
           /\ attempts[a].frozen => attempts'[a].frozen
           /\ InRange(a)' = InRange(a)
<1>1. \A a \in DOMAIN attempts : attempts[a] \in AttemptType
  BY TypesAre
<1>2. \A a \in DOMAIN attempts : InRange(a)' = InRange(a)
  BY AttemptsMove DEF InRange, SameRange
<1>3. sender.at # "idle" => /\ Attempt \in DOMAIN attempts
                            /\ attempts[Attempt].status # "completed"
  BY DEF PlanInv, SenderTyped, SenderBusy
<1> DEFINE now == attempts[Attempt]
           Kept(later, a) ==
             /\ later.status = "completed" <=>
                  attempts[a].status = "completed" \/ (Finish /\ a = Attempt)
             /\ attempts[a].frozen => later.frozen
<1>4. ASSUME sender.at # "idle", NEW row \in AttemptType, SetAttempt(row), Kept(row, Attempt)
      PROVE  \A a \in DOMAIN attempts : Kept(attempts'[a], a)
  <2>1. \A a \in DOMAIN attempts : a # Attempt => attempts'[a] = attempts[a]
    BY <1>3, <1>4, SetAttemptIs
  <2>2. attempts'[Attempt] = row
    BY <1>3, <1>4, SetAttemptIs
  <2> QED
    BY <1>4, <2>1, <2>2
<1>5. CASE Finish
  <2> DEFINE row == [now EXCEPT !.status = "completed", !.blocked = FALSE]
  <2>1. sender.at # "idle" /\ SetAttempt(row)
    BY <1>5 DEF Finish, At
  <2>2. row \in AttemptType /\ Kept(row, Attempt)
    BY <1>1, <1>3, <1>5, <2>1, AttemptsChange DEF AttemptType
  <2> HIDE DEF row, Kept
  <2>3. \A a \in DOMAIN attempts : Kept(attempts'[a], a)
    BY <1>4, <2>1, <2>2
  <2> QED
    BY <1>2, <2>3 DEF Kept
<1>6. ASSUME sender.at # "idle", ~Finish,
             \/ SetAttempt([now EXCEPT !.frozen = TRUE])
             \/ BlockPolicy
             \/ SetAttempt([now EXCEPT !.invalid = TRUE, !.status = "paused"])
             \/ SetAttempt([now EXCEPT !.blocked = FALSE])
             \/ SetAttempt([now EXCEPT !.status = "running"])
             \/ SetAttempt([now EXCEPT !.status = "paused"])
      PROVE  \A a \in DOMAIN attempts : Kept(attempts'[a], a)
  <2>1. \E row \in AttemptType : SetAttempt(row) /\ row.status # "completed"
                                 /\ (now.frozen => row.frozen)
    <3>1. \A attempt \in AttemptType :
            LET frozen == [attempt EXCEPT !.frozen = TRUE]
                held == [attempt EXCEPT !.blocked = TRUE, !.status = "paused"]
                invalid == [attempt EXCEPT !.invalid = TRUE, !.status = "paused"]
                free == [attempt EXCEPT !.blocked = FALSE]
                running == [attempt EXCEPT !.status = "running"]
                paused == [attempt EXCEPT !.status = "paused"]
            IN  \A row \in {frozen, held, invalid, free, running, paused} :
                  /\ row \in AttemptType
                  /\ row.status = "completed" => attempt.status = "completed"
                  /\ attempt.frozen => row.frozen
      BY DEF AttemptType
    <3>2. now \in AttemptType /\ now.status # "completed"
      BY <1>1, <1>3, <1>6
    <3> HIDE DEF now
    <3> QED
      BY <1>6, <3>1, <3>2 DEF BlockPolicy, now
  <2>2. PICK row \in AttemptType : SetAttempt(row) /\ row.status # "completed"
                                   /\ (now.frozen => row.frozen)
    BY <2>1
  <2>3. Kept(row, Attempt)
    BY <1>3, <1>6, <2>2
  <2> HIDE DEF Kept
  <2> QED
    BY <1>4, <1>6, <2>2, <2>3
<1>7. CASE Freeze \/ FreezeRefused \/ ValidateBatch \/ BeginDelivery \/ Reject
  <2>1. sender.at # "idle" /\ ~Finish
    BY <1>7 DEF Freeze, FreezeRefused, ValidateBatch, BeginDelivery, Reject, Finish, At
  <2>2. \/ SetAttempt([now EXCEPT !.frozen = TRUE])
        \/ BlockPolicy
        \/ SetAttempt([now EXCEPT !.invalid = TRUE, !.status = "paused"])
        \/ SetAttempt([now EXCEPT !.blocked = FALSE])
        \/ SetAttempt([now EXCEPT !.status = "running"])
        \/ SetAttempt([now EXCEPT !.status = "paused"])
    BY <1>7 DEF Freeze, FreezeRefused, ValidateBatch, BeginDelivery, Reject
  <2>3. \A a \in DOMAIN attempts : Kept(attempts'[a], a)
    BY <1>6, <2>1, <2>2
  <2> QED
    BY <1>2, <2>3
<1>8. CASE Start
  <2>1. \A a \in DOMAIN attempts : attempts'[a] = attempts[a]
    BY <1>8, StartIs
  <2>2. ~Finish
    BY <1>8 DEF Start, Finish, At
  <2> QED
    BY <1>2, <2>1, <2>2
<1>9. CASE ~(\/ Start \/ Freeze \/ FreezeRefused \/ ValidateBatch \/ BeginDelivery
             \/ Reject \/ Finish)
  <2>1. attempts' = attempts
    BY <1>9 DEF Next, SenderStep, vars, source, plan, outcome, process, Resume, KeepPlan,
       NextBatch, SendAccepted, SendRefused, SendUnknown, Acknowledge, Record, Expire,
       Restart
  <2> QED
    BY <1>2, <1>9, <2>1
<1> QED
  BY <1>5, <1>7, <1>8, <1>9

\* Finish moves the watermark to the end of its range at least.
LEMMA FinishAdvances ==
  ASSUME TypeOK, PlanInv, InTurn, SenderBusy, Finish
  PROVE  /\ Attempt \in DOMAIN attempts
         /\ watermark' \in watermark + 1 .. recorded
         /\ attempts[Attempt].through <= watermark'
<1> DEFINE gaps == {n \in 1 .. recorded : ~Settled(n)}
           range == attempts[Attempt]
<1>1. Attempt \in DOMAIN attempts /\ range.status # "completed"
  BY DEF Finish, At, PlanInv, SenderTyped, SenderBusy
<1>2. /\ range.from = watermark + 1 /\ range.from <= range.through
      /\ range.through <= recorded
      /\ range.from \in Nat /\ range.through \in Nat /\ recorded \in Nat /\ watermark \in Nat
  BY <1>1, MappedIs, TypesAre, LogIs DEF InTurn, PlanInv, RangesTyped
<1>3. \A n \in 1 .. range.through : Settled(n)
  <2> SUFFICES ASSUME NEW n \in 1 .. range.through PROVE Settled(n)
    OBVIOUS
  <2>1. n \in 1 .. watermark \/ n \in InRange(Attempt)
    BY <1>2 DEF InRange
  <2>2. \A m \in InRange(Attempt) : <<Attempt, m>> \in receipts \cup skips
    BY DEF Finish
  <2> QED
    BY <1>1, <2>1, <2>2 DEF PlanInv, WatermarkSettled, Settled
<1>4. watermark' = IF gaps = {} THEN recorded ELSE First(gaps) - 1
  BY DEF Finish
<1>5. gaps \subseteq 1 .. recorded /\ \A n \in gaps : n \notin 1 .. range.through
  BY <1>3
<1> HIDE DEF gaps, range
<1>6. CASE gaps = {}
  BY <1>1, <1>2, <1>4, <1>6 DEF range
<1>7. CASE gaps # {}
  <2>1. First(gaps) \in gaps
    <3>1. gaps \subseteq Nat
      BY <1>2, <1>5
    <3>2. \E i \in gaps : \A j \in gaps : i <= j
      BY <1>7, <3>1, LeastIn
    <3> QED
      BY <3>2 DEF First
  <2>2. First(gaps) \in 1 .. recorded /\ First(gaps) \notin 1 .. range.through
    BY <1>5, <2>1
  <2>3. watermark' = First(gaps) - 1
    BY <1>4, <1>7
  <2>4. watermark' \in watermark + 1 .. recorded /\ range.through <= watermark'
    BY <1>2, <2>2, <2>3
  <2> QED
    BY <1>1, <2>4 DEF range
<1> QED
  BY <1>6, <1>7

\* InTurn is kept.
LEMMA InTurnStep ==
  ASSUME TypeOK, PlanInv, InTurn, SenderBusy, [Next]_vars
  PROVE  InTurn'
<1> SUFFICES ASSUME NEW a \in DOMAIN attempts'
             PROVE  \/ attempts'[a].status = "completed" /\ attempts'[a].through <= watermark'
                    \/ /\ attempts'[a].status # "completed" /\ a = Len(attempts')
                       /\ attempts'[a].from = watermark' + 1
  BY DEF InTurn
<1>1. CASE a \notin DOMAIN attempts
  <2>1. Start
    BY <1>1, AttemptsMove
  <2>2. a = Len(attempts) + 1 /\ Len(attempts') = Len(attempts) + 1
    BY <1>1, <2>1, StartIs, TypesAre
  <2>3. attempts'[a].status = "running" /\ attempts'[a].from = watermark + 1
    BY <2>1, <2>2, StartIs, StartRuns DEF SameRange
  <2>4. watermark' = watermark
    BY <2>1 DEF Start, outcome
  <2> QED
    BY <2>2, <2>3, <2>4
<1>2. CASE a \in DOMAIN attempts
  <2>1. /\ attempts'[a].from = attempts[a].from /\ attempts'[a].through = attempts[a].through
        /\ attempts'[a].status = "completed" <=>
             attempts[a].status = "completed" \/ (Finish /\ a = Attempt)
    BY <1>2, AttemptsMove, AttemptsStay DEF SameRange
  <2>2. \/ attempts[a].status = "completed" /\ attempts[a].through <= watermark
        \/ /\ attempts[a].status # "completed" /\ a = Len(attempts)
           /\ attempts[a].from = watermark + 1
    BY <1>2 DEF InTurn
  <2>3. attempts[a].through \in Nat /\ watermark \in Nat /\ recorded \in Nat
    BY <1>2, MappedIs, TypesAre, LogIs
  <2>4. CASE Finish
    <3>1. /\ attempts[Attempt].through <= watermark' /\ watermark' \in watermark + 1 .. recorded
          /\ Attempt \in DOMAIN attempts
      BY <2>4, FinishAdvances
    <3>2. attempts[Attempt].status # "completed"
      BY <2>4 DEF Finish, At, SenderBusy
    <3>3. Attempt = Len(attempts)
      BY <3>1, <3>2 DEF InTurn
    <3> QED
      BY <2>1, <2>2, <2>3, <2>4, <3>1, <3>3
  <2>5. CASE Start
    <3>1. attempts[a].status = "completed"
      BY <1>2, <2>5 DEF Start, Incomplete
    <3>2. watermark' = watermark
      BY <2>5 DEF Start, outcome
    <3> QED
      BY <2>1, <2>2, <3>1, <3>2
  <2>6. CASE ~Finish /\ ~Start
    <3>1. watermark' = watermark /\ Len(attempts') = Len(attempts)
      BY <2>6, OutcomesMove, AttemptsMove
    <3> QED
      BY <2>1, <2>2, <2>6, <3>1
  <2> QED
    BY <2>4, <2>5, <2>6
<1> QED
  BY <1>1, <1>2

\* RangesApart is kept.
LEMMA RangesApartStep ==
  ASSUME TypeOK, PlanInv, InTurn, RangesApart, [Next]_vars
  PROVE  RangesApart'
<1> SUFFICES ASSUME NEW a \in DOMAIN attempts', NEW b \in DOMAIN attempts', a < b
             PROVE  attempts'[a].through < attempts'[b].from
  BY DEF RangesApart
<1>1. \A c \in DOMAIN attempts : /\ attempts'[c].from = attempts[c].from
                                 /\ attempts'[c].through = attempts[c].through
  BY AttemptsMove DEF SameRange
<1>2. CASE a \in DOMAIN attempts /\ b \in DOMAIN attempts
  BY <1>1, <1>2 DEF RangesApart
<1>3. CASE a \notin DOMAIN attempts \/ b \notin DOMAIN attempts
  <2>1. Start
    BY <1>3, AttemptsMove
  <2>2. /\ b = Len(attempts) + 1 /\ a \in DOMAIN attempts
        /\ attempts'[b].from = watermark + 1
    <3>1. /\ DOMAIN attempts' = 1 .. Len(attempts) + 1
          /\ DOMAIN attempts = 1 .. Len(attempts) /\ Len(attempts) \in Nat
      BY <2>1, StartIs, TypesAre
    <3>2. b = Len(attempts) + 1 /\ a \in DOMAIN attempts
      BY <1>3, <3>1
    <3> QED
      BY <2>1, <3>2, StartIs DEF SameRange
  <2>3. attempts[a].status = "completed"
    BY <2>1, <2>2 DEF Start, Incomplete
  <2>4. attempts[a].through <= watermark /\ attempts[a].through \in Nat /\ watermark \in Nat
    BY <2>2, <2>3, MappedIs, TypesAre, LogIs DEF InTurn
  <2> QED
    BY <1>1, <2>2, <2>4
<1> QED
  BY <1>2, <1>3

\* SenderBusy is kept.
LEMMA SenderBusyStep ==
  ASSUME TypeOK, PlanInv, InTurn, SenderBusy, [Next]_vars
  PROVE  SenderBusy'
<1> SUFFICES ASSUME sender'.at # "idle"
             PROVE  attempts'[sender'.attempt].status # "completed"
  BY DEF SenderBusy, Attempt
<1>1. \A a : Publish(a) => sender'.attempt = a
  BY DEF Publish
<1>2. ~Return
  BY DEF Return, Idle
<1>3. CASE Start
  <2>1. sender'.attempt = Len(attempts) + 1
    BY <1>1, <1>3 DEF Start
  <2> QED
    BY <1>3, <2>1, StartRuns
<1>4. ASSUME NEW a \in DOMAIN attempts, Resume(a)
      PROVE  attempts'[sender'.attempt].status # "completed"
  <2>1. sender'.attempt = a /\ attempts' = attempts /\ attempts[a].status # "completed"
    BY <1>1, <1>4 DEF Resume, Incomplete, plan
  <2> QED
    BY <2>1
<1>5. CASE /\ ~Start
           /\ \A a \in DOMAIN attempts : ~Resume(a)
  <2>1. sender \in SenderType
    BY DEF TypeOK, SenderType, SenderSteps
  <2>2. sender'.attempt = Attempt /\ sender.at # "idle" /\ ~Finish
    <3>1. \A step : Go(step) => sender'.attempt = Attempt
      BY <2>1 DEF Go, SenderType, Attempt
    <3>2. CASE \/ Freeze \/ KeepPlan \/ ValidateBatch \/ BeginDelivery \/ SendAccepted
               \/ SendRefused \/ SendUnknown \/ Acknowledge
      <4>1. \E step : Go(step)
        BY <1>2, <3>2 DEF Freeze, KeepPlan, ValidateBatch, BeginDelivery, SendAccepted,
           SendRefused, SendUnknown, Acknowledge
      <4>2. sender.at # "idle"
        BY <3>2 DEF Freeze, KeepPlan, ValidateBatch, BeginDelivery, SendAccepted,
           SendRefused, SendUnknown, Acknowledge, At
      <4>3. ~Finish
        BY <1>2 DEF Finish
      <4> QED
        BY <3>1, <4>1, <4>2, <4>3
    <3>3. CASE FreezeRefused \/ Reject \/ Finish \/ Restart
      BY <1>2, <3>3 DEF FreezeRefused, Reject, Finish, Restart
    <3>4. CASE NextBatch
      <4>1. \E k : sender' = [sender EXCEPT !.at = "validate", !.batch = k]
        BY <1>2, <3>4 DEF NextBatch
      <4>2. sender'.attempt = Attempt
        BY <2>1, <4>1 DEF SenderType, Attempt
      <4> QED
        BY <1>2, <3>4, <4>2 DEF NextBatch, At, Finish
    <3>5. CASE Record \/ Expire \/ UNCHANGED vars
      <4>1. sender' = sender
        BY <3>5 DEF Record, Expire, vars
      <4> QED
        BY <1>2, <4>1 DEF Attempt, Finish
    <3> QED
      BY <1>5, <3>2, <3>3, <3>4, <3>5 DEF Next, SenderStep
  <2>3. Attempt \in DOMAIN attempts /\ attempts[Attempt].status # "completed"
    BY <2>2 DEF PlanInv, SenderTyped, SenderBusy
  <2> QED
    BY <2>2, <2>3, AttemptsStay
<1> QED
  BY <1>3, <1>4, <1>5

\* What freeze writes of an attempt that was not frozen.
LEMMA FreezeDecides ==
  ASSUME TypeOK, PlanInv, SenderBusy, Freeze
  PROVE  /\ Attempt \in DOMAIN attempts /\ ~attempts[Attempt].frozen
         /\ attempts'[Attempt].frozen
         /\ needed \subseteq needed'
         /\ \A d \in needed' \ needed : d[1] = Attempt /\ d[2] \in InRange(Attempt)
                                        /\ ~Skippable(d[2])
         /\ \A s \in skips' \ skips : s[1] = Attempt /\ s[2] \in InRange(Attempt)
                                      /\ Skippable(s[2])
<1>1. Attempt \in DOMAIN attempts /\ ~attempts[Attempt].frozen
  BY FreezeIs DEF Freeze
<1>2. attempts'[Attempt].frozen
  <2> DEFINE row == [attempts[Attempt] EXCEPT !.frozen = TRUE]
  <2>1. attempts[Attempt] \in AttemptType
    BY <1>1, TypesAre
  <2>2. row \in AttemptType /\ row.frozen
    BY <2>1, AttemptsChange DEF AttemptType
  <2>3. SetAttempt(row)
    BY DEF Freeze
  <2> HIDE DEF row
  <2> QED
    BY <1>1, <2>2, <2>3, SetAttemptIs
<1>3. /\ needed' = needed \cup Dependencies(Attempt, spans')
      /\ \A d \in Dependencies(Attempt, spans') :
           \E n \in Mapped(Attempt) \cap InRange(Attempt) : \E s \in IdsIn(spans') :
             d = <<Attempt, n, s>>
  BY FreezeIs, DependenciesIs
<1>4. \A d \in needed' \ needed : /\ d[1] = Attempt /\ d[2] \in InRange(Attempt)
                                  /\ ~Skippable(d[2])
  <2> SUFFICES ASSUME NEW d \in needed' \ needed
               PROVE  d[1] = Attempt /\ d[2] \in InRange(Attempt) /\ ~Skippable(d[2])
    OBVIOUS
  <2>1. PICK n \in Mapped(Attempt) \cap InRange(Attempt) : \E s \in IdsIn(spans') :
          d = <<Attempt, n, s>>
    BY <1>3
  <2>2. d[1] = Attempt /\ d[2] = n
    BY <2>1
  <2> QED
    BY <2>1, <2>2 DEF Mapped
<1>5. skips' = skips \cup {<<Attempt, n>> : n \in {m \in InRange(Attempt) : Skippable(m)}}
  BY DEF Freeze
<1> QED
  BY <1>1, <1>2, <1>3, <1>4, <1>5

\* What is to be sent stays in its range.
LEMMA NeededStep ==
  ASSUME TypeOK, PlanInv, SenderBusy, NeededInRange, [Next]_vars
  PROVE  NeededInRange'
<1> SUFFICES ASSUME NEW d \in needed'
             PROVE  /\ d[1] \in DOMAIN attempts' /\ attempts'[d[1]].frozen
                    /\ d[2] \in InRange(d[1])' /\ Log[d[2]].run \notin OptedOut
  BY DEF NeededInRange
<1>1. CASE d \in needed
  <2> DEFINE a == d[1]
  <2>1. /\ a \in DOMAIN attempts /\ attempts[a].frozen
        /\ d[2] \in InRange(a) /\ Log[d[2]].run \notin OptedOut
    BY <1>1 DEF NeededInRange
  <2> HIDE DEF a
  <2>2. a \in DOMAIN attempts' /\ attempts'[a].frozen /\ InRange(a)' = InRange(a)
    BY <2>1, AttemptsMove, AttemptsStay
  <2> QED
    BY <2>1, <2>2 DEF a
<1>2. CASE d \notin needed
  <2>1. Freeze
    BY <1>2, SpansMove
  <2>2. /\ d[1] = Attempt /\ d[2] \in InRange(Attempt) /\ ~Skippable(d[2])
        /\ Attempt \in DOMAIN attempts /\ attempts'[Attempt].frozen
    BY <1>2, <2>1, FreezeDecides
  <2>3. Attempt \in DOMAIN attempts' /\ InRange(d[1])' = InRange(Attempt)
    <3> DEFINE a == Attempt
    <3>1. \A c \in DOMAIN attempts : InRange(c)' = InRange(c) /\ c \in DOMAIN attempts'
      BY AttemptsMove, AttemptsStay
    <3> QED
      BY <2>2, <3>1
  <2> QED
    BY <2>2, <2>3 DEF Skippable
<1> QED
  BY <1>1, <1>2

\* A receipt stays one for what was to be sent.
LEMMA ReceiptsNeededStep ==
  ASSUME TypeOK, PlanInv, SenderBusy, ReceiptsNeeded, [Next]_vars
  PROVE  ReceiptsNeeded'
<1> SUFFICES ASSUME NEW r \in receipts'
             PROVE  \E d \in needed' : d[1] = r[1] /\ d[2] = r[2]
  BY DEF ReceiptsNeeded
<1>1. needed \subseteq needed'
  BY SpansMove, FreezeDecides
<1>2. CASE r \in receipts
  BY <1>1, <1>2 DEF ReceiptsNeeded
<1>3. CASE r \notin receipts
  <2>1. r \in Cover(Attempt, spans', needed')
    <3>1. CASE Freeze
      BY <1>3, <3>1, FreezeIs
    <3>2. CASE Acknowledge
      <4>1. needed' = needed
        BY <3>2 DEF Acknowledge
      <4> QED
        BY <1>3, <3>2, <4>1, AcknowledgeIs
    <3> QED
      BY <1>3, <3>1, <3>2, SpansMove
  <2>2. PICK n : r = <<Attempt, n>> /\ \E d \in needed' : d[1] = Attempt /\ d[2] = n
    BY <2>1 DEF Cover
  <2> QED
    BY <2>2
<1> QED
  BY <1>2, <1>3

\* What is left out stays apart from what is sent.
LEMMA SkipsApartStep ==
  ASSUME TypeOK, PlanInv, SenderBusy, NeededInRange, SkipsApart, [Next]_vars
  PROVE  SkipsApart'
<1> SUFFICES ASSUME NEW s \in skips'
             PROVE  /\ s[1] \in DOMAIN attempts' /\ attempts'[s[1]].frozen
                    /\ s[2] \in InRange(s[1])'
                    /\ \A d \in needed' : ~(d[1] = s[1] /\ d[2] = s[2])
  BY DEF SkipsApart
<1>1. \A a \in DOMAIN attempts : /\ a \in DOMAIN attempts' /\ InRange(a)' = InRange(a)
                                 /\ attempts[a].frozen => attempts'[a].frozen
  BY AttemptsMove, AttemptsStay
<1>2. CASE s \in skips
  <2> DEFINE a == s[1]
  <2>1. /\ a \in DOMAIN attempts /\ attempts[a].frozen /\ s[2] \in InRange(a)
        /\ \A d \in needed : ~(d[1] = a /\ d[2] = s[2])
    BY <1>2 DEF SkipsApart
  <2> HIDE DEF a
  <2>2. \A d \in needed' \ needed : d[1] # a
    <3>1. CASE Freeze
      BY <2>1, <3>1, FreezeDecides
    <3> QED
      BY <3>1, SpansMove
  <2> QED
    BY <1>1, <2>1, <2>2 DEF a
<1>3. CASE s \notin skips
  <2>1. Freeze
    BY <1>3, OutcomesMove
  <2>2. /\ Attempt \in DOMAIN attempts /\ ~attempts[Attempt].frozen
        /\ attempts'[Attempt].frozen
        /\ s[1] = Attempt /\ s[2] \in InRange(Attempt) /\ Skippable(s[2])
        /\ \A d \in needed' \ needed : ~Skippable(d[2])
    BY <1>3, <2>1, FreezeDecides
  <2>3. \A d \in needed : d[1] # Attempt
    BY <2>2 DEF NeededInRange
  <2>4. InRange(s[1])' = InRange(Attempt)
    BY <1>1, <2>2
  <2> QED
    BY <1>1, <2>2, <2>3, <2>4
<1> QED
  BY <1>2, <1>3

-----------------------------------------------------------------------------
(* The promise.                                                            *)

\* A record has one attempt, which sends it or leaves it out.
LEMMA DecidedOnce ==
  ASSUME TypeOK, DecidedInv
  PROVE  Delivered \cap Omitted = {}
<1> SUFFICES ASSUME NEW r \in receipts, NEW s \in skips, r[2] = s[2] PROVE FALSE
  BY DEF Delivered, Omitted
<1>1. PICK d \in needed : d[1] = r[1] /\ d[2] = r[2]
  BY DEF DecidedInv, ReceiptsNeeded
<1> DEFINE a == r[1]
           b == s[1]
           n == r[2]
<1>2. a \in DOMAIN attempts /\ n \in InRange(a) /\ b \in DOMAIN attempts /\ n \in InRange(b)
  BY <1>1 DEF DecidedInv, NeededInRange, SkipsApart
<1>3. a # b
  BY <1>1 DEF DecidedInv, SkipsApart
<1> HIDE DEF a, b, n
<1>4. /\ DOMAIN attempts = 1 .. Len(attempts) /\ Len(attempts) \in Nat
      /\ \A c \in DOMAIN attempts : attempts[c].from \in Nat /\ attempts[c].through \in Nat
  BY TypesAre, MappedIs, LogIs
<1>5. a < b \/ b < a
  BY <1>2, <1>3, <1>4
<1>6. /\ a < b => attempts[a].through < attempts[b].from
      /\ b < a => attempts[b].through < attempts[a].from
  BY <1>2 DEF DecidedInv, RangesApart
<1> QED
  BY <1>2, <1>4, <1>5, <1>6 DEF InRange

\* What has a receipt is whole at Logfire: the frozen spans of its ancestry are there,
\* each with its owner.
LEMMA DeliveredWhole ==
  ASSUME TypeOK, PlanInv
  PROVE  \A n \in Delivered : \E chain \in SUBSET remote :
           /\ \E b \in chain : b.id = Log[n].leaf
           /\ \A b \in chain : b.parent = NoParent \/ \E c \in chain : c.id = b.parent
<1> SUFFICES ASSUME NEW n \in Delivered
             PROVE  \E chain \in SUBSET remote :
                      /\ \E b \in chain : b.id = Log[n].leaf
                      /\ \A b \in chain : \/ b.parent = NoParent
                                          \/ \E c \in chain : c.id = b.parent
  OBVIOUS
<1>1. PICK r \in receipts : r[2] = n
  BY DEF Delivered
<1> DEFINE ids == Ancestry(spans, Log[n].leaf)
           chain == {b \in remote : b.id \in ids}
<1>2. Log[n].leaf \in IdsIn(spans) /\ ids \subseteq AcceptedIn(spans)
  BY <1>1 DEF PlanInv, Covered
<1>3. \A s \in ids : \E b \in remote : b.id = s
  BY <1>2 DEF PlanInv, EvidenceKnown, RemoteIds
<1>4. Log[n].leaf \in ids
  BY <1>2 DEF Ancestry
<1>5. ASSUME NEW b \in chain, b.parent # NoParent
      PROVE  b.parent \in ids
  <2>1. PICK k \in DOMAIN spans : spans[k].body = b
    BY DEF PlanInv, EvidenceKnown
  <2>2. spans[k].body.parent \in IdsIn(spans)
    BY <1>5, <2>1, ParentsAreIn, TypesAre DEF PlanInv
  <2> QED
    BY <1>5, <2>1, <2>2, AncestryHolds
<1> HIDE DEF ids
<1>6. chain \in SUBSET remote
  OBVIOUS
<1>7. \E b \in chain : b.id = Log[n].leaf
  BY <1>3, <1>4
<1>8. \A b \in chain : b.parent = NoParent \/ \E c \in chain : c.id = b.parent
  BY <1>3, <1>5
<1> HIDE DEF chain
<1> QED
  BY <1>6, <1>7, <1>8

\* What else holds of what is decided.
LEMMA DecidedIs ==
  ASSUME TypeOK, PlanInv, DecidedInv
  PROVE  /\ Delivered \cap Omitted = {}
         /\ Delivered \subseteq 1 .. recorded /\ Omitted \subseteq 1 .. recorded
         /\ \A n \in Delivered : Log[n].run \notin OptedOut
         /\ \A n \in Omitted : Log[n].run \in OptedOut \/ n <= expired
         /\ \A n : Settled(n) => n \in Delivered \cup Omitted
<1>1. Delivered \cap Omitted = {}
  BY DecidedOnce
<1>2. Delivered \subseteq 1 .. recorded /\ Omitted \subseteq 1 .. recorded
  BY DEF TypeOK, Delivered, Omitted
<1>3. \A n \in Delivered : Log[n].run \notin OptedOut
  BY DEF DecidedInv, ReceiptsNeeded, NeededInRange, Delivered
<1>4. \A n \in Omitted : Log[n].run \in OptedOut \/ n <= expired
  BY DEF PlanInv, SkipsAreMeant, Omitted
<1>5. ASSUME NEW n, Settled(n) PROVE n \in Delivered \cup Omitted
  <2>1. PICK a \in DOMAIN attempts : <<a, n>> \in receipts \cup skips
    BY <1>5 DEF Settled
  <2> DEFINE p == <<a, n>>
  <2>2. p \in receipts \cup skips /\ p[2] = n
    BY <2>1
  <2> HIDE DEF p
  <2> QED
    BY <2>2 DEF Delivered, Omitted
<1> QED
  BY <1>1, <1>2, <1>3, <1>4, <1>5

\* The strengthening holds at the start.
LEMMA StartsDecided == Init => DecidedInv
<1>1. DOMAIN <<>> = {}
  OBVIOUS
<1> QED
  BY <1>1 DEF Init, DecidedInv, InTurn, RangesApart, SenderBusy, Idle, NeededInRange,
    ReceiptsNeeded, SkipsApart

\* Every step keeps it.
LEMMA DecidedStep == DeliveryInv /\ DecidedInv /\ [Next]_vars => DecidedInv'
<1> SUFFICES ASSUME TypeOK, PlanInv, DecidedInv, [Next]_vars PROVE DecidedInv'
  BY DEF DeliveryInv
<1>1. /\ InTurn /\ RangesApart /\ SenderBusy
      /\ NeededInRange /\ ReceiptsNeeded /\ SkipsApart
  BY DEF DecidedInv
<1>2. InTurn' /\ RangesApart' /\ SenderBusy'
  BY <1>1, InTurnStep, RangesApartStep, SenderBusyStep
<1>3. NeededInRange' /\ ReceiptsNeeded' /\ SkipsApart'
  BY <1>1, NeededStep, ReceiptsNeededStep, SkipsApartStep
<1> QED
  BY <1>2, <1>3 DEF DecidedInv

\* Receipts and omissions stay.
LEMMA DecisionsStay ==
  ASSUME TypeOK, PlanInv, [Next]_vars
  PROVE  Delivered \subseteq Delivered' /\ Omitted \subseteq Omitted'
BY OutcomesMove DEF Delivered, Omitted

\* freeze and acknowledge decide.
LEMMA DecideKept ==
  ASSUME DeliveryInv, DecidedInv, DeliveryInv', DecidedInv', Freeze \/ Acknowledge,
         [Next]_vars
  PROVE  Promise!Decide
<1>1. UNCHANGED <<recorded, expired, remote, watermark>>
  BY DEF Freeze, Acknowledge, source
<1>2. Delivered \subseteq Delivered' /\ Omitted \subseteq Omitted'
  BY DecisionsStay DEF DeliveryInv
<1>3. /\ Delivered' \cap Omitted' = {}
      /\ Delivered' \subseteq 1 .. recorded /\ Omitted' \subseteq 1 .. recorded
      /\ \A n \in Delivered' : Log[n].run \notin OptedOut
      /\ \A n \in Omitted' : Log[n].run \in OptedOut \/ n <= expired
  <2>1. TypeOK' /\ PlanInv' /\ DecidedInv' /\ recorded' = recorded /\ expired' = expired
    BY <1>1 DEF DeliveryInv
  <2>2. (/\ Delivered \cap Omitted = {}
         /\ Delivered \subseteq 1 .. recorded /\ Omitted \subseteq 1 .. recorded
         /\ \A n \in Delivered : Log[n].run \notin OptedOut
         /\ \A n \in Omitted : Log[n].run \in OptedOut \/ n <= expired)'
    BY <2>1, DecidedIs, PTL
  <2> QED
    BY <2>1, <2>2
<1>4. \A n \in Delivered' : Promise!Whole(n)
  <2>1. TypeOK' /\ PlanInv' /\ remote' = remote
    BY <1>1 DEF DeliveryInv
  <2>2. (TypeOK /\ PlanInv => \A n \in Delivered : \E chain \in SUBSET remote :
           /\ \E b \in chain : b.id = Log[n].leaf
           /\ \A b \in chain : b.parent = NoParent \/ \E c \in chain : c.id = b.parent)'
    BY DeliveredWhole, PTL
  <2> QED
    BY <2>1, <2>2 DEF Promise!Whole
<1>5. \A n \in Delivered' \ Delivered : n \in Promise!Undecided
  BY <1>2, <1>3 DEF Promise!Undecided
<1>6. \A n \in Omitted' \ Omitted : n \in Promise!Undecided
  BY <1>2, <1>3 DEF Promise!Undecided
<1> QED
  BY <1>1, <1>2, <1>3, <1>4, <1>5, <1>6 DEF Promise!Decide

\* Sending is ingesting.
LEMMA IngestKept ==
  ASSUME DeliveryInv, DeliveryInv', SendAccepted \/ SendRefused \/ SendUnknown, [Next]_vars
  PROVE  Promise!Ingest
<1>1. /\ UNCHANGED <<recorded, expired, Delivered, Omitted, watermark>>
      /\ At("send")
  BY DEF SendAccepted, SendRefused, SendUnknown, source, outcome, Delivered, Omitted
<1>2. remote \subseteq remote'
  BY RemoteMove DEF DeliveryInv
<1>3. \A b, c \in remote' : b.id = c.id => b = c
  <2>1. \A b \in remote' : \E k \in DOMAIN spans' : spans'[k].body = b
    BY DEF DeliveryInv, PlanInv, EvidenceKnown
  <2>2. \A j, k \in DOMAIN spans' : spans'[j].body.id = spans'[k].body.id => j = k
    BY DEF DeliveryInv, PlanInv, OwnersFirst
  <2> QED
    BY <2>1, <2>2
<1>4. \A b \in remote' \ remote : Log[b.by].run \notin OptedOut
  <2> SUFFICES ASSUME NEW b \in remote' \ remote PROVE Log[b.by].run \notin OptedOut
    OBVIOUS
  <2>1. PICK k \in DOMAIN spans' : spans'[k].body = b
    BY DEF DeliveryInv, PlanInv, EvidenceKnown
  <2> QED
    BY <2>1 DEF DeliveryInv, PlanInv, OwnersFirst
<1> QED
  BY <1>1, <1>2, <1>3, <1>4 DEF Promise!Ingest

\* Finish advances.
LEMMA AdvanceKept ==
  ASSUME DeliveryInv, DecidedInv, DeliveryInv', DecidedInv', Finish
  PROVE  Promise!Advance
<1>1. UNCHANGED <<recorded, expired, remote, Delivered, Omitted>>
  BY DEF Finish, source, Delivered, Omitted
<1>2. watermark' \in watermark + 1 .. recorded
  BY FinishAdvances DEF DeliveryInv, DecidedInv
<1>3. 1 .. watermark' \subseteq Delivered' \cup Omitted'
  <2>1. (TypeOK /\ PlanInv /\ DecidedInv =>
           \A n : Settled(n) => n \in Delivered \cup Omitted)'
    BY DecidedIs, PTL
  <2>2. (\A n \in 1 .. watermark : Settled(n))'
    BY DEF DeliveryInv, PlanInv, WatermarkSettled
  <2> QED
    BY <2>1, <2>2 DEF DeliveryInv
<1> QED
  BY <1>1, <1>2, <1>3 DEF Promise!Advance

\* Every step is one of the promise, or changes nothing of it.
LEMMA PromiseStep ==
  DeliveryInv /\ DecidedInv /\ DeliveryInv' /\ DecidedInv' /\ [Next]_vars
    => [Promise!Next]_<<recorded, expired, remote, Delivered, Omitted, watermark>>
<1> SUFFICES ASSUME DeliveryInv, DecidedInv, DeliveryInv', DecidedInv', [Next]_vars
             PROVE  \/ Promise!Next
                    \/ UNCHANGED <<recorded, expired, remote, Delivered, Omitted, watermark>>
  OBVIOUS
<1>1. CASE Freeze \/ Acknowledge
  BY <1>1, DecideKept DEF Promise!Next
<1>2. CASE SendAccepted \/ SendRefused \/ SendUnknown
  BY <1>2, IngestKept DEF Promise!Next
<1>3. CASE Finish
  BY <1>3, AdvanceKept DEF Promise!Next
<1>4. CASE Record
  BY <1>4 DEF Record, outcome, Delivered, Omitted, Promise!Next, Promise!Write
<1>5. CASE Expire
  BY <1>5 DEF Expire, outcome, Delivered, Omitted, Promise!Next, Promise!Age
<1>6. CASE ~(\/ Freeze \/ Acknowledge \/ SendAccepted \/ SendRefused \/ SendUnknown
             \/ Finish \/ Record \/ Expire)
  BY <1>6 DEF Next, SenderStep, vars, source, outcome, Resume, Start, KeepPlan,
    FreezeRefused, NextBatch, ValidateBatch, BeginDelivery, Reject, Restart,
    Delivered, Omitted
<1> QED
  BY <1>1, <1>2, <1>3, <1>4, <1>5, <1>6

\* For every log, batch size, policy and number of restarts the outbox implements
\* DeliveryPromise: every record is decided once, with its span and all owners of it
\* at Logfire or for a reason to leave it out, Logfire has one body of a span and
\* nothing of a run that opted out, and the watermark moves on over decided records.
THEOREM PromiseIsKept == Spec => KeepsDeliveryPromise
<1>1. Init => Promise!Init
  BY DEF Init, Promise!Init, Delivered, Omitted
<1>2. Spec => [](DeliveryInv /\ DecidedInv)
  BY Starts, StartsDecided, Goes, DecidedStep, PTL DEF Spec
<1>3. DeliveryInv /\ DecidedInv /\ DeliveryInv' /\ DecidedInv' /\ [Next]_vars
        => [Promise!Next]_<<recorded, expired, remote, Delivered, Omitted, watermark>>
  BY PromiseStep
<1> QED
  BY <1>1, <1>2, <1>3, PTL DEF Spec, KeepsDeliveryPromise, Promise!Spec, Promise!promiseVars
=============================================================================
