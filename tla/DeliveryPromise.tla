--------------------------- MODULE DeliveryPromise ---------------------------
(***************************************************************************)
(* What the outbox promises about trace records, with every range, plan,   *)
(* batch, retry, configuration and restart left out: each record is        *)
(* decided once, delivered when its span and all owners of it are at       *)
(* Logfire or omitted for a reason; Logfire has one body of a span and     *)
(* none of an execution that opted out; and the watermark moves on over    *)
(* decided records, never back.                                            *)
(***************************************************************************)
EXTENDS Integers

CONSTANTS
  Log,       \* the trace records in sequence: execution and leaf span
  OptedOut,  \* executions Logfire is not told of
  NoParent   \* the parent of an execution's span

VARIABLES
  recorded,   \* records written so far
  expired,    \* the first of them that are too old to be sent
  remote,     \* spans Logfire has ingested
  delivered,  \* records known to be there
  omitted,    \* records left out
  watermark   \* all records up to here are decided

promiseVars == <<recorded, expired, remote, delivered, omitted, watermark>>

Init ==
  /\ recorded = 0 /\ expired = 0 /\ watermark = 0
  /\ remote = {} /\ delivered = {} /\ omitted = {}

Undecided == (1 .. recorded) \ (delivered \cup omitted)

\* The span of a record is there with its owner, the owner of that one, and so on.
Whole(n) ==
  \E chain \in SUBSET remote :
    /\ \E b \in chain : b.id = Log[n].leaf
    /\ \A b \in chain : b.parent = NoParent \/ \E c \in chain : c.id = b.parent

Write ==
  /\ recorded' = recorded + 1
  /\ UNCHANGED <<expired, remote, delivered, omitted, watermark>>

Age ==
  /\ expired < recorded /\ expired' = expired + 1
  /\ UNCHANGED <<recorded, remote, delivered, omitted, watermark>>

Ingest ==
  /\ remote \subseteq remote'
  /\ \A b, c \in remote' : b.id = c.id => b = c
  /\ \A b \in remote' \ remote : Log[b.by].run \notin OptedOut
  /\ UNCHANGED <<recorded, expired, delivered, omitted, watermark>>

Decide ==
  /\ delivered \subseteq delivered' /\ omitted \subseteq omitted'
  /\ delivered' \cap omitted' = {}
  /\ \A n \in delivered' \ delivered :
       n \in Undecided /\ Log[n].run \notin OptedOut /\ Whole(n)
  /\ \A n \in omitted' \ omitted :
       n \in Undecided /\ (Log[n].run \in OptedOut \/ n <= expired)
  /\ UNCHANGED <<recorded, expired, remote, watermark>>

Advance ==
  /\ watermark' \in watermark + 1 .. recorded
  /\ 1 .. watermark' \subseteq delivered \cup omitted
  /\ UNCHANGED <<recorded, expired, remote, delivered, omitted>>

Next == Write \/ Age \/ Ingest \/ Decide \/ Advance

Spec == Init /\ [][Next]_promiseVars
=============================================================================
