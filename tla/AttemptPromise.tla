---------------------------- MODULE AttemptPromise ----------------------------
(***************************************************************************)
(* What the ledger promises about the external work of an attempt, with    *)
(* every phase, lease, owner, crash and recovery left out: a runner is     *)
(* launched once and again only with a fresh permit from the operator,     *)
(* never after its result was recorded; the result is recorded once, and   *)
(* an attempt is closed once, "by its result" only after it was recorded.  *)
(***************************************************************************)
EXTENDS Naturals

CONSTANT Attempts

VARIABLES
  left,      \* why the attempt was closed, "none" while it was not
  recorded,  \* its runner's result is durable
  launches,  \* runner processes started for it
  permits    \* relaunches the operator allowed

promiseVars == <<left, recorded, launches, permits>>

Reasons == {"result", "skill", "operator", "cancel"}

Init ==
  /\ left = [a \in Attempts |-> "none"]
  /\ recorded = [a \in Attempts |-> FALSE]
  /\ launches = [a \in Attempts |-> 0]
  /\ permits = [a \in Attempts |-> 0]

Pending(a) == left[a] = "none" /\ ~recorded[a]

Launch(a) ==
  /\ Pending(a) /\ launches[a] <= permits[a]
  /\ launches' = [launches EXCEPT ![a] = @ + 1]
  /\ UNCHANGED <<left, recorded, permits>>

Permit(a) ==
  /\ Pending(a) /\ launches[a] > permits[a]
  /\ permits' = [permits EXCEPT ![a] = @ + 1]
  /\ UNCHANGED <<left, recorded, launches>>

Record(a) ==
  /\ Pending(a)
  /\ recorded' = [recorded EXCEPT ![a] = TRUE]
  /\ UNCHANGED <<left, launches, permits>>

Close(a) ==
  /\ left[a] = "none"
  /\ \E why \in Reasons :
       /\ why = "result" => recorded[a]
       /\ left' = [left EXCEPT ![a] = why]
  /\ UNCHANGED <<recorded, launches, permits>>

Next == \E a \in Attempts : Launch(a) \/ Permit(a) \/ Record(a) \/ Close(a)

Spec == Init /\ [][Next]_promiseVars
=============================================================================
