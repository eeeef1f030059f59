------------------------------ MODULE MCLinear ------------------------------
(* The part of the default workflow that people, agents and the runtime share *)
(* most, for TLC: a pickup, work, a failure with its investigation, a hand-   *)
(* over to people, and the global cancel edge.                                *)
EXTENDS LinearConvergence

CONSTANTS Nowhere, Nothing

human == {"status", "control"}
Edge(from, to, on, by) ==
  [from |-> from, to |-> to, on |-> on, cond |-> Nowhere, by |-> by, feedback |-> FALSE]

SmallEdges ==
  { Edge("Ready", "Implementing", "claim", human \cup {"claim"}),
    Edge("Implementing", "Review", "complete", human \cup {"handoff"}),
    Edge("Implementing", "Investigating", "failed", human \cup {"recovery"}),
    Edge("Investigating", "Blocked", "blocked", human \cup {"handoff"}),
    Edge("Blocked", "Investigating", "resume", human),
    Edge(Nothing, "Canceled", "cancel", human),
    [Edge("Investigating", "Implementing", "retry", human \cup {"handoff"})
       EXCEPT !.cond = "Implementing"],
    [Edge("Review", "Done", "approve", human) EXCEPT !.feedback = TRUE] }

SmallStates == {"Ready", "Implementing", "Investigating", "Blocked", "Review",
                "Done", "Canceled"}
SmallStatusOf == [s \in SmallStates |-> s]
NoRetries == [s \in {} |-> 0]
SmallLabels == {"claim", "complete", "failed", "blocked", "resume", "cancel", "retry",
                "approve"}

\* The shape the theorem about resuming asks for is the shape of this graph.
ASSUME SmallRecoveryIsShaped == RecoveryIsShaped
=============================================================================
