------------------------------ MODULE MCKernel ------------------------------
(* The default workflow (factory/workflows/default.dot), with a retry loop on *)
(* Verifying as docs/CUSTOMIZATION.md describes it, for TLC.                 *)
EXTENDS WorkflowKernel

CONSTANTS Nowhere, Nothing

human == {"status", "control"}
Edge(from, to, on, by) ==
  [from |-> from, to |-> to, on |-> on, cond |-> Nowhere, by |-> by, feedback |-> FALSE]

WorkStates == {"Autoplanning", "Planning", "Implementing", "Verifying", "Reworking",
               "Investigating"}
DefaultStates == WorkStates \cup
  {"Todo", "Ready", "Review", "Blocked", "Done", "Canceled", "Duplicate"}

Failing == {"Autoplanning", "Implementing", "Verifying", "Reworking"}

DefaultEdges ==
  { Edge("Todo", "Autoplanning", "claim", {"claim"}),
    Edge("Todo", "Planning", "human", human),
    Edge("Autoplanning", "Ready", "complete", {"handoff"}),
    Edge("Planning", "Ready", "complete", human),
    Edge("Ready", "Implementing", "claim", human \cup {"claim"}),
    Edge("Implementing", "Verifying", "complete", human \cup {"handoff"}),
    Edge("Verifying", "Review", "complete", human \cup {"handoff"}),
    Edge("Reworking", "Verifying", "complete", human \cup {"handoff"}),
    Edge("Planning", "Investigating", "failed", human),
    Edge("Autoplanning", "Investigating", "failed", {"recovery"}),
    Edge("Investigating", "Blocked", "blocked", human \cup {"handoff"}),
    Edge("Blocked", "Investigating", "resume", human),
    Edge(Nothing, "Canceled", "cancel", human),
    Edge(Nothing, "Duplicate", "duplicate", human \cup {"handoff"}),
    [Edge("Investigating", "Autoplanning", "retry", {"handoff"})
       EXCEPT !.cond = "Autoplanning"],
    [Edge("Investigating", "Planning", "retry", human) EXCEPT !.cond = "Planning"],
    [Edge("Review", "Done", "approve", human) EXCEPT !.feedback = TRUE],
    [Edge("Review", "Reworking", "revise", human) EXCEPT !.feedback = TRUE] }
  \cup { Edge(s, "Investigating", "failed", human \cup {"recovery"}) :
           s \in Failing \ {"Autoplanning"} }
  \cup { [Edge("Investigating", s, "retry", human \cup {"handoff"}) EXCEPT !.cond = s] :
           s \in Failing \ {"Autoplanning"} }

\* docs/CUSTOMIZATION.md:46-53: a node that retries itself, and where it goes.
RetryEdges ==
  { Edge("Verifying", "Verifying", "retry", {"handoff"}),
    Edge("Verifying", "Canceled", "exhausted", {"handoff"}) }

KernelEdges == DefaultEdges \cup RetryEdges
KernelStatusOf == [s \in DefaultStates |-> s]
KernelRetries == [s \in {"Verifying"} |-> 1]
KernelLabels == {"claim", "human", "complete", "failed", "blocked", "resume", "cancel",
                 "duplicate", "retry", "approve", "revise", "exhausted"}
KernelSuccess == {"complete"}

\* The shape the theorem about resuming asks for is the shape of this graph.
ASSUME KernelRecoveryIsShaped == RecoveryIsShaped
=============================================================================
