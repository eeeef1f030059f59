---------------------------- MODULE MCScheduler ----------------------------
(* Constants of the model-checked instances of Scheduler. *)
EXTENDS Scheduler
OneProject == [e \in Executions |-> "alpha"]
NoProjectLimit == [p \in {"alpha"} |-> HostLimit]
=============================================================================
