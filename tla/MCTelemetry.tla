----------------------------- MODULE MCTelemetry -----------------------------
(***************************************************************************)
(* Five records of two executions for TLC.  The second puts a1 below s1,   *)
(* which the first has frozen below e1: so no record needs s1 before the   *)
(* third does, perhaps under another policy than froze it.  The fourth     *)
(* belongs to a run that opted out, the fifth cannot be mapped.            *)
(***************************************************************************)
EXTENDS TelemetryOutbox

Entry(run, owners, leaf) == [run |-> run, owners |-> owners, leaf |-> leaf]
FiveRecords ==
  <<Entry("e1", <<"a1">>, "r1"), Entry("e1", <<"s1", "a1">>, "r2"),
    Entry("e1", <<"s1">>, "r3"), Entry("e2", <<>>, "r4"), Entry("e1", <<>>, "r5")>>
Second == {"e2"}
Fifth == {5}
=============================================================================
