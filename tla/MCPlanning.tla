----------------------------- MODULE MCPlanning -----------------------------
(* Instances of PlanningConversation. *)
EXTENDS PlanningConversation

Says(what, version, by, queued) ==
    [says |-> what, version |-> version, by |-> by, queued |-> queued]

\* Two participants and an outsider; approvals of two revisions.
AllPrompts ==
    {Says("answer", 0, "operator", "no"), Says("answer", 0, "operator", "yes"),
     Says("approve", 1, "approver", "no"), Says("approve", 2, "approver", "no"),
     Says("approve", 1, "operator", "no"), Says("approve", 1, "outsider", "no"),
     Says("pause", 0, "operator", "no"), Says("resume", 0, "operator", "no"),
     Says("stop", 0, "operator", "no")}

\* A pause and its resume.
PauseAndResume == {Says("pause", 0, "operator", "no"), Says("resume", 0, "operator", "no")}
=============================================================================
