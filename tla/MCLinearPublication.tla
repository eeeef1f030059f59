------------------------ MODULE MCLinearPublication ------------------------
(***************************************************************************)
(* LinearPublication for TLC.                                              *)
(***************************************************************************)
EXTENDS LinearPublication
=============================================================================
