---------------------------- MODULE MCPreparation ----------------------------
(***************************************************************************)
(* Two capabilities, the first of attempt scope and the second of          *)
(* execution scope, for TLC.                                               *)
(***************************************************************************)
EXTENDS Preparation

TwoCapabilities == <<"browser", "service">>
MixedScopes == [c \in {"browser", "service"} |->
                  IF c = "service" THEN "execution" ELSE "attempt"]
=============================================================================
