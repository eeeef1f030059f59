--------------------------- MODULE SessionPromise ---------------------------
(***************************************************************************)
(* What the publication of a run promises about its native session, with   *)
(* requests, answers, reads, retries, policies and deaths left out: the    *)
(* session is created once; an activity is staged once, and none after the *)
(* last word; what the session shows grows by one activity at a time, in   *)
(* the order in which they were staged; the ledger takes an activity for   *)
(* shown once, in order and only when it is; and when it gives the session *)
(* up it stages nothing more and takes nothing more for shown.             *)
(***************************************************************************)
EXTENDS Naturals, Sequences

CONSTANT Terminal  \* the key of the terminal response

VARIABLES
  sessions,  \* how many sessions Linear has for the run
  shown,     \* the keys of the activities it shows
  staged,    \* the keys of the activities in the order in which they are to be shown
  known,     \* those the ledger knows to be shown, by their places
  givenUp    \* the session is no longer used

promiseVars == <<sessions, shown, staged, known, givenUp>>

Init ==
  /\ sessions = 0 /\ shown = <<>>
  /\ staged = <<>> /\ known = {} /\ givenUp = FALSE

-----------------------------------------------------------------------------
(* Linear, at once or late.                                                *)

Create == sessions = 0 /\ sessions' = 1 /\ UNCHANGED shown

Show ==
  /\ sessions = 1 /\ Len(shown) < Len(staged)
  /\ shown' = Append(shown, staged[Len(shown) + 1])
  /\ UNCHANGED sessions

-----------------------------------------------------------------------------
(* The ledger.                                                             *)

Stage ==
  /\ ~givenUp
  /\ Len(staged') >= Len(staged)
  /\ \A i \in DOMAIN staged : staged'[i] = staged[i]
  /\ \A i, j \in DOMAIN staged' : staged'[i] = staged'[j] => i = j
  /\ \A i \in DOMAIN staged' : staged'[i] = Terminal => i = Len(staged')
  /\ UNCHANGED <<known, givenUp>>

Know ==
  /\ ~givenUp
  /\ \E i \in DOMAIN shown' :
       /\ i \notin known /\ 1 .. i - 1 \subseteq known
       /\ known' = known \cup {i}
  /\ UNCHANGED <<staged, givenUp>>

GiveUp ==
  /\ ~givenUp /\ givenUp' = TRUE
  /\ UNCHANGED <<staged, known>>

\* A request is one step with its effect and with what its answer says, or two.
Next ==
  /\ Create \/ Show \/ UNCHANGED <<sessions, shown>>
  /\ Stage \/ Know \/ GiveUp \/ UNCHANGED <<staged, known, givenUp>>

Spec == Init /\ [][Next]_promiseVars
=============================================================================
