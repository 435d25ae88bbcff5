------------------------------- MODULE Session -------------------------------
(***************************************************************************)
(* What a Client promises about its connection to the device, whatever     *)
(* goroutines bring it about: one connection after another, each of them   *)
(* connecting, then up, then ending, the next one begun only after the     *)
(* previous one has ended, and none after the client has given up.         *)
(***************************************************************************)
EXTENDS Naturals

VARIABLES
  phase,       \* "connecting", "up", "ending", "waiting" or "off"
  epoch,       \* number of connections begun so far
  available    \* what Connected() reports

vars == <<phase, epoch, available>>

Init ==
  /\ phase = "connecting"
  /\ epoch = 1
  /\ available = FALSE

\* The connection stands: it is reported, then used.
Report ==
  /\ phase = "connecting"
  /\ available' = TRUE
  /\ UNCHANGED <<phase, epoch>>

Establish ==
  /\ phase = "connecting"
  /\ phase' = "up"
  /\ UNCHANGED <<epoch, available>>

Refuse ==
  /\ phase = "connecting"
  /\ ~available
  /\ phase' \in {"waiting", "off"}
  /\ UNCHANGED <<epoch, available>>

\* The application closes the client: it is not available from here on,
\* though its connection may take a while to end.
Withdraw ==
  /\ available
  /\ available' = FALSE
  /\ UNCHANGED <<phase, epoch>>

\* The end of a connection is reported at once.
Lose ==
  /\ phase = "up"
  /\ phase' = "ending"
  /\ available' = FALSE
  /\ UNCHANGED epoch

Settle ==
  /\ phase = "ending"
  /\ phase' \in {"waiting", "off"}
  /\ UNCHANGED <<epoch, available>>

Redial ==
  /\ phase = "waiting"
  /\ phase' = "connecting"
  /\ epoch' = epoch + 1
  /\ UNCHANGED available

GiveUp ==
  /\ phase = "waiting"
  /\ phase' = "off"
  /\ UNCHANGED <<epoch, available>>

Next == \/ Report \/ Establish \/ Refuse \/ Withdraw \/ Lose \/ Settle
        \/ Redial \/ GiveUp

Spec == Init /\ [][Next]_vars

==============================================================================
