-------------------------------- MODULE Table --------------------------------
(***************************************************************************)
(* What an EntityRegistry promises, however many maps and objects it keeps *)
(* it in: one row for each entity that was listed, and in it the last      *)
(* state that the device has reported of this very entity.                 *)
(***************************************************************************)
EXTENDS Integers

CONSTANT Slots   \* where an entity goes: its domain and its key

VARIABLES
  shown,   \* shown[s]: number of the report shown, 0 for none, -1 for no entity
  news     \* the latest report: its slot, its number

vars == <<shown, news>>

Init ==
  /\ shown = [s \in Slots |-> -1]
  /\ news = [slot |-> "none", n |-> 0]

\* A new entity shows no state, whatever its slot held before.
List ==
  /\ \E s \in Slots : shown' = [shown EXCEPT ![s] = 0]
  /\ UNCHANGED news

Report ==
  /\ \E s \in Slots : news' = [slot |-> s, n |-> news.n + 1]
  /\ UNCHANGED shown

Store ==
  /\ news.n > 0
  /\ shown[news.slot] # -1
  /\ shown' = [shown EXCEPT ![news.slot] = news.n]
  /\ UNCHANGED news

Clear ==
  /\ shown' = [s \in Slots |-> -1]
  /\ UNCHANGED news

Next == List \/ Report \/ Store \/ Clear

Spec == Init /\ [][Next]_vars

==============================================================================
