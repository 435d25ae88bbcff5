------------------------------- MODULE MCStates -------------------------------
(* States for TLC: applications, entities and values are interchangeable.    *)
EXTENDS States, TLC

StatesSymmetry ==
  Permutations(Apps) \cup Permutations(Entities) \cup Permutations(Values)

==============================================================================
