----------------------------- MODULE MCLifecycle -----------------------------
(* Lifecycle for TLC: the application goroutines are interchangeable where   *)
(* no temporal property is checked.                                          *)
EXTENDS LifecycleProperties, TLC

AppSymmetry == Permutations(Apps)

==============================================================================
