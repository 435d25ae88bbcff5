------------------------------ MODULE MCOptions ------------------------------
(* Lifecycle for TLC, for two clients: one with the options of the           *)
(* configuration, and a plain one, dialled without WithReconnect.            *)
EXTENDS LifecycleProperties

Plain == INSTANCE LifecycleProperties WITH Reconnect <- FALSE

\* A property of this form speaks of the executions of one client alone: the
\* two differ in the initial value of reconnect.
IsPlain == ~reconnect

\* What a client does, and what is fair, does not depend on the option, but
\* through the variable reconnect.
EitherSpec == (Init \/ Plain!Init) /\ [][Next]_vars /\ Fairness

\* Close stops all background goroutines of a plain client.
PlainCloseStops == IsPlain => CloseStopsGoroutines

==============================================================================
