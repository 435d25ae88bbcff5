------------------------------- MODULE MCCalls -------------------------------
(* Calls for TLC: what applications do that use the client in turn, at once, *)
(* or to listen.                                                             *)
EXTENDS Calls, TLC

CONSTANTS w1, w2

Both(x) == [w \in Apps |-> x]
Each(x, y) == w1 :> x @@ [w \in Apps |-> y]
Only(n) == Each(n, 0)

Profile(kinds, calls, impatient, surprises, redials) ==
  [kinds |-> kinds, calls |-> calls, impatient |-> impatient,
   surprises |-> surprises, redials |-> redials]

\* One goroutine that makes one call after another and waits for each.
InTurn == Profile(Both({"connect", "list", "slots"}), Only(2), FALSE, 1, 0)

\* One that connects to a peer, while reports come that nobody asked for.
Surprised == Profile(Both({"connect"}), Only(1), FALSE, 2, 0)

\* One that makes a GATT call over a reconnection, while reconnectLoop lists.
Reconnecting ==
  Profile(Both({"services", "notify"}), Only(1), FALSE, 1, 1)

\* One that lists, and one that writes or turns notifications on or off.
Sharing ==
  Profile(Each({"list"}, {"write", "notify", "mute"}), Both(1), FALSE, 1, 0)

\* Two goroutines that lose patience.
AtOnce == Profile(Both({"read"}), Both(1), TRUE, 0, 0)

\* Two goroutines that subscribe and unsubscribe, over a reconnection.
Listening == Profile(Both({"adverts"}), Both(1), FALSE, 0, 1)

AllProfiles ==
  {InTurn, Surprised, Reconnecting, Sharing, AtOnce, Listening}

TwoReaders == {Profile(Both({"read"}), Both(1), TRUE, 0, 0)}
TwoListers == {Profile(Both({"list"}), Both(1), FALSE, 0, 0)}

==============================================================================
