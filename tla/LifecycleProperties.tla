------------------------- MODULE LifecycleProperties -------------------------
(***************************************************************************)
(* What the life cycle of a Client must and must not do, the abstract      *)
(* Session it implements, and the invariant from which both are proved.    *)
(***************************************************************************)
EXTENDS Lifecycle

Connecting == {k \in Attempt : connector[k] \in
                 {"dialing", "hello", "await", "accepted", "reopen", "spawn"}}
Reading == {k \in Attempt : reader[k] \in
              {"starting", "reading", "failed", "lost"}}
Retrying == {k \in Attempt : retry[k] \in {"select", "backoff"}}

\* The latest attempt has one goroutine at most that may replace c.framer,
\* c.done and c.connected, all written without a lock: the one that connects,
\* the read loop that may still start a reconnectLoop, or that reconnectLoop.
\* No earlier attempt has one.
OneDriver ==
  /\ Connecting \cup Reading \cup Retrying \subseteq {attempts}
  /\ Connecting \cap Reading = {}
  /\ Connecting \cap Retrying = {}
  /\ Reading \cap Retrying = {}

\* A read loop reads the connection it was started for and will close the
\* channel made for it, though it takes both from fields that change.
ReaderOwnsFramer ==
  \A k \in Attempt :
    /\ reader[k] \in {"starting", "reading"} => framer = k /\ done = k
    /\ reader[k] \notin {"none", "starting"} => readerDone[k] = k

\* No read loop closes a done channel twice, which would panic.
DoneClosedOnce ==
  \A k \in Attempt : reader[k] = "exiting" => readerDone[k] \notin doneClosed

\* Connected() is true only while the current connection has a read loop, or
\* a connector about to start it, that will reset the flag when it is lost.
ConnectedHasReader ==
  connected => /\ framer = attempts
               /\ \/ connector[attempts] \in {"reopen", "spawn"}
                  \/ reader[attempts] \in {"starting", "reading"}

\* A connection that the client's own Close ended is never reported to
\* onDisconnect, as long as frames decode.
SilentClose == \A k \in Attempt : reader[k] = "lost" => conn[k] # "close"

\* While frames decode, no connection but the current one is open: a
\* reconnection leaks none, and Close has only one to close.
NoOrphan == \A k \in Attempt : conn[k] = "open" => framer = k

\* Until Disconnect is called, a cancelled context allows one more attempt at
\* most, the one whose timer had fired.
CancelBoundsRetries == reconnect => late <= 1

Returned(a) == app[a] = "returned"

\* Once a Close has returned, no reconnection makes the client one that is
\* connected and not closed: Close "closes the connection to the ESPHome
\* device and stops all background goroutines".
ClosedStaysClosed ==
  \A a \in Apps : Returned(a) => ~(connected /\ ~closed)

\* onDisconnect "fires on unexpected disconnection": never for a connection
\* that the device ended because Disconnect asked it to.
SilentDisconnect == \A k \in Attempt : reader[k] = "lost" => conn[k] # "farewell"

\* Done() is closed when the read loop exits: with no goroutine left that
\* connects, reads or retries, it is.
DoneClosedAtRest ==
  /\ Dialed
  /\ \A k \in Attempt : reader[k] \in {"none", "exited"}
  /\ Connecting \cup Retrying = {}
  => done \in doneClosed

\* The keepalive loop closes the connection whose ping failed, no other one.
KeepaliveClosesOwn ==
  [][\A k \in Attempt :
       keepalive[k] = "failed" /\ keepalive'[k] = "exited" =>
         \A c \in Attempt : conn'[c] # conn[c] => pinged[k] = c]_vars

\* The HelloRequest is the first message on a connection: neither a ping nor
\* a DisconnectRequest is written to it before.
HelloFirst ==
  [][\/ \E k \in Attempt : keepalive[k] = "ping" /\ keepalive'[k] = "await"
     \/ \E a \in Apps : app[a] = "asking" /\ app'[a] = "waiting"
     => connector[framer] # "hello"]_vars

\* Close stops all background goroutines.
CloseStopsGoroutines ==
  \A a \in Apps : Returned(a) ~>
    \A k \in Attempt : /\ reader[k] \in {"none", "exited"}
                       /\ keepalive[k] \in {"none", "exited"}
                       /\ k \notin Connecting \cup Retrying

\* Cancelling the context stops the keepalive loops and the reconnect loop.
CancelStopsLoops ==
  cancelled ~> \A k \in Attempt : /\ keepalive[k] \in {"none", "exited"}
                                  /\ k \notin Retrying

\* Cancelling the context ends every read loop too.
CancelStopsReadLoop ==
  cancelled ~> \A k \in Attempt : reader[k] \in {"none", "exited"}

\* A connection on which a ping failed is closed, though the keepalive loop
\* may find another one behind c.framer by then.
DeadConnectionEnds ==
  \A k, c \in Attempt :
    keepalive[k] = "failed" /\ pinged[k] = c ~> conn[c] # "open"

\* A connection that was lost or refused, and a dial that failed, are followed
\* by another attempt, unless the context is cancelled or Disconnect has been
\* called.  (Attempt MaxAttempts gets as far as waiting for its timer.)
LossIsRetried ==
  \A k \in Attempt :
    conn[k] \notin {"none", "open"} \/ connector[k] = "failed" ~>
      \/ attempts > k \/ cancelled \/ ~reconnect
      \/ k = MaxAttempts /\ retry[k] = "backoff"

-----------------------------------------------------------------------------
(* The life cycle implements Session: the phase is that of the latest      *)
(* attempt's driver.                                                       *)

Phase ==
  IF attempts \in Connecting THEN "connecting"
  ELSE IF reader[attempts] \in {"starting", "reading"} THEN "up"
  ELSE IF attempts \in Reading THEN "ending"
  ELSE IF attempts \in Retrying THEN "waiting"
  ELSE "off"

Promise == INSTANCE Session
             WITH phase <- Phase, epoch <- attempts, available <- connected

\* Whatever the interleaving, the client runs one connection after another,
\* reports the end of each at once and begins none after it gave up.
ImplementsSession == Promise!Spec

-----------------------------------------------------------------------------
(* The inductive invariant.                                                *)

\* An attempt that has not begun has left no trace.
Untouched ==
  \A k \in Attempt : k > attempts =>
    /\ conn[k] = "none"
    /\ connector[k] = "none"
    /\ reader[k] = "none"
    /\ retry[k] = "none"

\* The three goroutines of an attempt follow one another.
Succession ==
  \A k \in Attempt :
    /\ reader[k] # "none" => connector[k] = "returned"
    /\ retry[k] # "none" => \/ connector[k] = "failed"
                            \/ reader[k] \in {"exiting", "exited"}

\* The driver of the latest attempt owns c.framer and c.done.
Ownership ==
  /\ done = attempts
  /\ \A k \in Attempt :
       /\ \/ k \in Connecting /\ connector[k] # "dialing"
          \/ k \in Reading
          => framer = k
       /\ reader[k] \notin {"none", "starting"} => readerDone[k] = k
       /\ k \in doneClosed => reader[k] = "exited"

Inv == TypeOK /\ OneDriver /\ Untouched /\ Succession /\ Ownership
         /\ ConnectedHasReader

\* While frames decode: a lost connection has ended, none is open while the
\* next one is being dialled, and only a cancelled client closes its own.
Containment ==
  /\ NoOrphan
  /\ SilentClose
  /\ \A k \in Attempt :
       /\ reader[k] \in {"failed", "lost"} => conn[k] # "open"
       /\ connector[k] = "dialing" \/ k \in Retrying =>
            \A j \in Attempt : conn[j] # "open"
       /\ conn[k] = "close" => cancelled
  /\ \A a \in Apps : app[a] = "shut" => cancelled

\* Until Disconnect is called: after the one late attempt, no backoff is
\* entered.
Lateness ==
  /\ CancelBoundsRetries
  /\ reconnect /\ late = 1 => /\ cancelled
                              /\ \A k \in Attempt : retry[k] # "backoff"

==============================================================================
