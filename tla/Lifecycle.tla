------------------------------ MODULE Lifecycle ------------------------------
(***************************************************************************)
(* The life cycle of a Client: DialWithContext, connect, handshake,        *)
(* readLoop, keepaliveLoop, reconnectLoop, Close and Disconnect of         *)
(* client.go, as the goroutines that run them.                             *)
(*                                                                         *)
(* The k-th call of connect() is attempt k: attempt 1 is made by Dial, the *)
(* later ones by a reconnectLoop.  An attempt names everything that the    *)
(* code creates for it: the done channel, the connection behind c.framer,  *)
(* the read loop and the keepalive loop.                                   *)
(***************************************************************************)
EXTENDS Integers

CONSTANTS
  MaxAttempts,    \* bound on the number of calls of connect()
  Apps,           \* application goroutines that hold the client
  Calls,          \* what they may call: "Close", "Disconnect"
  Reconnect,      \* WithReconnect was given a positive interval
  Keepalive,      \* the keepalive interval is positive
  BadFrames,      \* the device may send a frame that RecvMessage rejects
  ParentCancels   \* the context given to DialWithContext may be cancelled

ASSUME MaxAttemptsAssumption == MaxAttempts \in Nat \ {0}
ASSUME SwitchesAssumption ==
  /\ Reconnect \in BOOLEAN
  /\ Keepalive \in BOOLEAN
  /\ BadFrames \in BOOLEAN
  /\ ParentCancels \in BOOLEAN
  /\ Calls \subseteq {"Close", "Disconnect"}

VARIABLES
  conn,         \* conn[k]: the TCP connection of attempt k, or who ended it
  framer,       \* c.framer: the attempt whose connection it wraps, 0 if nil
  asked,        \* connections on which a DisconnectRequest was written
  attempts,     \* number of calls of connect() so far
  done,         \* c.done: the attempt whose channel it is
  doneClosed,   \* the done channels that have been closed
  readerDone,   \* readerDone[k]: the channel read loop k will close, or 0
  connected,    \* c.connected
  closed,       \* c.closed
  reconnect,    \* c.reconnectInterval > 0
  cancelled,    \* c.ctx is done
  late,         \* number of attempts begun since it is
  kaDone,       \* kaDone[k]: the done channel keepalive loop k watches, or 0
  pinged,       \* pinged[k]: the connection its ping was written to, or 0
  owed,         \* connections on which the device owes a PingResponse
  ponged,       \* keepalive loops whose response channel is full
  connector,    \* connector[k]: the goroutine that makes attempt k
  reader,       \* reader[k]: the readLoop started by attempt k
  retry,        \* retry[k]: the reconnectLoop between attempts k and k + 1
  keepalive,    \* keepalive[k]: the keepaliveLoop started by attempt k
  app           \* app[a]: application goroutine a

net   == <<conn, framer, asked>>
chans == <<attempts, done, doneClosed, readerDone>>
flags == <<connected, closed, reconnect, cancelled, late>>
pings == <<kaDone, pinged, owed, ponged>>
vars  == <<net, chans, flags, pings, connector, reader, retry, keepalive, app>>

\* The other goroutines stay where they are.
OnlyConnector == UNCHANGED <<reader, retry, keepalive, app>>
OnlyReader    == UNCHANGED <<connector, retry, keepalive, app>>
OnlyRetry     == UNCHANGED <<connector, reader, keepalive, app>>
OnlyKeepalive == UNCHANGED <<connector, reader, retry, app>>
OnlyApp       == UNCHANGED <<connector, reader, retry, keepalive>>

Attempt == 1 .. MaxAttempts
AttemptOrNone == Attempt \cup {0}

\* A connection is open, or names what ended it first: the device ("peer",
\* or "farewell" when it had been sent a DisconnectRequest), Close, the
\* keepalive loop, or a failed handshake.
ConnState == {"none", "open", "peer", "farewell", "close", "keepalive",
              "handshake"}
ConnectorState == {"none", "dialing", "hello", "await", "accepted", "reopen",
                   "spawn", "returned", "failed"}
ReaderState == {"none", "starting", "reading", "failed", "lost", "exiting",
                "exited"}
RetryState == {"none", "select", "backoff", "redialed", "stopped"}
KeepaliveState == {"none", "round", "select", "ping", "await", "failed",
                   "exited"}
AppState == {"idle", "asking", "waiting", "closing", "cancel", "shut",
             "returned"}

TypeOK ==
  /\ conn \in [Attempt -> ConnState]
  /\ framer \in AttemptOrNone
  /\ attempts \in Attempt
  /\ done \in Attempt
  /\ readerDone \in [Attempt -> AttemptOrNone]
  /\ connected \in BOOLEAN
  /\ closed \in BOOLEAN
  /\ reconnect \in BOOLEAN
  /\ cancelled \in BOOLEAN
  /\ late \in Nat
  /\ kaDone \in [Attempt -> AttemptOrNone]
  /\ pinged \in [Attempt -> AttemptOrNone]
  /\ asked \subseteq Attempt
  /\ doneClosed \subseteq Attempt
  /\ owed \subseteq Attempt
  /\ ponged \subseteq Attempt
  /\ connector \in [Attempt -> ConnectorState]
  /\ reader \in [Attempt -> ReaderState]
  /\ retry \in [Attempt -> RetryState]
  /\ keepalive \in [Attempt -> KeepaliveState]
  /\ app \in [Apps -> AppState]

Init ==
  /\ conn = [k \in Attempt |-> "none"]
  /\ framer = 0
  /\ asked = {}
  /\ attempts = 1 /\ done = 1 /\ doneClosed = {}
  /\ readerDone = [k \in Attempt |-> 0]
  /\ connected = FALSE /\ closed = FALSE
  /\ reconnect = Reconnect
  /\ cancelled = FALSE /\ late = 0
  /\ kaDone = [k \in Attempt |-> 0]
  /\ pinged = [k \in Attempt |-> 0]
  /\ owed = {} /\ ponged = {}
  /\ connector = [k \in Attempt |-> IF k = 1 THEN "dialing" ELSE "none"]
  /\ reader = [k \in Attempt |-> "none"]
  /\ retry = [k \in Attempt |-> "none"]
  /\ keepalive = [k \in Attempt |-> "none"]
  /\ app = [a \in Apps |-> "idle"]

-----------------------------------------------------------------------------
(* What the goroutines share.                                              *)

Live(k) == k # 0 /\ conn[k] = "open"

\* A write to c.framer.  The kernel may still take it when the device has
\* gone; it fails once the client has closed its own end.
CanWrite == framer # 0 /\ conn[framer] \in {"open", "peer", "farewell"}
WriteFails == framer # 0 /\ conn[framer] # "open"

\* Mutant: the close does not reach the connection.
CloseFramerNot(cause) == UNCHANGED conn

\* c.framer.Close(): closing it again changes nothing.
CloseFramer(cause) ==
  conn' = IF Live(framer) THEN [conn EXCEPT ![framer] = cause] ELSE conn

\* closeMu is held across the steps of Close; elsewhere for one step only.
CloseMuFree == \A a \in Apps : app[a] \notin {"cancel", "shut"}

-----------------------------------------------------------------------------
(* connect(), and what its caller does next.                               *)

\* Mutant: reconnectLoop returns where it should continue.
ConnectFailedReturns(k) ==
  /\ connector' = [connector EXCEPT ![k] = "failed"]
  /\ UNCHANGED <<retry, cancelled>>

\* connect() returned an error: Dial cancels the context and returns it,
\* reconnectLoop goes back to its select with a longer backoff.
ConnectFailed(k) ==
  /\ connector' = [connector EXCEPT ![k] = "failed"]
  /\ retry' = IF k = 1 THEN retry ELSE [retry EXCEPT ![k] = "select"]
  /\ cancelled' = IF k = 1 THEN TRUE ELSE cancelled

DialFails(k) ==
  /\ connector[k] = "dialing"
  /\ ConnectFailed(k)
  /\ UNCHANGED <<net, chans, connected, closed, reconnect, late, pings,
                 reader, keepalive, app>>

\* The connection stands (for Noise: its own handshake too) and replaces
\* c.framer, before the Hello handshake and without a lock.
DialSucceeds(k) ==
  /\ connector[k] = "dialing"
  /\ connector' = [connector EXCEPT ![k] = "hello"]
  /\ conn' = [conn EXCEPT ![k] = "open"]
  /\ framer' = k
  /\ OnlyConnector /\ UNCHANGED <<asked, chans, flags, pings>>

SendHello(k) ==
  /\ connector[k] = "hello"
  /\ CanWrite
  /\ connector' = [connector EXCEPT ![k] = "await"]
  /\ OnlyConnector /\ UNCHANGED <<net, chans, flags, pings>>

\* The connection has ended, or the device answers with another message or
\* another major version.
HandshakeFails(k) ==
  /\ connector[k] \in {"hello", "await"}
  /\ WriteFails \/ connector[k] = "await"
  /\ CloseFramer("handshake")
  /\ ConnectFailed(k)
  /\ UNCHANGED <<framer, asked, chans, connected, closed, reconnect, late,
                 pings, reader, keepalive, app>>

HelloAccepted(k) ==
  /\ connector[k] = "await"
  /\ Live(framer)
  /\ connector' = [connector EXCEPT ![k] = "accepted"]
  /\ OnlyConnector /\ UNCHANGED <<net, chans, flags, pings>>

StoreConnected(k) ==
  /\ connector[k] = "accepted"
  /\ connector' = [connector EXCEPT ![k] = IF k = 1 THEN "spawn" ELSE "reopen"]
  /\ connected' = TRUE
  /\ OnlyConnector
  /\ UNCHANGED <<net, chans, closed, reconnect, cancelled, late, pings>>

\* reconnectLoop only: c.closed = false under closeMu.
Reopen(k) ==
  /\ connector[k] = "reopen"
  /\ CloseMuFree
  /\ connector' = [connector EXCEPT ![k] = "spawn"]
  /\ closed' = FALSE
  /\ OnlyConnector
  /\ UNCHANGED <<net, chans, connected, reconnect, cancelled, late, pings>>

\* The loops start.  What the connector does afterwards (ListEntities,
\* SubscribeStates, onConnect) changes nothing of this state.
Spawn(k) ==
  /\ connector[k] = "spawn"
  /\ connector' = [connector EXCEPT ![k] = "returned"]
  /\ reader' = [reader EXCEPT ![k] = "starting"]
  /\ keepalive' = [keepalive EXCEPT ![k] = IF Keepalive THEN "round" ELSE @]
  /\ UNCHANGED <<net, chans, flags, pings, retry, app>>

ConnectorStep(k) ==
  \/ DialFails(k) \/ DialSucceeds(k) \/ SendHello(k)
  \/ (~Live(framer) /\ HandshakeFails(k))
  \/ StoreConnected(k) \/ Reopen(k) \/ Spawn(k)

-----------------------------------------------------------------------------
(* readLoop.                                                               *)

\* Mutant: the channel to close is never taken.
ReadsUncaptured(k) ==
  /\ reader[k] = "starting"
  /\ reader' = [reader EXCEPT ![k] = "reading"]
  /\ OnlyReader /\ UNCHANGED <<net, chans, flags, pings>>

\* The first statement, defer close(c.done), evaluates c.done.
Reads(k) ==
  /\ reader[k] = "starting"
  /\ reader' = [reader EXCEPT ![k] = "reading"]
  /\ readerDone' = [readerDone EXCEPT ![k] = done]
  /\ OnlyReader
  /\ UNCHANGED <<net, attempts, done, doneClosed, flags, pings>>

\* Dispatch of a PingResponse: every ping call that is waiting for one takes
\* it, whoever asked.
ReadPong(k) ==
  /\ reader[k] = "reading"
  /\ Live(framer)
  /\ framer \in owed
  /\ owed' = owed \ {framer}
  /\ ponged' = ponged \cup
                 {j \in Attempt : keepalive[j] \in {"ping", "await"}}
  /\ UNCHANGED <<net, chans, flags, kaDone, pinged, connector, reader, retry,
                 keepalive, app>>

\* Mutant: the flag is not reset when the connection is lost.
RecvFailsKeepsFlag(k) ==
  /\ reader[k] = "reading"
  /\ BadFrames \/ ~Live(framer)
  /\ reader' = [reader EXCEPT ![k] = "failed"]
  /\ OnlyReader /\ UNCHANGED <<net, chans, flags, pings>>

\* RecvMessage reads from c.framer, whichever connection that is now.  A frame
\* that does not decode ends the read loop and leaves the connection open.
RecvFails(k) ==
  /\ reader[k] = "reading"
  /\ BadFrames \/ ~Live(framer)
  /\ reader' = [reader EXCEPT ![k] = "failed"]
  /\ connected' = FALSE
  /\ OnlyReader
  /\ UNCHANGED <<net, chans, closed, reconnect, cancelled, late, pings>>

\* Mutant: the context is not looked at.
CheckContextSkipped(k) ==
  /\ reader[k] = "failed"
  /\ reader' = [reader EXCEPT ![k] = "lost"]
  /\ OnlyReader /\ UNCHANGED <<net, chans, flags, pings>>

CheckContext(k) ==
  /\ reader[k] = "failed"
  /\ reader' = [reader EXCEPT ![k] = IF cancelled THEN "exiting" ELSE "lost"]
  /\ OnlyReader /\ UNCHANGED <<net, chans, flags, pings>>

\* Mutant: no return after the reconnectLoop is started.
ReportLossGoesOn(k) ==
  /\ reader[k] = "lost"
  /\ reader' = [reader EXCEPT ![k] = "reading"]
  /\ retry' = IF reconnect THEN [retry EXCEPT ![k] = "select"] ELSE retry
  /\ UNCHANGED <<net, chans, flags, pings, connector, keepalive, app>>

\* onDisconnect is called, then a reconnectLoop started.
ReportLoss(k) ==
  /\ reader[k] = "lost"
  /\ reader' = [reader EXCEPT ![k] = "exiting"]
  /\ retry' = IF reconnect THEN [retry EXCEPT ![k] = "select"] ELSE retry
  /\ UNCHANGED <<net, chans, flags, pings, connector, keepalive, app>>

CloseDone(k) ==
  /\ reader[k] = "exiting"
  /\ reader' = [reader EXCEPT ![k] = "exited"]
  /\ doneClosed' = doneClosed \cup {readerDone[k]}
  /\ OnlyReader
  /\ UNCHANGED <<net, attempts, done, readerDone, flags, pings>>

ReaderStep(k) ==
  \/ Reads(k) \/ (~Live(framer) /\ RecvFails(k))
  \/ CheckContext(k) \/ ReportLoss(k) \/ CloseDone(k)

-----------------------------------------------------------------------------
(* reconnectLoop, between two attempts.                                    *)

\* Mutant: the loop sleeps instead of selecting on the context.
EnterBackoffAnyway(k) ==
  /\ retry[k] = "select"
  /\ retry' = [retry EXCEPT ![k] = "backoff"]
  /\ OnlyRetry /\ UNCHANGED <<net, chans, flags, pings>>

\* The select: a context that is already done wins, unless Disconnect set
\* the interval to zero before backoff was read, when either branch may.
EnterBackoff(k) ==
  /\ retry[k] = "select"
  /\ ~cancelled \/ ~reconnect
  /\ retry' = [retry EXCEPT ![k] = "backoff"]
  /\ OnlyRetry /\ UNCHANGED <<net, chans, flags, pings>>

\* Mutant: the select has no case for the context.
StopRetryingNever(k) == FALSE

StopRetrying(k) ==
  /\ retry[k] \in {"select", "backoff"}
  /\ cancelled
  /\ retry' = [retry EXCEPT ![k] = "stopped"]
  /\ OnlyRetry /\ UNCHANGED <<net, chans, flags, pings>>

\* Mutant: c.done is not replaced.
RedialKeepsDone(k) ==
  /\ retry[k] = "backoff"
  /\ attempts < MaxAttempts
  /\ attempts' = attempts + 1
  /\ connector' = [connector EXCEPT ![attempts + 1] = "dialing"]
  /\ retry' = [retry EXCEPT ![k] = "redialed"]
  /\ UNCHANGED <<net, done, doneClosed, readerDone, flags, pings, reader,
                 keepalive, app>>

\* The timer fired: c.done is replaced and connect() called again.
Redial(k) ==
  /\ retry[k] = "backoff"
  /\ attempts < MaxAttempts
  /\ attempts' = attempts + 1
  /\ done' = attempts + 1
  /\ late' = IF cancelled THEN late + 1 ELSE late
  /\ connector' = [connector EXCEPT ![attempts + 1] = "dialing"]
  /\ retry' = [retry EXCEPT ![k] = "redialed"]
  /\ UNCHANGED <<net, doneClosed, readerDone, connected, closed, reconnect,
                 cancelled, pings, reader, keepalive, app>>

RetryStep(k) == EnterBackoff(k) \/ StopRetrying(k) \/ Redial(k)

-----------------------------------------------------------------------------
(* keepaliveLoop, with the requestResponse of its ping.                    *)

\* Every round of the loop evaluates c.done, when it comes to its select.
EnterSelect(k) ==
  /\ keepalive[k] = "round"
  /\ keepalive' = [keepalive EXCEPT ![k] = "select"]
  /\ kaDone' = [kaDone EXCEPT ![k] = done]
  /\ OnlyKeepalive /\ UNCHANGED <<net, chans, flags, pinged, owed, ponged>>

StopKeepalive(k) ==
  /\ keepalive[k] = "select"
  /\ cancelled \/ kaDone[k] \in doneClosed
  /\ keepalive' = [keepalive EXCEPT ![k] = "exited"]
  /\ kaDone' = [kaDone EXCEPT ![k] = 0]
  /\ OnlyKeepalive /\ UNCHANGED <<net, chans, flags, pinged, owed, ponged>>

\* The ticker fired: unless the client is disconnected, ping.
Tick(k) ==
  /\ keepalive[k] = "select"
  /\ keepalive' = [keepalive EXCEPT ![k] = IF connected THEN "ping"
                                                        ELSE "exited"]
  /\ kaDone' = [kaDone EXCEPT ![k] = 0]
  /\ OnlyKeepalive /\ UNCHANGED <<net, chans, flags, pinged, owed, ponged>>

SendPing(k) ==
  /\ keepalive[k] = "ping"
  /\ pinged' = [pinged EXCEPT ![k] = framer]
  /\ \/ /\ CanWrite
        /\ owed' = IF Live(framer) THEN owed \cup {framer} ELSE owed
        /\ keepalive' = [keepalive EXCEPT ![k] = "await"]
     \/ /\ WriteFails
        /\ keepalive' = [keepalive EXCEPT ![k] = "failed"]
        /\ UNCHANGED owed
  /\ OnlyKeepalive /\ UNCHANGED <<net, chans, flags, kaDone, ponged>>

PingAnswered(k) ==
  /\ keepalive[k] = "await"
  /\ k \in ponged
  /\ keepalive' = [keepalive EXCEPT ![k] = "round"]
  /\ pinged' = [pinged EXCEPT ![k] = 0]
  /\ ponged' = ponged \ {k}
  /\ OnlyKeepalive /\ UNCHANGED <<net, chans, flags, kaDone, owed>>

\* The timeout expired, or the done channel was closed.  That needs no guard
\* of its own, as the timeout may expire at any time.
PingFails(k) ==
  /\ keepalive[k] = "await"
  /\ keepalive' = [keepalive EXCEPT ![k] = "failed"]
  /\ OnlyKeepalive /\ UNCHANGED <<net, chans, flags, pings>>

\* The connection is taken for dead: close c.framer, whatever it is by now.
CloseDead(k) ==
  /\ keepalive[k] = "failed"
  /\ CloseMuFree
  /\ CloseFramer("keepalive")
  /\ keepalive' = [keepalive EXCEPT ![k] = "exited"]
  /\ pinged' = [pinged EXCEPT ![k] = 0]
  /\ ponged' = ponged \ {k}
  /\ OnlyKeepalive
  /\ UNCHANGED <<framer, asked, chans, flags, kaDone, owed>>

KeepaliveStep(k) ==
  \/ EnterSelect(k) \/ StopKeepalive(k) \/ Tick(k) \/ SendPing(k)
  \/ PingAnswered(k) \/ PingFails(k) \/ CloseDead(k)

-----------------------------------------------------------------------------
(* Close and Disconnect.                                                   *)

\* Dial has returned the client to the application.
Dialed == connector[1] = "returned"

CallClose(a) ==
  /\ app[a] = "idle"
  /\ Dialed
  /\ "Close" \in Calls
  /\ app' = [app EXCEPT ![a] = "closing"]
  /\ OnlyApp /\ UNCHANGED <<net, chans, flags, pings>>

EnterClose(a) ==
  /\ app[a] = "closing"
  /\ CloseMuFree
  /\ app' = [app EXCEPT ![a] = IF closed THEN "returned" ELSE "cancel"]
  /\ closed' = TRUE
  /\ connected' = (closed /\ connected)
  /\ OnlyApp
  /\ UNCHANGED <<net, chans, reconnect, cancelled, late, pings>>

CancelContext(a) ==
  /\ app[a] = "cancel"
  /\ app' = [app EXCEPT ![a] = "shut"]
  /\ cancelled' = TRUE
  /\ OnlyApp
  /\ UNCHANGED <<net, chans, connected, closed, reconnect, late, pings>>

\* Mutant: Close closes the done channel too.
ShutFramerAndDone(a) ==
  /\ app[a] = "shut"
  /\ app' = [app EXCEPT ![a] = "returned"]
  /\ CloseFramer("close")
  /\ doneClosed' = doneClosed \cup {done}
  /\ OnlyApp
  /\ UNCHANGED <<framer, asked, attempts, done, readerDone, flags, pings>>

ShutFramer(a) ==
  /\ app[a] = "shut"
  /\ app' = [app EXCEPT ![a] = "returned"]
  /\ CloseFramer("close")
  /\ OnlyApp /\ UNCHANGED <<framer, asked, chans, flags, pings>>

\* Disconnect turns reconnection off, and then writes its request.
CallDisconnect(a) ==
  /\ app[a] = "idle"
  /\ Dialed
  /\ "Disconnect" \in Calls
  /\ app' = [app EXCEPT ![a] = "asking"]
  /\ reconnect' = FALSE
  /\ OnlyApp
  /\ UNCHANGED <<net, chans, connected, closed, cancelled, late, pings>>

AskToDisconnect(a) ==
  /\ app[a] = "asking"
  /\ \/ /\ CanWrite
        /\ asked' = asked \cup {framer}
        /\ app' = [app EXCEPT ![a] = "waiting"]
     \/ /\ WriteFails
        /\ app' = [app EXCEPT ![a] = "closing"]
        /\ UNCHANGED asked
  /\ OnlyApp /\ UNCHANGED <<conn, framer, chans, flags, pings>>

\* The DisconnectResponse, the timeout or the end of the read loop; then the
\* deferred Close.
FinishDisconnect(a) ==
  /\ app[a] = "waiting"
  /\ app' = [app EXCEPT ![a] = "closing"]
  /\ OnlyApp /\ UNCHANGED <<net, chans, flags, pings>>

AppStep(a) ==
  \/ EnterClose(a) \/ CancelContext(a) \/ ShutFramer(a)
  \/ AskToDisconnect(a) \/ FinishDisconnect(a)

-----------------------------------------------------------------------------
(* The device, the network and the caller of DialWithContext.              *)

PeerCloses(k) ==
  /\ Live(k)
  /\ conn' = [conn EXCEPT ![k] = IF k \in asked THEN "farewell" ELSE "peer"]
  /\ UNCHANGED <<framer, asked, chans, flags, pings, connector, reader, retry,
                 keepalive, app>>

CancelParent ==
  /\ ParentCancels
  /\ ~cancelled
  /\ cancelled' = TRUE
  /\ UNCHANGED <<net, chans, connected, closed, reconnect, late, pings,
                 connector, reader, retry, keepalive, app>>

-----------------------------------------------------------------------------
Next ==
  \/ \E k \in Attempt :
       \/ ConnectorStep(k) \/ HelloAccepted(k) \/ HandshakeFails(k)
       \/ ReaderStep(k) \/ ReadPong(k) \/ RecvFails(k)
       \/ RetryStep(k) \/ KeepaliveStep(k) \/ PeerCloses(k)
  \/ \E a \in Apps : AppStep(a) \/ CallClose(a) \/ CallDisconnect(a)
  \/ CancelParent

Spec == Init /\ [][Next]_vars

\* Every goroutine that can go on does: the Go scheduler is fair, dialling is
\* bounded by the dial timeout and a ping by its own.  A select that finds
\* several cases ready again and again picks each of them at some time, hence
\* the strong fairness.  Nothing is assumed of the device, the network or the
\* application's calls.
Fairness ==
  /\ \A k \in Attempt :
       /\ WF_vars(ConnectorStep(k))
       /\ WF_vars(ReaderStep(k))
       /\ WF_vars(RetryStep(k))
       /\ WF_vars(KeepaliveStep(k))
       /\ SF_vars(StopKeepalive(k))
  /\ \A a \in Apps : WF_vars(AppStep(a))

FairSpec == Spec /\ Fairness

==============================================================================
