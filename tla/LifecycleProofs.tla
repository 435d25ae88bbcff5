--------------------------- MODULE LifecycleProofs ---------------------------
(***************************************************************************)
(* Proofs about Lifecycle, for any number of attempts, any set of          *)
(* application goroutines and any setting of the switches.                 *)
(***************************************************************************)
EXTENDS LifecycleProperties, TLAPS

\* Every variable keeps to its type.
LEMMA TypeStep == TypeOK /\ Ownership /\ [Next]_vars => TypeOK'
<1> SUFFICES ASSUME TypeOK, Ownership, [Next]_vars PROVE TypeOK'
  OBVIOUS
<1> USE DEF TypeOK, AttemptOrNone, net, chans, flags, pings
<1>1. ASSUME NEW k \in Attempt,
             ConnectorStep(k) \/ HelloAccepted(k) \/ HandshakeFails(k)
      PROVE  TypeOK'
  <2>1. CASE DialFails(k)
    BY <2>1 DEF DialFails, ConnectFailed, ConnectorState, RetryState
  <2>2. CASE DialSucceeds(k)
    BY <2>2 DEF DialSucceeds, OnlyConnector, ConnectorState, ConnState
  <2>3. CASE SendHello(k)
    BY <2>3 DEF SendHello, OnlyConnector, ConnectorState
  <2>4. CASE HandshakeFails(k)
    BY <2>4 DEF HandshakeFails, ConnectFailed, CloseFramer, Live, ConnState, ConnectorState, RetryState
  <2>5. CASE HelloAccepted(k)
    BY <2>5 DEF HelloAccepted, OnlyConnector, ConnectorState
  <2>6. CASE StoreConnected(k)
    BY <2>6 DEF StoreConnected, OnlyConnector, ConnectorState
  <2>7. CASE Reopen(k)
    BY <2>7 DEF Reopen, OnlyConnector, ConnectorState
  <2>8. CASE Spawn(k)
    BY <2>8 DEF Spawn, ConnectorState, ReaderState, KeepaliveState
  <2> QED
    BY <1>1, <2>1, <2>2, <2>3, <2>4, <2>5, <2>6, <2>7, <2>8 DEF ConnectorStep
<1>2. ASSUME NEW k \in Attempt, ReaderStep(k) \/ ReadPong(k) \/ RecvFails(k)
      PROVE  TypeOK'
  <2>1. CASE Reads(k)
    BY <2>1 DEF Reads, OnlyReader, ReaderState
  <2>2. CASE ReadPong(k)
    BY <2>2 DEF ReadPong
  <2>3. CASE RecvFails(k)
    BY <2>3 DEF RecvFails, OnlyReader, ReaderState
  <2>4. CASE CheckContext(k)
    BY <2>4 DEF CheckContext, OnlyReader, ReaderState
  <2>5. CASE ReportLoss(k)
    BY <2>5 DEF ReportLoss, ReaderState, RetryState
  <2>6. CASE CloseDone(k)
    BY <2>6 DEF CloseDone, OnlyReader, ReaderState, Ownership
  <2> QED
    BY <1>2, <2>1, <2>2, <2>3, <2>4, <2>5, <2>6 DEF ReaderStep
<1>3. ASSUME NEW k \in Attempt, RetryStep(k)
      PROVE  TypeOK'
  <2>1. CASE EnterBackoff(k)
    BY <2>1 DEF EnterBackoff, OnlyRetry, RetryState
  <2>2. CASE StopRetrying(k)
    BY <2>2 DEF StopRetrying, OnlyRetry, RetryState
  <2>3. CASE Redial(k)
    BY <2>3, MaxAttemptsAssumption DEF Redial, RetryState, ConnectorState, Attempt
  <2> QED
    BY <1>3, <2>1, <2>2, <2>3 DEF RetryStep
<1>4. ASSUME NEW k \in Attempt, KeepaliveStep(k)
      PROVE  TypeOK'
  <2>1. CASE StopKeepalive(k)
    BY <2>1 DEF StopKeepalive, OnlyKeepalive, KeepaliveState
  <2>2. CASE Tick(k)
    BY <2>2 DEF Tick, OnlyKeepalive, KeepaliveState
  <2>3. CASE SendPing(k)
    BY <2>3 DEF SendPing, OnlyKeepalive, KeepaliveState, CanWrite, Live
  <2>4. CASE PingAnswered(k)
    BY <2>4 DEF PingAnswered, OnlyKeepalive, KeepaliveState
  <2>5. CASE PingFails(k)
    BY <2>5 DEF PingFails, OnlyKeepalive, KeepaliveState
  <2>6. CASE CloseDead(k)
    BY <2>6 DEF CloseDead, OnlyKeepalive, CloseFramer, Live, KeepaliveState, ConnState
  <2>7. CASE EnterSelect(k)
    BY <2>7 DEF EnterSelect, OnlyKeepalive, KeepaliveState
  <2> QED
    BY <1>4, <2>1, <2>2, <2>3, <2>4, <2>5, <2>6, <2>7 DEF KeepaliveStep
<1>5. ASSUME NEW a \in Apps, AppStep(a) \/ CallClose(a) \/ CallDisconnect(a)
      PROVE  TypeOK'
  <2>1. CASE CallClose(a)
    BY <2>1 DEF CallClose, OnlyApp, AppState
  <2>2. CASE EnterClose(a)
    BY <2>2 DEF EnterClose, OnlyApp, AppState
  <2>3. CASE CancelContext(a)
    BY <2>3 DEF CancelContext, OnlyApp, AppState
  <2>4. CASE ShutFramer(a)
    BY <2>4 DEF ShutFramer, OnlyApp, CloseFramer, Live, AppState, ConnState
  <2>5. CASE CallDisconnect(a)
    BY <2>5 DEF CallDisconnect, OnlyApp, AppState
  <2>6. CASE FinishDisconnect(a)
    BY <2>6 DEF FinishDisconnect, OnlyApp, AppState
  <2>7. CASE AskToDisconnect(a)
    BY <2>7 DEF AskToDisconnect, OnlyApp, CanWrite, WriteFails, AppState
  <2> QED
    BY <1>5, <2>1, <2>2, <2>3, <2>4, <2>5, <2>6, <2>7 DEF AppStep
<1>6. ASSUME NEW k \in Attempt, PeerCloses(k)
      PROVE  TypeOK'
  BY <1>6 DEF PeerCloses, ConnState, Live
<1>7. CASE CancelParent
  BY <1>7 DEF CancelParent
<1>8. CASE UNCHANGED vars
  BY <1>8 DEF vars
<1> QED
  BY <1>1, <1>2, <1>3, <1>4, <1>5, <1>6, <1>7, <1>8 DEF Next

\* The part of the invariant that is about the goroutines' order.
Order == OneDriver /\ Untouched /\ Succession /\ Ownership
           /\ ConnectedHasReader

\* A step that leaves the drivers and what they own alone keeps their order.
LEMMA BystanderStep ==
  ASSUME Order,
         UNCHANGED <<attempts, done, doneClosed, readerDone, framer,
                     connector, reader, retry>>,
         connected' => connected,
         \A k \in Attempt : conn[k] = "none" => conn'[k] = "none"
  PROVE  Order'
BY DEF Order, OneDriver, Untouched, Succession, Ownership,
       ConnectedHasReader, Connecting, Reading, Retrying

\* Closing a connection creates none.
LEMMA ClosingCreatesNone ==
  ASSUME TypeOK, NEW cause, CloseFramer(cause)
  PROVE  \A k \in Attempt : conn[k] = "none" => conn'[k] = "none"
BY DEF CloseFramer, Live, TypeOK, AttemptOrNone

\* The connector's steps.
LEMMA ConnectorOrder ==
  ASSUME TypeOK, Order, NEW k \in Attempt,
         ConnectorStep(k) \/ HelloAccepted(k) \/ HandshakeFails(k)
  PROVE  Order'
<1> USE DEF Order, OneDriver, Untouched, Succession, Ownership,
      ConnectedHasReader, Connecting, Reading, Retrying, TypeOK, net, chans,
      flags
<1>1. CASE DialFails(k)
  BY <1>1 DEF DialFails, ConnectFailed
<1>2. CASE DialSucceeds(k)
  BY <1>2 DEF DialSucceeds, OnlyConnector
<1>3. CASE SendHello(k)
  BY <1>3 DEF SendHello, OnlyConnector
<1>4. CASE HandshakeFails(k)
  BY <1>4, ClosingCreatesNone DEF HandshakeFails, ConnectFailed
<1>5. CASE HelloAccepted(k)
  BY <1>5 DEF HelloAccepted, OnlyConnector
<1>6. CASE StoreConnected(k)
  BY <1>6 DEF StoreConnected, OnlyConnector
<1>7. CASE Reopen(k)
  BY <1>7 DEF Reopen, OnlyConnector
<1>8. CASE Spawn(k)
  BY <1>8 DEF Spawn
<1> QED
  BY <1>1, <1>2, <1>3, <1>4, <1>5, <1>6, <1>7, <1>8 DEF ConnectorStep

\* The read loop's steps.
LEMMA ReaderOrder ==
  ASSUME TypeOK, Order, NEW k \in Attempt,
         ReaderStep(k) \/ ReadPong(k) \/ RecvFails(k)
  PROVE  Order'
<1> USE DEF Order, OneDriver, Untouched, Succession, Ownership,
      ConnectedHasReader, Connecting, Reading, Retrying, TypeOK, net, chans,
      flags
<1>1. CASE Reads(k)
  BY <1>1 DEF Reads, OnlyReader
<1>2. CASE ReadPong(k)
  BY <1>2, BystanderStep DEF ReadPong
<1>3. CASE RecvFails(k)
  BY <1>3 DEF RecvFails, OnlyReader
<1>4. CASE CheckContext(k)
  BY <1>4 DEF CheckContext, OnlyReader
<1>5. CASE ReportLoss(k)
  BY <1>5 DEF ReportLoss
<1>6. CASE CloseDone(k)
  BY <1>6 DEF CloseDone, OnlyReader
<1> QED
  BY <1>1, <1>2, <1>3, <1>4, <1>5, <1>6 DEF ReaderStep

\* The steps of the reconnectLoop.  Only the latest attempt can be retrying,
\* so that the attempt it begins has left no trace and no other goroutine
\* relies on the channel it replaces.
LEMMA RetryOrder ==
  ASSUME TypeOK, Order, NEW k \in Attempt, RetryStep(k)
  PROVE  Order'
<1> USE DEF Order, OneDriver, Untouched, Succession, Ownership,
      ConnectedHasReader, Connecting, Reading, Retrying, TypeOK, net, chans,
      flags
<1>1. CASE EnterBackoff(k)
  BY <1>1 DEF EnterBackoff, OnlyRetry
<1>2. CASE StopRetrying(k)
  BY <1>2 DEF StopRetrying, OnlyRetry
<1>3. CASE Redial(k)
  <2>1. k = attempts /\ attempts + 1 \in Attempt /\ attempts + 1 > attempts
    BY <1>3, MaxAttemptsAssumption DEF Redial, Attempt
  <2>2. \A j \in Attempt : j > attempts + 1 => j > attempts
    BY MaxAttemptsAssumption DEF Attempt
  <2>3. \A j \in Attempt : connector[j] \notin
           {"dialing", "hello", "await", "accepted", "reopen", "spawn"}
    BY <1>3, <2>1 DEF Redial
  <2>4. \A j \in Attempt : reader[j] \notin
           {"starting", "reading", "failed", "lost"}
    BY <1>3, <2>1 DEF Redial
  <2>5. ~connected
    BY <2>3, <2>4
  <2>6. \A j \in Attempt : j # k => retry[j] \notin {"select", "backoff"}
    BY <2>1
  <2>7. reader[attempts + 1] = "none" /\ retry[attempts + 1] = "none"
    BY <2>1
  <2> QED
    BY <1>3, <2>1, <2>2, <2>3, <2>4, <2>5, <2>6, <2>7 DEF Redial
<1> QED
  BY <1>1, <1>2, <1>3 DEF RetryStep

\* The other goroutines and the environment are bystanders.
LEMMA KeepaliveOrder ==
  ASSUME TypeOK, Order, NEW k \in Attempt, KeepaliveStep(k)
  PROVE  Order'
<1> USE BystanderStep DEF OnlyKeepalive, net, chans, flags
<1>1. CASE StopKeepalive(k)
  BY <1>1 DEF StopKeepalive
<1>2. CASE Tick(k)
  BY <1>2 DEF Tick
<1>3. CASE SendPing(k)
  BY <1>3 DEF SendPing
<1>4. CASE PingAnswered(k)
  BY <1>4 DEF PingAnswered
<1>5. CASE PingFails(k)
  BY <1>5 DEF PingFails
<1>6. CASE CloseDead(k)
  BY <1>6, ClosingCreatesNone DEF CloseDead
<1>7. CASE EnterSelect(k)
  BY <1>7 DEF EnterSelect
<1> QED
  BY <1>1, <1>2, <1>3, <1>4, <1>5, <1>6, <1>7 DEF KeepaliveStep

LEMMA AppOrder ==
  ASSUME TypeOK, Order, NEW a \in Apps,
         AppStep(a) \/ CallClose(a) \/ CallDisconnect(a)
  PROVE  Order'
<1> USE BystanderStep DEF OnlyApp, net, chans, flags
<1>1. CASE CallClose(a)
  BY <1>1 DEF CallClose
<1>2. CASE EnterClose(a)
  BY <1>2 DEF EnterClose
<1>3. CASE CancelContext(a)
  BY <1>3 DEF CancelContext
<1>4. CASE ShutFramer(a)
  BY <1>4, ClosingCreatesNone DEF ShutFramer
<1>5. CASE CallDisconnect(a)
  BY <1>5 DEF CallDisconnect
<1>6. CASE FinishDisconnect(a)
  BY <1>6 DEF FinishDisconnect
<1>7. CASE AskToDisconnect(a)
  BY <1>7 DEF AskToDisconnect
<1> QED
  BY <1>1, <1>2, <1>3, <1>4, <1>5, <1>6, <1>7 DEF AppStep

\* Inv is inductive.
THEOREM Invariance == Spec => []Inv
<1>1. Init => Inv
  <2> SUFFICES ASSUME Init PROVE Inv
    OBVIOUS
  <2>1. 1 \in Attempt
    BY MaxAttemptsAssumption DEF Attempt
  <2>2. TypeOK
    BY <2>1, SwitchesAssumption DEF Init, TypeOK, AttemptOrNone, ConnState,
       ConnectorState, ReaderState, RetryState, KeepaliveState, AppState
  <2>3. OneDriver /\ Succession /\ Ownership /\ ConnectedHasReader
    BY <2>1 DEF Init, OneDriver, Succession, Ownership, ConnectedHasReader,
       Connecting, Reading, Retrying
  <2>4. Untouched
    BY DEF Init, Untouched, Attempt
  <2> QED
    BY <2>2, <2>3, <2>4 DEF Inv
<1>2. Inv /\ [Next]_vars => Inv'
  <2> SUFFICES ASSUME Inv, [Next]_vars PROVE Inv'
    OBVIOUS
  <2>1. TypeOK /\ Order
    BY DEF Inv, Order
  <2>2. TypeOK'
    BY <2>1, TypeStep DEF Order
  <2>3. ASSUME NEW k \in Attempt, PeerCloses(k) PROVE Order'
    <3>1. \A j \in Attempt : conn[j] = "none" => conn'[j] = "none"
      BY <2>1, <2>3 DEF PeerCloses, Live, TypeOK
    <3> QED
      BY <2>1, <2>3, <3>1, BystanderStep DEF PeerCloses, chans, flags
  <2>4. ASSUME CancelParent PROVE Order'
    BY <2>1, <2>4, BystanderStep DEF CancelParent, net, chans
  <2>5. ASSUME UNCHANGED vars PROVE Order'
    BY <2>1, <2>5, BystanderStep DEF vars, net, chans, flags
  <2>6. Order'
    BY <2>1, <2>3, <2>4, <2>5, ConnectorOrder, ReaderOrder, RetryOrder,
       KeepaliveOrder, AppOrder DEF Next
  <2> QED
    BY <2>2, <2>6 DEF Inv, Order
<1> QED
  BY <1>1, <1>2, PTL DEF Spec

\* Type correctness.
THEOREM TypeCorrect == Spec => []TypeOK
BY Invariance, PTL DEF Inv

\* At most one goroutine at a time may replace the client's connection.
THEOREM SingleDriver == Spec => []OneDriver
BY Invariance, PTL DEF Inv

\* Connected() is true only while a reader watches the current connection.
THEOREM Availability == Spec => []ConnectedHasReader
BY Invariance, PTL DEF Inv

\* Each read loop reads its own connection and closes its own channel.
THEOREM OwnConnection == Spec => []ReaderOwnsFramer
<1>1. Inv => ReaderOwnsFramer
  BY DEF Inv, Ownership, ReaderOwnsFramer, OneDriver, Reading
<1> QED
  BY <1>1, Invariance, PTL

\* No done channel is closed twice.
THEOREM NoDoubleClose == Spec => []DoneClosedOnce
<1>1. Inv => DoneClosedOnce
  BY DEF Inv, Ownership, DoneClosedOnce
<1> QED
  BY <1>1, Invariance, PTL

-----------------------------------------------------------------------------
(* Refinement.                                                             *)

\* The driver's phase in a state that satisfies the invariant, one fact for
\* each kind of driver.
LEMMA PhaseOf ==
  ASSUME Inv
  PROVE  /\ attempts \in Attempt
         /\ \A k \in Connecting : k = attempts /\ Phase = "connecting"
         /\ \A k \in Attempt : reader[k] \in {"starting", "reading"} =>
              k = attempts /\ Phase = "up"
         /\ \A k \in Attempt : reader[k] \in {"failed", "lost"} =>
              k = attempts /\ Phase = "ending"
         /\ \A k \in Retrying : k = attempts /\ Phase = "waiting"
BY DEF Inv, TypeOK, OneDriver, Connecting, Reading, Retrying, Phase

LEMMA PhaseNext ==
  ASSUME Inv'
  PROVE  /\ attempts' \in Attempt
         /\ \A k \in Connecting' : k = attempts' /\ Phase' = "connecting"
         /\ \A k \in Attempt : reader'[k] \in {"starting", "reading"} =>
              k = attempts' /\ Phase' = "up"
         /\ \A k \in Attempt : reader'[k] \in {"failed", "lost"} =>
              k = attempts' /\ Phase' = "ending"
         /\ \A k \in Retrying' : k = attempts' /\ Phase' = "waiting"
BY DEF Inv, TypeOK, OneDriver, Connecting, Reading, Retrying, Phase

\* A step that leaves the drivers alone leaves the phase alone.
LEMMA SamePhase ==
  ASSUME UNCHANGED <<attempts, connector, reader, retry>>
  PROVE  Phase' = Phase
BY DEF Phase, Connecting, Reading, Retrying

\* Every step implements a step of Session, or none.
LEMMA ConnectorRefines ==
  ASSUME Inv, Inv', NEW k \in Attempt,
         ConnectorStep(k) \/ HelloAccepted(k) \/ HandshakeFails(k)
  PROVE  [Promise!Next]_(Promise!vars)
<1> USE DEF Promise!vars, Promise!Next, net, chans, flags, Inv, TypeOK
<1>1. connector[k] \in
        {"dialing", "hello", "await", "accepted", "reopen", "spawn"}
  BY DEF ConnectorStep, DialFails, DialSucceeds, SendHello, HandshakeFails,
     HelloAccepted, StoreConnected, Reopen, Spawn
<1>2. k = attempts /\ Phase = "connecting"
  BY <1>1, PhaseOf DEF Connecting
<1>3. connector[k] \in {"dialing", "hello", "await", "accepted"} => ~connected
  BY <1>2 DEF ConnectedHasReader, OneDriver, Connecting, Reading
<1>4. ASSUME ConnectFailed(k), UNCHANGED <<attempts, reader>>
      PROVE  Phase' \in {"waiting", "off"}
  <2>1. reader[k] = "none"
    BY <1>1 DEF Succession
  <2>2. connector'[k] = "failed"
    BY <1>4 DEF ConnectFailed
  <2> QED
    BY <1>2, <1>4, <2>1, <2>2 DEF Phase, Connecting, Reading
<1>5. CASE DialFails(k)
  BY <1>2, <1>3, <1>4, <1>5 DEF DialFails, Promise!Refuse
<1>6. CASE HandshakeFails(k)
  BY <1>2, <1>3, <1>4, <1>6 DEF HandshakeFails, Promise!Refuse
<1>7. ASSUME connector'[k] \in
               {"hello", "await", "accepted", "reopen", "spawn"},
             UNCHANGED attempts
      PROVE  Phase' = "connecting"
  BY <1>7, PhaseNext DEF Connecting
<1>8. CASE DialSucceeds(k)
  BY <1>2, <1>7, <1>8 DEF DialSucceeds
<1>9. CASE SendHello(k)
  BY <1>2, <1>7, <1>9 DEF SendHello
<1>10. CASE HelloAccepted(k)
  BY <1>2, <1>7, <1>10 DEF HelloAccepted
<1>11. CASE StoreConnected(k)
  BY <1>2, <1>7, <1>11 DEF StoreConnected, Promise!Report
<1>12. CASE Reopen(k)
  BY <1>2, <1>7, <1>12 DEF Reopen
<1>13. CASE Spawn(k)
  <2>1. Phase' = "up"
    BY <1>13, PhaseNext DEF Spawn
  <2> QED
    BY <1>2, <1>13, <2>1 DEF Spawn, Promise!Establish
<1> QED
  BY <1>5, <1>6, <1>8, <1>9, <1>10, <1>11, <1>12, <1>13 DEF ConnectorStep

LEMMA ReaderRefines ==
  ASSUME Inv, Inv', NEW k \in Attempt,
         ReaderStep(k) \/ ReadPong(k) \/ RecvFails(k)
  PROVE  [Promise!Next]_(Promise!vars)
<1> USE DEF Promise!vars, Promise!Next, net, chans, flags, Inv, TypeOK
<1>1. CASE Reads(k)
  <2>1. Phase = "up" /\ Phase' = "up"
    BY <1>1, PhaseOf, PhaseNext DEF Reads
  <2> QED
    BY <1>1, <2>1 DEF Reads
<1>2. CASE ReadPong(k)
  BY <1>2, SamePhase DEF ReadPong
<1>3. CASE RecvFails(k)
  <2>1. Phase = "up" /\ Phase' = "ending"
    BY <1>3, PhaseOf, PhaseNext DEF RecvFails
  <2> QED
    BY <1>3, <2>1 DEF RecvFails, Promise!Lose
<1>4. ASSUME reader[k] \in {"failed", "lost"}, reader'[k] = "exiting",
             UNCHANGED <<attempts, connector, connected>>
      PROVE  Promise!Settle
  <2>1. k = attempts /\ Phase = "ending"
    BY <1>4, PhaseOf
  <2>2. attempts \notin Connecting /\ attempts \notin Connecting'
    BY <1>4, <2>1 DEF OneDriver, Connecting, Reading
  <2>3. Phase' \in {"waiting", "off"}
    BY <1>4, <2>1, <2>2 DEF Phase, Reading
  <2> QED
    BY <1>4, <2>1, <2>3 DEF Promise!Settle
<1>5. CASE CheckContext(k)
  <2>1. CASE reader'[k] = "exiting"
    BY <1>4, <1>5, <2>1 DEF CheckContext, OnlyReader
  <2>2. CASE reader'[k] = "lost"
    <3>1. Phase = "ending" /\ Phase' = "ending"
      BY <1>5, <2>2, PhaseOf, PhaseNext DEF CheckContext
    <3> QED
      BY <1>5, <3>1 DEF CheckContext
  <2> QED
    BY <1>5, <2>1, <2>2 DEF CheckContext
<1>6. CASE ReportLoss(k)
  BY <1>4, <1>6 DEF ReportLoss
<1>7. CASE CloseDone(k)
  <2>1. Phase' = Phase
    BY <1>7 DEF CloseDone, OnlyReader, Phase, Connecting, Reading, Retrying
  <2> QED
    BY <1>7, <2>1 DEF CloseDone
<1> QED
  BY <1>1, <1>2, <1>3, <1>5, <1>6, <1>7 DEF ReaderStep

LEMMA RetryRefines ==
  ASSUME Inv, Inv', NEW k \in Attempt, RetryStep(k)
  PROVE  [Promise!Next]_(Promise!vars)
<1> USE DEF Promise!vars, Promise!Next, net, chans, flags, Inv, TypeOK
<1>1. k = attempts /\ Phase = "waiting"
  BY PhaseOf DEF RetryStep, EnterBackoff, StopRetrying, Redial, Retrying
<1>2. CASE EnterBackoff(k)
  <2>1. Phase' = "waiting"
    BY <1>2, PhaseNext DEF EnterBackoff, Retrying
  <2> QED
    BY <1>1, <1>2, <2>1 DEF EnterBackoff
<1>3. CASE StopRetrying(k)
  <2>1. k \in Retrying
    BY <1>3 DEF StopRetrying, Retrying
  <2>2. k \notin Connecting /\ k \notin Reading
    BY <2>1 DEF OneDriver
  <2>3. k \notin Connecting' /\ k \notin Reading' /\ k \notin Retrying'
    BY <1>3, <2>2 DEF StopRetrying, OnlyRetry, Connecting, Reading, Retrying
  <2>4. Phase' = "off"
    BY <1>1, <1>3, <2>3 DEF StopRetrying, Phase, Reading
  <2> QED
    BY <1>1, <1>3, <2>4 DEF StopRetrying, Promise!GiveUp
<1>4. CASE Redial(k)
  <2>1. attempts + 1 \in Connecting'
    BY <1>4, MaxAttemptsAssumption DEF Redial, Connecting, Attempt
  <2>2. Phase' = "connecting"
    BY <2>1, PhaseNext
  <2> QED
    BY <1>1, <1>4, <2>2 DEF Redial, Promise!Redial
<1> QED
  BY <1>2, <1>3, <1>4 DEF RetryStep

\* The keepalive loops and the environment stutter; Close withdraws.
LEMMA BystanderRefines ==
  ASSUME Inv, Inv',
         \/ \E k \in Attempt : KeepaliveStep(k) \/ PeerCloses(k)
         \/ \E a \in Apps : AppStep(a) \/ CallClose(a) \/ CallDisconnect(a)
         \/ CancelParent
         \/ UNCHANGED vars
  PROVE  [Promise!Next]_(Promise!vars)
<1>1. UNCHANGED <<attempts, connector, reader, retry>>
  BY DEF KeepaliveStep, EnterSelect, StopKeepalive, Tick, SendPing,
     PingAnswered, PingFails, CloseDead, OnlyKeepalive, PeerCloses, AppStep,
     EnterClose, CancelContext, ShutFramer, AskToDisconnect,
     FinishDisconnect, CallClose, CallDisconnect, OnlyApp, CancelParent, vars, chans
<1>2. connected' = connected \/ (connected /\ ~connected')
  <2>1. ASSUME NEW k \in Attempt, KeepaliveStep(k) \/ PeerCloses(k)
        PROVE  connected' = connected
    BY <2>1 DEF KeepaliveStep, EnterSelect, StopKeepalive, Tick, SendPing,
       PingAnswered, PingFails, CloseDead, PeerCloses, flags
  <2>2. ASSUME NEW a \in Apps, EnterClose(a)
        PROVE  connected' = connected \/ (connected /\ ~connected')
    BY <2>2 DEF EnterClose, Inv, TypeOK
  <2>3. ASSUME NEW a \in Apps,
               AppStep(a) \/ CallClose(a) \/ CallDisconnect(a),
               ~EnterClose(a)
        PROVE  connected' = connected
    BY <2>3 DEF AppStep, CancelContext, ShutFramer, AskToDisconnect,
       FinishDisconnect, CallClose, CallDisconnect, flags
  <2>4. CancelParent \/ UNCHANGED vars => connected' = connected
    BY DEF CancelParent, vars, flags
  <2> QED
    BY <2>1, <2>2, <2>3, <2>4
<1> QED
  BY <1>1, <1>2, SamePhase DEF Promise!vars, Promise!Next, Promise!Withdraw

\* The life cycle implements Session.
THEOREM Refinement == Spec => ImplementsSession
<1>1. Init => Promise!Init
  BY MaxAttemptsAssumption DEF Init, Promise!Init, Phase, Connecting, Attempt
<1>2. Inv /\ Inv' /\ [Next]_vars => [Promise!Next]_(Promise!vars)
  BY ConnectorRefines, ReaderRefines, RetryRefines, BystanderRefines DEF Next
<1> QED
  BY <1>1, <1>2, Invariance, PTL DEF Spec, ImplementsSession, Promise!Spec

-----------------------------------------------------------------------------
(* No connection leaks, and Close is silent, while frames decode.          *)

\* Containment survives a step that opens no connection, moves no driver and
\* keeps the context cancelled.
LEMMA ContainedBystander ==
  ASSUME TypeOK, Containment,
         UNCHANGED <<framer, connector, reader, retry>>,
         cancelled => cancelled',
         \A k \in Attempt : conn'[k] = conn[k]
                             \/ (conn'[k] # "open" /\ conn[k] = "open"),
         \A k \in Attempt : conn'[k] = "close" => cancelled',
         \A a \in Apps : app'[a] = "shut" => cancelled'
  PROVE  Containment'
BY DEF Containment, NoOrphan, SilentClose, Retrying

\* Closing c.framer touches no connection but an open one.
LEMMA ClosingCloses ==
  ASSUME TypeOK, Containment, NEW cause \in ConnState \ {"open"},
         CloseFramer(cause)
  PROVE  /\ \A k \in Attempt : conn'[k] = conn[k]
                               \/ (conn'[k] = cause /\ conn[k] = "open")
         /\ \A k \in Attempt : conn'[k] # "open"
<1>1. 0 \notin Attempt
  BY DEF Attempt
<1> QED
  BY <1>1 DEF CloseFramer, Live, Containment, NoOrphan, TypeOK, AttemptOrNone

LEMMA ContainedConnector ==
  ASSUME Inv, Containment, NEW k \in Attempt,
         ConnectorStep(k) \/ HelloAccepted(k) \/ HandshakeFails(k)
  PROVE  Containment'
<1> USE DEF Inv, TypeOK, Containment, NoOrphan, SilentClose, Retrying, net,
      flags
<1>1. CASE DialFails(k)
  BY <1>1 DEF DialFails, ConnectFailed
<1>2. CASE DialSucceeds(k)
  <2>1. /\ reader[k] = "none"
        /\ \A j \in Attempt : j # k => connector[j] # "dialing"
        /\ \A j \in Attempt : j \notin Retrying
    BY <1>2 DEF DialSucceeds, Succession, OneDriver, Connecting
  <2> QED
    BY <1>2, <2>1 DEF DialSucceeds, OnlyConnector
<1>3. CASE HandshakeFails(k)
  <2>1. "handshake" \in ConnState \ {"open"}
    BY DEF ConnState
  <2> QED
    BY <1>3, <2>1, ClosingCloses DEF HandshakeFails, ConnectFailed
<1>4. CASE SendHello(k)
  BY <1>4 DEF SendHello, OnlyConnector
<1>5. CASE HelloAccepted(k)
  BY <1>5 DEF HelloAccepted, OnlyConnector
<1>6. CASE StoreConnected(k)
  BY <1>6 DEF StoreConnected, OnlyConnector
<1>7. CASE Reopen(k)
  BY <1>7 DEF Reopen, OnlyConnector
<1>8. CASE Spawn(k)
  BY <1>8 DEF Spawn
<1> QED
  BY <1>1, <1>2, <1>3, <1>4, <1>5, <1>6, <1>7, <1>8 DEF ConnectorStep

LEMMA ContainedReader ==
  ASSUME BadFrames = FALSE, Inv, Containment, NEW k \in Attempt,
         ReaderStep(k) \/ ReadPong(k) \/ RecvFails(k)
  PROVE  Containment'
<1> USE DEF Inv, TypeOK, Containment, NoOrphan, SilentClose, Retrying, net,
      flags
<1>1. CASE Reads(k)
  BY <1>1 DEF Reads, OnlyReader
<1>2. CASE ReadPong(k)
  BY <1>2 DEF ReadPong
<1>3. CASE RecvFails(k)
  <2>1. framer = k
    BY <1>3 DEF RecvFails, Ownership, Reading
  <2> QED
    BY <1>3, <2>1 DEF RecvFails, OnlyReader, Live, Attempt
<1>4. CASE CheckContext(k)
  BY <1>4 DEF CheckContext, OnlyReader
<1>5. CASE ReportLoss(k)
  <2>1. framer = k
    BY <1>5 DEF ReportLoss, Ownership, Reading
  <2> QED
    BY <1>5, <2>1 DEF ReportLoss
<1>6. CASE CloseDone(k)
  BY <1>6 DEF CloseDone, OnlyReader
<1> QED
  BY <1>1, <1>2, <1>3, <1>4, <1>5, <1>6 DEF ReaderStep

LEMMA ContainedRetry ==
  ASSUME Inv, Containment, NEW k \in Attempt, RetryStep(k)
  PROVE  Containment'
<1> USE DEF Inv, TypeOK, Containment, NoOrphan, SilentClose, Retrying, net,
      flags
<1>1. CASE EnterBackoff(k)
  BY <1>1 DEF EnterBackoff, OnlyRetry
<1>2. CASE StopRetrying(k)
  BY <1>2 DEF StopRetrying, OnlyRetry
<1>3. CASE Redial(k)
  BY <1>3 DEF Redial
<1> QED
  BY <1>1, <1>2, <1>3 DEF RetryStep

LEMMA ContainedRest ==
  ASSUME Inv, Containment,
         \/ \E k \in Attempt : KeepaliveStep(k) \/ PeerCloses(k)
         \/ \E a \in Apps : AppStep(a) \/ CallClose(a) \/ CallDisconnect(a)
         \/ CancelParent
         \/ UNCHANGED vars
  PROVE  Containment'
<1>0. TypeOK /\ \A k \in Attempt : conn[k] = "close" => cancelled
  BY DEF Inv, Containment
<1>1. \A a \in Apps : app[a] = "shut" => cancelled
  BY DEF Containment
<1>2. ASSUME NEW k \in Attempt, KeepaliveStep(k) PROVE Containment'
  <2>1. ASSUME CloseDead(k) PROVE Containment'
    <3>1. "keepalive" \in ConnState \ {"open"}
      BY DEF ConnState
    <3> QED
      BY <1>0, <1>1, <2>1, <3>1, ClosingCloses, ContainedBystander
      DEF CloseDead, OnlyKeepalive, flags
  <2>2. ASSUME ~CloseDead(k) PROVE Containment'
    <3>1. UNCHANGED <<conn, framer, connector, reader, retry, cancelled, app>>
      BY <1>2, <2>2 DEF KeepaliveStep, EnterSelect, StopKeepalive, Tick, SendPing,
         PingAnswered, PingFails, OnlyKeepalive, net, flags
    <3> QED
      BY <1>0, <1>1, <3>1, ContainedBystander
  <2> QED
    BY <2>1, <2>2
<1>3. ASSUME NEW k \in Attempt, PeerCloses(k) PROVE Containment'
  <2>1. \A j \in Attempt :
          conn'[j] = conn[j] \/ (conn'[j] \in {"peer", "farewell"} /\ conn[j] = "open")
    BY <1>0, <1>3 DEF PeerCloses, Live, TypeOK
  <2> QED
    BY <1>0, <1>1, <1>3, <2>1, ContainedBystander DEF PeerCloses, flags
<1>4. ASSUME NEW a \in Apps, AppStep(a) \/ CallClose(a) \/ CallDisconnect(a)
      PROVE  Containment'
  <2>1. CASE ShutFramer(a)
    <3>1. "close" \in ConnState \ {"open"}
      BY DEF ConnState
    <3>2. cancelled /\ \A b \in Apps : app'[b] = "shut" => app[b] = "shut"
      BY <1>0, <1>1, <2>1 DEF ShutFramer, TypeOK
    <3> QED
      BY <1>0, <1>1, <2>1, <3>1, <3>2, ClosingCloses, ContainedBystander
      DEF ShutFramer, OnlyApp, flags
  <2>2. CASE CancelContext(a)
    BY <1>0, <1>1, <2>2, ContainedBystander DEF CancelContext, OnlyApp, net
  <2>3. CASE EnterClose(a) \/ FinishDisconnect(a) \/ CallClose(a)
               \/ CallDisconnect(a) \/ AskToDisconnect(a)
    <3>1. /\ UNCHANGED <<conn, framer, connector, reader, retry, cancelled>>
          /\ \A b \in Apps : app'[b] = "shut" => app[b] = "shut"
      BY <1>0, <2>3 DEF EnterClose, FinishDisconnect, CallClose,
         CallDisconnect, AskToDisconnect, OnlyApp, net, flags, TypeOK
    <3> QED
      BY <1>0, <1>1, <3>1, ContainedBystander
  <2> QED
    BY <1>4, <2>1, <2>2, <2>3 DEF AppStep
<1>5. ASSUME CancelParent PROVE Containment'
  BY <1>0, <1>1, <1>5, ContainedBystander DEF CancelParent, net
<1>6. ASSUME UNCHANGED vars PROVE Containment'
  BY <1>0, <1>1, <1>6, ContainedBystander DEF vars, net, flags
<1> QED
  BY <1>2, <1>3, <1>4, <1>5, <1>6

LEMMA Contained ==
  ASSUME BadFrames = FALSE
  PROVE  Spec => []Containment
<1>1. Init => Containment
  BY DEF Init, Containment, NoOrphan, SilentClose, Retrying
<1>2. Inv /\ Containment /\ [Next]_vars => Containment'
  BY ContainedConnector, ContainedReader, ContainedRetry, ContainedRest
  DEF Next
<1> QED
  BY <1>1, <1>2, Invariance, PTL DEF Spec

\* While frames decode, only the current connection can be open.
THEOREM NoLeak ==
  ASSUME BadFrames = FALSE
  PROVE  Spec => []NoOrphan
BY Contained, PTL DEF Containment

\* While frames decode, the end of a connection that Close ended is never
\* reported to onDisconnect.
THEOREM CloseIsSilent ==
  ASSUME BadFrames = FALSE
  PROVE  Spec => []SilentClose
BY Contained, PTL DEF Containment

-----------------------------------------------------------------------------
(* A cancelled context bounds the attempts.                                *)

\* Lateness is inductive: the steps that matter start or end a backoff.
LEMMA LatenessStep ==
  ASSUME Inv, Lateness, [Next]_vars
  PROVE  Lateness'
<1> USE DEF Lateness, CancelBoundsRetries, Inv, TypeOK, net, chans, flags
<1>1. ASSUME UNCHANGED <<late, retry>>,
             reconnect' => reconnect,
             cancelled => cancelled'
      PROVE  Lateness'
  BY <1>1
<1>2. ASSUME NEW k \in Attempt, DialFails(k) \/ HandshakeFails(k)
      PROVE  Lateness'
  <2>1. /\ UNCHANGED <<late, reconnect>>
        /\ cancelled => cancelled'
        /\ \A j \in Attempt : retry'[j] = "backoff" => retry[j] = "backoff"
    <3>1. CASE DialFails(k)
      BY <3>1 DEF DialFails, ConnectFailed
    <3>2. CASE HandshakeFails(k)
      BY <3>2 DEF HandshakeFails, ConnectFailed
    <3> QED
      BY <1>2, <3>1, <3>2
  <2> QED
    BY <2>1
<1>3. ASSUME NEW k \in Attempt,
             ConnectorStep(k) \/ HelloAccepted(k),
             ~DialFails(k), ~HandshakeFails(k)
      PROVE  Lateness'
  BY <1>1, <1>3 DEF ConnectorStep, DialSucceeds, SendHello, HelloAccepted,
     StoreConnected, Reopen, Spawn, OnlyConnector
<1>4. ASSUME NEW k \in Attempt, ReportLoss(k)
      PROVE  Lateness'
  <2>1. /\ UNCHANGED <<late, reconnect, cancelled>>
        /\ \A j \in Attempt : retry'[j] = "backoff" => retry[j] = "backoff"
    BY <1>4 DEF ReportLoss
  <2> QED
    BY <2>1
<1>5. ASSUME NEW k \in Attempt,
             ReaderStep(k) \/ ReadPong(k) \/ RecvFails(k), ~ReportLoss(k)
      PROVE  Lateness'
  BY <1>1, <1>5 DEF ReaderStep, Reads, RecvFails, CheckContext, CloseDone,
     ReadPong, OnlyReader
<1>6. ASSUME NEW k \in Attempt, RetryStep(k)
      PROVE  Lateness'
  <2>1. CASE EnterBackoff(k)
    BY <2>1 DEF EnterBackoff, OnlyRetry
  <2>2. CASE StopRetrying(k)
    BY <2>2 DEF StopRetrying, OnlyRetry
  <2>3. CASE Redial(k)
    <3>1. reconnect => late = 0
      BY <2>3 DEF Redial
    <3>2. \A j \in Attempt : j # k => retry[j] # "backoff"
      BY <2>3 DEF Redial, OneDriver, Retrying
    <3>3. \A j \in Attempt : retry'[j] # "backoff"
      BY <2>3, <3>2 DEF Redial
    <3> QED
      BY <2>3, <3>1, <3>3 DEF Redial
  <2> QED
    BY <1>6, <2>1, <2>2, <2>3 DEF RetryStep
<1>7. ASSUME NEW k \in Attempt, KeepaliveStep(k) \/ PeerCloses(k)
      PROVE  Lateness'
  BY <1>1, <1>7 DEF KeepaliveStep, EnterSelect, StopKeepalive, Tick, SendPing,
     PingAnswered, PingFails, CloseDead, OnlyKeepalive, PeerCloses
<1>8. ASSUME NEW a \in Apps, AppStep(a) \/ CallClose(a) \/ CallDisconnect(a)
      PROVE  Lateness'
  BY <1>1, <1>8 DEF AppStep, EnterClose, CancelContext, ShutFramer,
     AskToDisconnect, FinishDisconnect, CallClose, CallDisconnect, OnlyApp
<1>9. CASE CancelParent
  BY <1>1, <1>9 DEF CancelParent
<1>10. CASE UNCHANGED vars
  BY <1>1, <1>10 DEF vars
<1> QED
  BY <1>2, <1>3, <1>4, <1>5, <1>6, <1>7, <1>8, <1>9, <1>10 DEF Next

\* Until somebody calls Disconnect, at most one attempt follows the
\* cancellation of the context, however long the client lives.
THEOREM RetriesBounded == Spec => []CancelBoundsRetries
<1>1. Init => Lateness
  BY DEF Init, Lateness, CancelBoundsRetries
<1>2. Inv /\ Lateness /\ [Next]_vars => Lateness'
  BY LatenessStep
<1>3. Lateness => CancelBoundsRetries
  BY DEF Lateness
<1> QED
  BY <1>1, <1>2, <1>3, Invariance, PTL DEF Spec

==============================================================================
