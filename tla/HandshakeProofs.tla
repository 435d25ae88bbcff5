---------------------------- MODULE HandshakeProofs ----------------------------
(***************************************************************************)
(* Proofs about Handshake, for any names, versions and number of attempts. *)
(***************************************************************************)
EXTENDS Handshake, SequenceTheorems, TLAPS

\* The inbox is never longer than two.
LEMMA Lengths ==
  ASSUME NEW d, NEW b \in {<<>>, <<d>>, <<d, d>>}
  PROVE  Len(b) \in 0 .. 2
<1>1. Len(<<>>) = 0
  BY EmptySeq
<1>2. Len(<<d>>) = 1 /\ Len(<<d, d>>) = 2
  <2>1. <<d>> \in Seq({d}) /\ <<d, d>> \in Seq({d})
    OBVIOUS
  <2> QED
    BY <2>1
<1> QED
  BY <1>1, <1>2

\* A client that has not connected knows nothing and holds nothing.
LEMMA InitIInv == Init => IInv
BY DEF Init, IInv, Heard, Known, Held, UpIsAgreed, NothingLeftBehind

\* A failed handshake closes its socket and takes its deadline back.
LEMMA FailIInv ==
  ASSUME IInv, Fail
  PROVE  IInv'
BY DEF IInv, Heard, Known, Held, UpIsAgreed, NothingLeftBehind, Fail

\* What is read next is what the device says of itself.
LEMMA AnswerHeard ==
  ASSUME Heard, inbox # <<>>
  PROVE  /\ Answer = device
         /\ Tail(inbox) \in {<<>>, <<device>>}
<1>1. CASE inbox = <<device>>
  BY <1>1 DEF Answer
<1>2. CASE inbox = <<device, device>>
  BY <1>2 DEF Answer
<1> QED
  BY <1>1, <1>2 DEF Heard

\* The client's own steps, up to the dial.
LEMMA DialIInv ==
  ASSUME IInv, Begin \/ Resolve \/ Connect \/ GiveUp
  PROVE  IInv'
<1> USE DEF IInv, Heard, Known, Held, UpIsAgreed, NothingLeftBehind, conn
<1>1. CASE Begin
  BY <1>1 DEF Begin
<1>2. CASE Resolve
  BY <1>2 DEF Resolve
<1>3. CASE Connect
  BY <1>3 DEF Connect
<1>4. CASE GiveUp
  BY <1>4 DEF GiveUp
<1> QED
  BY <1>1, <1>2, <1>3, <1>4

\* performHandshake goes on only with a device of the same protocol and key, and
\* of an acceptable name.
LEMMA NoiseIInv ==
  ASSUME IInv, SendNoise \/ ReadServerHello \/ ReadResponse
  PROVE  IInv'
<1> USE DEF IInv, Known, Held, UpIsAgreed, NothingLeftBehind
<1>1. CASE SendNoise
  BY <1>1 DEF SendNoise, Heard
<1>2. CASE ReadServerHello
  <2>1. CASE Fail
    BY <2>1, FailIInv
  <2>2. CASE ~Fail
    BY <1>2, <2>2, AnswerHeard DEF ReadServerHello, Next1, NameAccepted, Heard
  <2> QED
    BY <2>1, <2>2
<1>3. CASE ReadResponse
  <2>1. CASE Fail
    BY <2>1, FailIInv
  <2>2. CASE ~Fail
    BY <1>3, <2>2, AnswerHeard DEF ReadResponse, Next1, Heard
  <2> QED
    BY <2>1, <2>2
<1> QED
  BY <1>1, <1>2, <1>3

\* handshake() accepts only a device of the same protocol and major version.
LEMMA HelloIInv ==
  ASSUME IInv, SendHello \/ ReadHelloResponse
  PROVE  IInv'
<1> USE DEF IInv, Known, Held, UpIsAgreed, NothingLeftBehind
<1>1. CASE SendHello
  BY <1>1 DEF SendHello, Heard
<1>2. CASE ReadHelloResponse
  <2>1. CASE Fail
    BY <2>1, FailIInv
  <2>2. CASE ~Fail
    BY <1>2, <2>2, AnswerHeard DEF ReadHelloResponse, Next1, Heard
  <2> QED
    BY <2>1, <2>2
<1> QED
  BY <1>1, <1>2

\* The end of a connection, whoever makes it, and the device's answers.
LEMMA OtherIInv ==
  ASSUME IInv, Expire \/ Cut \/ End \/ Reply \/ Hang \/ FallSilent
  PROVE  IInv'
<1> USE DEF IInv, Heard, Known, Held, UpIsAgreed, NothingLeftBehind, conn
<1>1. CASE Expire \/ Cut
  BY <1>1, FailIInv DEF Expire, Cut
<1>2. CASE End
  BY <1>2 DEF End
<1>3. CASE Reply
  BY <1>3 DEF Reply
<1>4. CASE Hang
  BY <1>4 DEF Hang
<1>5. CASE FallSilent
  BY <1>5 DEF FallSilent
<1> QED
  BY <1>1, <1>2, <1>3, <1>4, <1>5

\* Nothing changes while nothing happens.
LEMMA StutterIInv ==
  ASSUME IInv, UNCHANGED vars
  PROVE  IInv'
BY DEF vars, conn, IInv, Heard, Known, Held, UpIsAgreed, NothingLeftBehind

\* The inductive invariant holds in every reachable state.
THEOREM Progress == Spec => []IInv
<1>1. IInv /\ [Next]_vars => IInv'
  BY DialIInv, NoiseIInv, HelloIInv, OtherIInv, StutterIInv DEF Next, Client
<1> QED
  BY InitIInv, <1>1, PTL DEF Spec

\* connect() (client.go:199-224) accepts only a device of the client's protocol,
\* key and major version, whose name is the expected one if it has said one.
THEOREM Agreement == Spec => []UpIsAgreed
<1>1. IInv => UpIsAgreed
  BY DEF IInv, Known
<1> QED
  BY Progress, <1>1, PTL

\* However connect() ends, no deadline and no open socket is left of it
\* (noise.go:68-97, client.go:218-221).
THEOREM CleanExit == Spec => []NothingLeftBehind
<1>1. IInv => NothingLeftBehind
  BY DEF IInv, Held
<1> QED
  BY Progress, <1>1, PTL

\* Every variable keeps its type, if there is a version to report and the bound on
\* the attempts is a number.
THEOREM HandshakeTypeCorrect ==
  ASSUME MaxAttempts \in Nat, Minors # {}
  PROVE  Spec => []TypeOK
<1> USE DEF TypeOK, Waiting, conn
<1>1. Init => TypeOK
  <2> SUFFICES ASSUME Init PROVE TypeOK
    OBVIOUS
  <2>1. PICK m \in Minors : TRUE
    OBVIOUS
  <2>2. [noise |-> TRUE, sameKey |-> TRUE, name |-> "unset", major |-> OwnMajor,
         minor |-> m] \in Devices
    BY <2>1 DEF Devices, Names
  <2>3. device \in Devices
    BY <2>2 DEF Init
  <2>4. Len(inbox) \in 0 .. 2
    BY Lengths DEF Init
  <2> QED
    <3>1. options \in Options /\ minor \in Minors \cup {OwnMinor}
      BY DEF Init
    <3>2. attempt \in 0 .. MaxAttempts
      BY DEF Init
    <3>3. /\ stage \in Waiting \cup {"off", "resolve", "dial", "up", "failed"}
          /\ socket \in {"none", "open", "cut", "closed"}
          /\ deadline \in BOOLEAN /\ asked \in BOOLEAN /\ silent \in BOOLEAN
      BY DEF Init
    <3> QED
      BY <2>3, <2>4, <3>1, <3>2, <3>3
<1>2. TypeOK /\ IInv /\ [Next]_vars => TypeOK'
  <2> SUFFICES ASSUME TypeOK, IInv, [Next]_vars PROVE TypeOK'
    OBVIOUS
  <2>1. IInv'
    BY DialIInv, NoiseIInv, HelloIInv, OtherIInv, StutterIInv DEF Next, Client
  <2>2. Len(inbox') \in 0 .. 2
    BY <2>1, Lengths DEF IInv, Heard
  <2>3. inbox # <<>> => Answer.minor \in Minors
    BY AnswerHeard DEF IInv, Devices
  <2> HIDE DEF TypeOK
  <2>4. CASE Begin
    <3>1. attempt' \in 0 .. MaxAttempts
      <4>1. attempt \in 0 .. MaxAttempts
        BY DEF TypeOK
      <4>2. attempt < MaxAttempts /\ attempt' = attempt + 1
        BY <2>4 DEF Begin
      <4> QED
        BY <4>1, <4>2
    <3>2. /\ stage' \in Waiting \cup {"off", "resolve", "dial", "up", "failed"}
          /\ device' \in Devices
          /\ socket' \in {"none", "open", "cut", "closed"}
          /\ deadline' \in BOOLEAN /\ asked' \in BOOLEAN /\ silent' \in BOOLEAN
      BY <2>4 DEF Begin
    <3> QED
      BY <2>2, <2>4, <3>1, <3>2 DEF Begin, TypeOK
  <2>5. CASE Resolve \/ Connect \/ GiveUp
    BY <2>2, <2>5 DEF Resolve, Connect, GiveUp, TypeOK
  <2>6. CASE Fail
    BY <2>2, <2>6 DEF Fail, TypeOK
  <2>7. CASE SendNoise \/ SendHello
    BY <2>2, <2>7 DEF SendNoise, SendHello, TypeOK
  <2>8. CASE (ReadServerHello \/ ReadResponse \/ ReadHelloResponse) /\ ~Fail
    BY <2>2, <2>3, <2>8 DEF ReadServerHello, ReadResponse, ReadHelloResponse, Next1, TypeOK
  <2>9. CASE End \/ Reply
    BY <2>2, <2>9 DEF End, Reply, TypeOK
  <2>10. CASE Hang \/ FallSilent
    BY <2>2, <2>10 DEF Hang, FallSilent, TypeOK
  <2>11. CASE UNCHANGED vars
    BY <2>11 DEF vars, TypeOK
  <2> QED
    BY <2>4, <2>5, <2>6, <2>7, <2>8, <2>9, <2>10, <2>11 DEF Next, Client, Expire, Cut
<1> QED
  BY Progress, <1>1, <1>2, PTL DEF Spec

==============================================================================
