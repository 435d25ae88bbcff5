---------------------------- MODULE TransportProofs ----------------------------
(***************************************************************************)
(* What is proved of Framing and of Handshake, for both halves of the      *)
(* transport as MCTransport has them.                                      *)
(***************************************************************************)
EXTENDS MCTransport, FramingProofs

HP == INSTANCE HandshakeProofs

\* The first half is Framing, whichever half moves.
LEMMA FramingHalf == HalfSpec => Spec
<1>1. HalfInit => Init
  BY DEF HalfInit
<1>2. [HalfNext]_<<half, vars, connecting>> => [Next]_vars
  BY DEF HalfNext
<1> QED
  BY <1>1, <1>2, PTL DEF HalfSpec, Spec

\* What MCTransport calls H is what the proofs are about.
LEMMA SameInit == H!Init => HP!Init
BY DEF H!Init, HP!Init, H!Options, HP!Options, H!Devices, HP!Devices, H!Names,
       HP!Names, H!OwnMajor, HP!OwnMajor, H!OwnMinor, HP!OwnMinor

LEMMA SameNext == H!Next => HP!Next
<1> USE DEF H!Fail, HP!Fail, H!Next1, HP!Next1, H!conn, HP!conn,
            H!Answer, HP!Answer, H!Waiting, HP!Waiting
<1>1. H!Begin => HP!Begin
  BY DEF H!Begin, HP!Begin, H!Devices, HP!Devices, H!Names, HP!Names,
         H!OwnMajor, HP!OwnMajor
<1>2. H!Resolve => HP!Resolve
  BY DEF H!Resolve, HP!Resolve
<1>3. H!Connect \/ H!GiveUp => HP!Connect \/ HP!GiveUp
  BY DEF H!Connect, H!GiveUp, HP!Connect, HP!GiveUp
<1>4. H!SendNoise => HP!SendNoise
  BY DEF H!SendNoise, HP!SendNoise
<1>5. H!ReadServerHello => HP!ReadServerHello
  BY DEF H!ReadServerHello, HP!ReadServerHello, H!NameAccepted, HP!NameAccepted
<1>6. H!ReadResponse => HP!ReadResponse
  BY DEF H!ReadResponse, HP!ReadResponse
<1>7. H!SendHello => HP!SendHello
  BY DEF H!SendHello, HP!SendHello
<1>8. H!ReadHelloResponse => HP!ReadHelloResponse
  BY DEF H!ReadHelloResponse, HP!ReadHelloResponse, H!OwnMajor, HP!OwnMajor
<1>9. H!Expire \/ H!Cut \/ H!End => HP!Expire \/ HP!Cut \/ HP!End
  BY DEF H!Expire, H!Cut, H!End, HP!Expire, HP!Cut, HP!End
<1>10. H!Reply \/ H!Hang \/ H!FallSilent => HP!Reply \/ HP!Hang \/ HP!FallSilent
  BY DEF H!Reply, H!Hang, H!FallSilent, HP!Reply, HP!Hang, HP!FallSilent
<1> QED
  BY <1>1, <1>2, <1>3, <1>4, <1>5, <1>6, <1>7, <1>8, <1>9, <1>10
     DEF H!Next, H!Client, HP!Next, HP!Client

\* The second half is Handshake, whichever half moves.
LEMMA HandshakeHalf == HalfSpec => HP!Spec
<1>1. HalfInit => HP!Init
  BY SameInit DEF HalfInit, Unused
<1>2. [HalfNext]_<<half, vars, connecting>> => [HP!Next]_HP!vars
  BY SameNext DEF HalfNext, connecting, HP!vars, HP!conn
<1> QED
  BY <1>1, <1>2, PTL DEF HalfSpec, HP!Spec

\* Both halves keep their types.
THEOREM TransportTypeCorrect ==
  ASSUME MaxAttempts \in Nat, Minors # {}
  PROVE  HalfSpec => []BothTypeOK
<1>1. HP!Spec => []HP!TypeOK
  BY HP!HandshakeTypeCorrect
<1>2. HP!TypeOK => H!TypeOK
  BY DEF H!TypeOK, HP!TypeOK, H!Options, HP!Options, H!Devices, HP!Devices,
         H!Names, HP!Names, H!OwnMajor, HP!OwnMajor, H!OwnMinor, HP!OwnMinor,
         H!Waiting, HP!Waiting
<1> QED
  BY <1>1, <1>2, FramingHalf, FramingTypeCorrect, HandshakeHalf, PTL DEF BothTypeOK

\* A connection that connect() accepts is to a device that agrees with the
\* options of the client.
THEOREM AcceptedAgrees == HalfSpec => []UpIsAgreed
<1>1. HP!UpIsAgreed => UpIsAgreed
  BY DEF UpIsAgreed, H!UpIsAgreed, HP!UpIsAgreed, H!OwnMajor, HP!OwnMajor
<1> QED
  BY <1>1, HandshakeHalf, HP!Agreement, PTL

\* No connect() leaves a deadline on what it returns, or a socket open when it
\* fails.
THEOREM CleanConnect == HalfSpec => []NothingLeftBehind
<1>1. HP!NothingLeftBehind => NothingLeftBehind
  BY DEF NothingLeftBehind, H!NothingLeftBehind, HP!NothingLeftBehind
<1> QED
  BY <1>1, HandshakeHalf, HP!CleanExit, PTL

=============================================================================
