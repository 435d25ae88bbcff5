------------------------------- MODULE Framing -------------------------------
(***************************************************************************)
(* One direction of a connection: goroutines that call SendMessage, the    *)
(* pieces that PlainFramer or NoiseFramer write for each message, and the  *)
(* other end, which reads them as ReadFrame does.  The device reads so     *)
(* what the client writes, and the client's one read loop what the device  *)
(* writes.                                                                 *)
(*                                                                         *)
(* Of a message, only its size matters here: empty, as usual, or more than *)
(* the framer or the other end takes.                                      *)
(***************************************************************************)
EXTENDS Integers, Sequences, SequencesExt

CONSTANTS
  Writers,    \* goroutines that send
  Sizes,      \* the sizes of their messages
  MaxSends,   \* bound on the number of messages of each
  Buffer      \* the pieces that the network holds

ASSUME FramingAssumption ==
  /\ Sizes \subseteq {"empty", "usual", "huge"}
  /\ MaxSends \in Nat
  /\ Buffer \in Nat \ {0}
  /\ "free" \notin Writers

VARIABLES
  mode,       \* "plain" or "noise": the framer of the connection
  open,       \* the connection stands
  writeMu,    \* the writer that holds writeMu, or "free"
  pc,         \* pc[w]: where the SendMessage of writer w is
  frame,      \* frame[w]: the frame that w is writing
  rest,       \* rest[w]: the pieces of it that are still to be written
  count,      \* count[w]: number of messages of w
  sealed,     \* the next nonce of encryptCS
  wire,       \* the pieces on their way
  opened,     \* the next nonce of decryptCS at the other end
  part,       \* the pieces of the frame that the other end is reading
  begun,      \* the frames that were begun, in this order
  got,        \* the frames that the other end has read
  refused     \* ReadFrame has returned an error that is not the connection's

writers == <<writeMu, pc, frame, rest, count, sealed, begun>>
reading == <<opened, part, got, refused>>
vars == <<mode, open, wire, writers, reading>>

Frame(w, n, s, k) == [of |-> w, nr |-> n, size |-> s, nonce |-> k]
NoFrame == [of |-> "none"]

\* The Write calls that make up a frame.
PiecesIn(m, f) ==
  CASE m = "noise" -> <<"header", "payload">>
    [] m = "plain" /\ f.size = "empty" -> <<"preamble", "size", "type">>
    [] OTHER -> <<"preamble", "size", "type", "payload">>
Pieces(f) == PiecesIn(mode, f)

Init ==
  /\ mode \in {"plain", "noise"}
  /\ open = TRUE
  /\ writeMu = "free"
  /\ pc = [w \in Writers |-> "idle"]
  /\ frame = [w \in Writers |-> NoFrame]
  /\ rest = [w \in Writers |-> <<>>]
  /\ count = [w \in Writers |-> 0]
  /\ sealed = 0 /\ opened = 0
  /\ wire = <<>> /\ part = <<>>
  /\ begun = <<>> /\ got = <<>> /\ refused = FALSE

-----------------------------------------------------------------------------
(* SendMessage.                                                            *)

Begin(w) ==
  /\ pc[w] = "idle"
  /\ count[w] < MaxSends
  /\ count' = [count EXCEPT ![w] = @ + 1]
  /\ \E s \in Sizes : frame' = [frame EXCEPT ![w] = Frame(w, count[w] + 1, s, 0)]
  /\ pc' = [pc EXCEPT ![w] = "lock"]
  /\ UNCHANGED <<mode, open, wire, writeMu, rest, sealed, begun, reading>>

\* Mutant: the lock is not taken.
LockNot(w) ==
  /\ pc[w] = "lock"
  /\ pc' = [pc EXCEPT ![w] = "encode"]
  /\ UNCHANGED <<mode, open, wire, writeMu, frame, rest, count, sealed, begun,
                 reading>>

Lock(w) ==
  /\ pc[w] = "lock"
  /\ writeMu = "free"
  /\ writeMu' = w
  /\ pc' = [pc EXCEPT ![w] = "encode"]
  /\ UNCHANGED <<mode, open, wire, frame, rest, count, sealed, begun, reading>>

\* Mutant: a nonce is used again.
EncodeOneNonce(w) ==
  /\ pc[w] = "encode"
  /\ frame' = [frame EXCEPT ![w].nonce = sealed]
  /\ rest' = [rest EXCEPT ![w] = Pieces(frame[w])]
  /\ begun' = Append(begun, [frame[w] EXCEPT !.nonce = sealed])
  /\ pc' = [pc EXCEPT ![w] = "write"]
  /\ UNCHANGED <<mode, open, wire, writeMu, count, sealed, reading>>

\* Noise: the message is encrypted, and takes the next nonce, before its size
\* is looked at.  Plain: no size is looked at.
Encode(w) ==
  /\ pc[w] = "encode"
  /\ sealed' = IF mode = "noise" THEN sealed + 1 ELSE sealed
  /\ frame' = [frame EXCEPT ![w].nonce = sealed]
  /\ IF mode = "noise" /\ frame[w].size = "huge"
       THEN /\ pc' = [pc EXCEPT ![w] = "unlock"]
            /\ UNCHANGED <<rest, begun>>
       ELSE /\ pc' = [pc EXCEPT ![w] = "write"]
            /\ rest' = [rest EXCEPT ![w] = Pieces(frame[w])]
            /\ begun' = Append(begun, [frame[w] EXCEPT !.nonce = sealed])
  /\ UNCHANGED <<mode, open, wire, writeMu, count, reading>>

\* Mutant: a second writer of the same connection is not waited for.
WritePieceAnyway(w) ==
  /\ pc[w] = "write"
  /\ rest[w] # <<>>
  /\ open
  /\ wire' = Append(wire, [frame |-> frame[w], piece |-> Head(rest[w])])
  /\ rest' = [rest EXCEPT ![w] = Tail(@)]
  /\ UNCHANGED <<mode, open, writeMu, pc, frame, count, sealed, begun, reading>>

\* One Write call: it blocks while the other end does not read.
WritePiece(w) ==
  /\ pc[w] = "write"
  /\ rest[w] # <<>>
  /\ open /\ Len(wire) < Buffer
  /\ wire' = Append(wire, [frame |-> frame[w], piece |-> Head(rest[w])])
  /\ rest' = [rest EXCEPT ![w] = Tail(@)]
  /\ UNCHANGED <<mode, open, writeMu, pc, frame, count, sealed, begun, reading>>

\* Mutant: an error returns with the lock held.
WrittenOrLeft(w) ==
  /\ pc[w] = "write"
  /\ rest[w] = <<>> \/ ~open
  /\ pc' = [pc EXCEPT ![w] = IF rest[w] = <<>> THEN "unlock" ELSE "idle"]
  /\ UNCHANGED <<mode, open, wire, writeMu, frame, rest, count, sealed, begun,
                 reading>>

\* The frame is written, or the connection broken.
Written(w) ==
  /\ pc[w] = "write"
  /\ rest[w] = <<>> \/ ~open
  /\ pc' = [pc EXCEPT ![w] = "unlock"]
  /\ UNCHANGED <<mode, open, wire, writeMu, frame, rest, count, sealed, begun,
                 reading>>

Unlock(w) ==
  /\ pc[w] = "unlock"
  /\ writeMu' = "free"
  /\ pc' = [pc EXCEPT ![w] = "idle"]
  /\ frame' = [frame EXCEPT ![w] = NoFrame]
  /\ rest' = [rest EXCEPT ![w] = <<>>]
  /\ UNCHANGED <<mode, open, wire, count, sealed, begun, reading>>

WriterStep(w) ==
  \/ Lock(w) \/ Encode(w) \/ WritePiece(w) \/ Written(w) \/ Unlock(w)

-----------------------------------------------------------------------------
(* The other end.                                                          *)

Pick == Head(wire)
Expected == Pieces(IF part = <<>> THEN Pick.frame ELSE part[1].frame)

\* ReadFrame has the next piece.  It refuses one that cannot come here: a
\* wrong preamble, or a size that is too large.
ReadPiece ==
  /\ open /\ ~refused
  /\ wire # <<>>
  /\ wire' = Tail(wire)
  /\ IF \/ Pick.piece # Expected[Len(part) + 1]
        \/ Pick.piece = "size" /\ Pick.frame.size = "huge"
       THEN refused' = TRUE /\ UNCHANGED part
       ELSE part' = Append(part, Pick) /\ UNCHANGED refused
  /\ UNCHANGED <<mode, open, writers, opened, got>>

Complete == part # <<>> /\ Len(part) = Len(Pieces(part[1].frame))
Whole == \A i \in DOMAIN part : part[i].frame = part[1].frame

\* The last piece is there.  Noise decrypts with the nonce that is due; plain
\* takes whatever has the right length.
ReadFrame ==
  /\ open /\ ~refused
  /\ Complete
  /\ part' = <<>>
  /\ IF mode = "noise" /\ (~Whole \/ part[1].frame.nonce # opened)
       THEN refused' = TRUE /\ UNCHANGED <<opened, got>>
       ELSE /\ opened' = IF mode = "noise" THEN opened + 1 ELSE opened
            /\ got' = Append(got, IF Whole THEN part[1].frame ELSE NoFrame)
            /\ UNCHANGED refused
  /\ UNCHANGED <<mode, open, wire, writers>>

\* The device closes the connection on which it refused a frame.
Hang == refused /\ open /\ open' = FALSE
          /\ UNCHANGED <<mode, wire, writers, reading>>

\* Either end, or the network, breaks the connection.
Break ==
  /\ open
  /\ open' = FALSE
  /\ UNCHANGED <<mode, wire, writers, reading>>

ReaderStep == (~Complete /\ ReadPiece) \/ ReadFrame \/ Hang

-----------------------------------------------------------------------------
Next ==
  \/ \E w \in Writers : Begin(w) \/ WriterStep(w)
  \/ ReaderStep \/ Break

Spec == Init /\ [][Next]_vars

\* A mutex is handed on, and the other end reads on.
Fairness ==
  /\ \A w \in Writers : WF_vars(WriterStep(w)) /\ SF_vars(Lock(w))
  /\ WF_vars(ReaderStep)

FairSpec == Spec /\ Fairness

-----------------------------------------------------------------------------
TypeOK ==
  /\ mode \in {"plain", "noise"}
  /\ open \in BOOLEAN /\ refused \in BOOLEAN
  /\ writeMu \in Writers \cup {"free"}
  /\ pc \in [Writers -> {"idle", "lock", "encode", "write", "unlock"}]
  /\ count \in [Writers -> 0 .. MaxSends]
  /\ sealed \in Nat /\ opened \in Nat
  /\ Len(wire) <= Buffer
  /\ Len(part) <= 4

\* The other end reads whole frames, those that were written, in the order
\* in which their writers held the lock, however the pieces interleave.
FramesArriveWhole == IsPrefix(got, begun)

\* A message was larger than the other end takes, or than a Noise frame holds.
TooLarge ==
  \/ \E i \in DOMAIN begun : begun[i].size = "huge"
  \/ mode = "noise" /\ sealed > Len(begun)

\* The other end refuses nothing unless a message was too large.
RefusedIsTooLarge == refused => TooLarge

\* A message that SendMessage refused with an error does the next no harm.
RefusalIsHarmless == mode = "noise" => ~refused

\* Every SendMessage returns, as the other end reads or the connection breaks.
SendReturns == \A w \in Writers : pc[w] # "idle" ~> pc[w] = "idle"

-----------------------------------------------------------------------------
(* The inductive invariant.                                                *)

Frames == [of : Writers, nr : Nat, size : Sizes, nonce : Nat]
PieceNames == {"preamble", "header", "size", "type", "payload"}
PiecesOfFrames == [frame : Frames, piece : PieceNames]

Typed ==
  /\ TypeOK
  /\ frame \in [Writers -> Frames \cup {NoFrame}]
  /\ rest \in [Writers -> Seq(PieceNames)]
  /\ wire \in Seq(PiecesOfFrames) /\ part \in Seq(PiecesOfFrames)
  /\ begun \in Seq(Frames) /\ got \in Seq(Frames)

\* Who has the lock is past it, and a frame has the number of its message.
Exclusive ==
  \A w \in Writers :
    /\ writeMu = w <=> pc[w] \in {"encode", "write", "unlock"}
    /\ pc[w] # "idle" => /\ frame[w] \in Frames
                         /\ frame[w].of = w /\ frame[w].nr = count[w]

\* No frame is begun twice.
Numbered ==
  /\ \A i \in 1 .. Len(begun) : LET w == begun[i].of IN
       /\ begun[i].nr <= count[w]
       /\ pc[w] \in {"lock", "encode"} => begun[i].nr < count[w]
  /\ \A i, j \in 1 .. Len(begun) :
       begun[i].of = begun[j].of /\ begun[i].nr = begun[j].nr => i = j

\* A writer writes the frame that was begun last, and has its last pieces left.
Writing(w) ==
  LET ps == Pieces(frame[w]) IN
  pc[w] = "write" =>
    /\ begun # <<>> /\ frame[w] = begun[Len(begun)]
    /\ Len(rest[w]) <= Len(ps)
    /\ \A i \in 1 .. Len(rest[w]) : rest[w][i] = ps[Len(ps) - Len(rest[w]) + i]

\* In the stream of the pieces of frames b, r comes after q.
Follows(m, b, q, r) ==
  LET ps == PiecesIn(m, q.frame) IN
  \/ /\ r.frame = q.frame
     /\ \E i \in 1 .. Len(ps) - 1 : ps[i] = q.piece /\ ps[i + 1] = r.piece
  \/ /\ q.piece = ps[Len(ps)] /\ r.piece = PiecesIn(m, r.frame)[1]
     /\ \E i \in 1 .. Len(b) - 1 : b[i] = q.frame /\ b[i + 1] = r.frame

\* The stream ends with q.
Ends(m, b, q) ==
  /\ b # <<>> /\ q.frame = b[Len(b)]
  /\ LET ps == PiecesIn(m, q.frame) IN q.piece = ps[Len(ps)]

\* The other end has n frames, and has begun to read the next.
Started(m, b, n, p) ==
  p # <<>> =>
    /\ n < Len(b)
    /\ Len(p) <= Len(PiecesIn(m, b[n + 1]))
    /\ \A i \in 1 .. Len(p) : /\ p[i].frame = b[n + 1]
                             /\ p[i].piece = PiecesIn(m, b[n + 1])[i]

\* q comes right after what the other end has.
Due(m, b, n, p, q) ==
  IF p = <<>>
  THEN n < Len(b) /\ q.frame = b[n + 1] /\ q.piece = PiecesIn(m, b[n + 1])[1]
  ELSE Follows(m, b, p[Len(p)], q)

\* The pieces c go on from there, one after the other.
Chain(m, b, n, p, c) ==
  /\ Started(m, b, n, p)
  /\ c # <<>> => Due(m, b, n, p, c[1])
  /\ \A i \in 1 .. Len(c) - 1 : Follows(m, b, c[i], c[i + 1])

\* With them the stream ends.
Final(m, b, n, p, c) ==
  IF c # <<>> THEN Ends(m, b, c[Len(c)])
  ELSE IF p # <<>> THEN Ends(m, b, p[Len(p)])
  ELSE n = Len(b)

Busy == writeMu # "free" /\ pc[writeMu] = "write" /\ rest[writeMu] # <<>>

\* What the other end has still to read: the wire, and the piece that is
\* written next.
Coming ==
  IF Busy THEN Append(wire, [frame |-> frame[writeMu], piece |-> Head(rest[writeMu])])
          ELSE wire

Streamed ==
  /\ Chain(mode, begun, Len(got), part, Coming)
  /\ ~Busy => Final(mode, begun, Len(got), part, wire)

\* The nonces of the frames rise, by one each time unless a message was refused.
Sealed ==
  mode = "noise" =>
    /\ opened = Len(got)
    /\ sealed >= Len(begun)
    /\ \A i \in 1 .. Len(begun) :
         /\ begun[i].size # "huge"
         /\ begun[i].nonce >= i - 1
         /\ begun[i].nonce - (i - 1) <= sealed - Len(begun)

\* What the other end has got is what was begun first.
Received ==
  /\ Len(got) <= Len(begun)
  /\ \A i \in 1 .. Len(got) : got[i] = begun[i]

IInv ==
  /\ Typed /\ Exclusive /\ Numbered
  /\ \A w \in Writers : Writing(w)
  /\ open /\ ~refused => Streamed
  /\ Sealed /\ Received /\ RefusedIsTooLarge

=============================================================================
