----------------------------- MODULE FramingProofs -----------------------------
(***************************************************************************)
(* Proofs about Framing, for any writers, any number of messages, any      *)
(* sizes of them and any capacity of the network.                          *)
(***************************************************************************)
EXTENDS Framing, SequenceTheorems, TLAPS

-----------------------------------------------------------------------------
(* Frames and their pieces.                                                *)

\* A frame is two, three or four pieces, no two of one name.
LEMMA PiecesFacts ==
  ASSUME NEW m, NEW f
  PROVE  /\ PiecesIn(m, f) \in Seq(PieceNames)
         /\ Len(PiecesIn(m, f)) \in 2 .. 4
         /\ \A i, j \in 1 .. Len(PiecesIn(m, f)) :
              PiecesIn(m, f)[i] = PiecesIn(m, f)[j] => i = j
<1> DEFINE P2 == <<"header", "payload">>
          P3 == <<"preamble", "size", "type">>
          P4 == <<"preamble", "size", "type", "payload">>
<1>1. /\ P2 \in Seq(PieceNames) /\ Len(P2) \in 2 .. 4
      /\ \A i, j \in 1 .. Len(P2) : P2[i] = P2[j] => i = j
  <2>1. P2 \in Seq(PieceNames) /\ Len(P2) = 2
    BY DEF PieceNames
  <2>2. \A i, j \in 1 .. 2 : P2[i] = P2[j] => i = j
    OBVIOUS
  <2> HIDE DEF P2
  <2> QED
    BY <2>1, <2>2
<1>2. /\ P3 \in Seq(PieceNames) /\ Len(P3) \in 2 .. 4
      /\ \A i, j \in 1 .. Len(P3) : P3[i] = P3[j] => i = j
  <2>1. P3 \in Seq(PieceNames) /\ Len(P3) = 3
    BY DEF PieceNames
  <2>2. \A i, j \in 1 .. 3 : P3[i] = P3[j] => i = j
    OBVIOUS
  <2> HIDE DEF P3
  <2> QED
    BY <2>1, <2>2
<1>3. /\ P4 \in Seq(PieceNames) /\ Len(P4) \in 2 .. 4
      /\ \A i, j \in 1 .. Len(P4) : P4[i] = P4[j] => i = j
  <2>1. P4 \in Seq(PieceNames) /\ Len(P4) = 4
    BY DEF PieceNames
  <2>2. \A i, j \in 1 .. 4 : P4[i] = P4[j] => i = j
    OBVIOUS
  <2> HIDE DEF P4
  <2> QED
    BY <2>1, <2>2
<1>4. PiecesIn(m, f) \in {P2, P3, P4}
  BY DEF PiecesIn
<1> HIDE DEF P2, P3, P4
<1> QED
  BY <1>1, <1>2, <1>3, <1>4, Zenon

\* The nonce is not among what the pieces depend on.
LEMMA SamePieces ==
  ASSUME NEW m, NEW f, NEW g, f.size = g.size
  PROVE  PiecesIn(m, f) = PiecesIn(m, g)
BY DEF PiecesIn

\* What follows in a stream still does when a frame is added to it.
LEMMA FollowsOn ==
  ASSUME NEW m, NEW b \in Seq(Frames), NEW f \in Frames, NEW q, NEW r,
         Follows(m, b, q, r)
  PROVE  Follows(m, Append(b, f), q, r)
<1>1. /\ Len(Append(b, f)) = Len(b) + 1 /\ Len(b) \in Nat
      /\ \A i \in 1 .. Len(b) : Append(b, f)[i] = b[i]
  BY AppendProperties, LenProperties
<1> QED
  BY <1>1 DEF Follows

\* One piece more at the end of a chain.
LEMMA Extend ==
  ASSUME NEW m, NEW b, NEW n, NEW p, NEW c \in Seq(PiecesOfFrames),
         NEW q \in PiecesOfFrames, Chain(m, b, n, p, c),
         IF c # <<>> THEN Follows(m, b, c[Len(c)], q) ELSE Due(m, b, n, p, q)
  PROVE  Chain(m, b, n, p, Append(c, q))
<1>1. /\ Len(Append(c, q)) = Len(c) + 1 /\ Len(c) \in Nat
      /\ \A i \in 1 .. Len(c) : Append(c, q)[i] = c[i]
      /\ Append(c, q)[Len(c) + 1] = q
  BY AppendProperties, LenProperties
<1>2. CASE c = <<>>
  BY <1>1, <1>2, EmptySeq DEF Chain
<1>3. CASE c # <<>>
  <2>1. Len(c) > 0
    BY <1>3, EmptySeq
  <2>2. Due(m, b, n, p, Append(c, q)[1])
    BY <1>1, <1>3, <2>1 DEF Chain
  <2>3. ASSUME NEW i \in 1 .. Len(c)
        PROVE  Follows(m, b, Append(c, q)[i], Append(c, q)[i + 1])
    <3>1. CASE i = Len(c)
      BY <1>1, <1>3, <3>1
    <3>2. CASE i \in 1 .. Len(c) - 1
      BY <1>1, <3>2 DEF Chain
    <3> QED
      BY <3>1, <3>2
  <2> QED
    BY <1>1, <2>2, <2>3 DEF Chain
<1> QED
  BY <1>2, <1>3

\* A new frame at the end of the stream: its first piece comes next.
LEMMA NewFrame ==
  ASSUME NEW m, NEW b \in Seq(Frames), NEW n \in 0 .. Len(b),
         NEW p \in Seq(PiecesOfFrames), NEW c \in Seq(PiecesOfFrames),
         Chain(m, b, n, p, c), Final(m, b, n, p, c),
         NEW f \in Frames, NEW q \in PiecesOfFrames,
         q.frame = f, q.piece = PiecesIn(m, f)[1]
  PROVE  Chain(m, Append(b, f), n, p, Append(c, q))
<1> DEFINE d == Append(b, f)
<1>1. /\ Len(d) = Len(b) + 1 /\ Len(b) \in Nat
      /\ \A i \in 1 .. Len(b) : d[i] = b[i]
      /\ d[Len(b) + 1] = f
  BY AppendProperties, LenProperties
<1> HIDE DEF d
<1>2. Chain(m, d, n, p, c)
  <2>1. \A r, s : Follows(m, b, r, s) => Follows(m, d, r, s)
    BY FollowsOn DEF d
  <2>2. Started(m, d, n, p)
    <3>1. Started(m, b, n, p)
      BY DEF Chain
    <3>2. CASE n < Len(b)
      <4>1. d[n + 1] = b[n + 1] /\ n < Len(d)
        BY <1>1, <3>2
      <4> QED
        BY <3>1, <4>1 DEF Started
    <3> QED
      BY <3>1, <3>2 DEF Started
  <2>3. ASSUME NEW r, Due(m, b, n, p, r) PROVE Due(m, d, n, p, r)
    BY <1>1, <2>1, <2>3 DEF Due
  <2> QED
    BY <2>1, <2>2, <2>3 DEF Chain
<1>3. ASSUME NEW r, Ends(m, b, r) PROVE Follows(m, d, r, q)
  <2>1. Len(b) \in 1 .. Len(d) - 1 /\ d[Len(b)] = b[Len(b)]
    BY <1>1, <1>3, EmptySeq DEF Ends
  <2> QED
    BY <1>1, <1>3, <2>1 DEF Ends, Follows
<1>4. IF c # <<>> THEN Follows(m, d, c[Len(c)], q) ELSE Due(m, d, n, p, q)
  <2>1. CASE c # <<>>
    BY <1>3, <2>1 DEF Final
  <2>2. CASE c = <<>> /\ p # <<>>
    BY <1>3, <2>2 DEF Final, Due
  <2>3. CASE c = <<>> /\ p = <<>>
    BY <1>1, <2>3 DEF Final, Due
  <2> QED
    BY <2>1, <2>2, <2>3
<1> QED
  BY <1>2, <1>4, Extend DEF d

\* The other end has read no more than begins a frame.
Unfinished(m, b, n, p) == p = <<>> \/ Len(p) < Len(PiecesIn(m, b[n + 1]))

\* The next piece on its way is the one that the other end expects.
LEMMA Expecting ==
  ASSUME NEW m, NEW b \in Seq(Frames), NEW n \in 0 .. Len(b),
         NEW p \in Seq(PiecesOfFrames), NEW c,
         c # <<>>, Chain(m, b, n, p, c), Unfinished(m, b, n, p)
  PROVE  /\ n < Len(b) /\ c[1].frame = b[n + 1]
         /\ c[1].piece = PiecesIn(m, b[n + 1])[Len(p) + 1]
         /\ Len(p) < Len(PiecesIn(m, b[n + 1]))
<1> DEFINE ps == PiecesIn(m, b[n + 1])
<1>1. Len(ps) \in 2 .. 4 /\ \A i, j \in 1 .. Len(ps) : ps[i] = ps[j] => i = j
  BY PiecesFacts
<1>2. Due(m, b, n, p, c[1]) /\ Started(m, b, n, p)
  BY DEF Chain
<1>3. CASE p = <<>>
  <2>1. Len(p) = 0
    BY <1>3, EmptySeq
  <2> QED
    BY <1>1, <1>2, <1>3, <2>1 DEF Due
<1>4. CASE p # <<>>
  <2> DEFINE k == Len(p)
  <2>1. k \in 1 .. Len(ps) - 1
    BY <1>1, <1>4, EmptySeq, LenProperties DEF Unfinished
  <2>2. n < Len(b) /\ p[k].frame = b[n + 1] /\ p[k].piece = ps[k]
    BY <1>2, <1>4, <2>1, LenProperties DEF Started
  <2>3. Follows(m, b, p[k], c[1])
    BY <1>2, <1>4 DEF Due
  <2> HIDE DEF k, ps
  <2>4. p[k].piece # ps[Len(ps)]
    BY <1>1, <2>1, <2>2
  <2>5. PICK i \in 1 .. Len(ps) - 1 :
          /\ c[1].frame = b[n + 1]
          /\ ps[i] = ps[k] /\ ps[i + 1] = c[1].piece
    BY <2>2, <2>3, <2>4 DEF Follows, ps
  <2>6. i = k
    BY <1>1, <2>1, <2>5
  <2> QED
    BY <2>1, <2>2, <2>5, <2>6 DEF k, ps
<1> QED
  BY <1>3, <1>4

\* Reading that piece.
LEMMA Consume ==
  ASSUME NEW m, NEW b \in Seq(Frames), NEW n \in 0 .. Len(b),
         NEW p \in Seq(PiecesOfFrames), NEW c \in Seq(PiecesOfFrames),
         c # <<>>, Chain(m, b, n, p, c), Unfinished(m, b, n, p)
  PROVE  /\ Chain(m, b, n, Append(p, Head(c)), Tail(c))
         /\ Final(m, b, n, p, c) => Final(m, b, n, Append(p, Head(c)), Tail(c))
<1> DEFINE q == Head(c)
          r == Append(p, q)
          t == Tail(c)
<1>1. /\ q \in PiecesOfFrames /\ q = c[1] /\ Len(c) \in Nat \ {0}
      /\ t \in Seq(PiecesOfFrames) /\ Len(t) = Len(c) - 1
      /\ \A i \in 1 .. Len(t) : t[i] = c[i + 1]
  BY HeadTailProperties, LenProperties, EmptySeq
<1>2. /\ Len(r) = Len(p) + 1 /\ Len(p) \in Nat /\ r # <<>>
      /\ \A i \in 1 .. Len(p) : r[i] = p[i]
      /\ r[Len(r)] = q
  BY <1>1, AppendProperties, LenProperties
<1>3. /\ n < Len(b) /\ q.frame = b[n + 1]
      /\ q.piece = PiecesIn(m, b[n + 1])[Len(p) + 1]
      /\ Len(p) < Len(PiecesIn(m, b[n + 1]))
  BY <1>1, Expecting
<1>4. t # <<>> => Len(t) \in Nat \ {0}
  BY <1>1, EmptySeq
<1> HIDE DEF q, r, t
<1>5. Started(m, b, n, r)
  <2>1. \A i \in 1 .. Len(p) : /\ p[i].frame = b[n + 1]
                             /\ p[i].piece = PiecesIn(m, b[n + 1])[i]
    <3>1. CASE p = <<>>
      BY <3>1, EmptySeq
    <3> QED
      BY <3>1 DEF Chain, Started
  <2>2. Len(PiecesIn(m, b[n + 1])) \in Nat
    BY PiecesFacts
  <2> QED
    BY <1>2, <1>3, <2>1, <2>2 DEF Started
<1>6. \A i \in 1 .. Len(c) - 1 : Follows(m, b, c[i], c[i + 1])
  BY DEF Chain
<1>7. t # <<>> => Due(m, b, n, r, t[1])
  <2> SUFFICES ASSUME t # <<>> PROVE Due(m, b, n, r, t[1])
    OBVIOUS
  <2>1. Len(t) \in Nat \ {0}
    BY <1>4
  <2>2. t[1] = c[2] /\ 1 \in 1 .. Len(c) - 1
    BY <1>1, <2>1
  <2>3. Follows(m, b, c[1], c[2])
    BY <1>6, <2>2
  <2> QED
    BY <1>1, <1>2, <2>2, <2>3 DEF Due
<1>8. ASSUME NEW i \in 1 .. Len(t) - 1 PROVE Follows(m, b, t[i], t[i + 1])
  <2>1. /\ i \in 1 .. Len(t) /\ i + 1 \in 1 .. Len(t)
        /\ i + 1 \in 1 .. Len(c) - 1
    BY <1>1
  <2>2. t[i] = c[i + 1] /\ t[i + 1] = c[(i + 1) + 1]
    BY <1>1, <2>1
  <2> QED
    BY <1>6, <2>1, <2>2
<1>9. Final(m, b, n, p, c) => Final(m, b, n, r, t)
  <2>1. CASE t = <<>>
    <3>1. Len(c) = 1
      BY <1>1, <2>1, EmptySeq
    <3> QED
      BY <1>1, <1>2, <2>1, <3>1 DEF Final
  <2>2. CASE t # <<>>
    <3>1. Len(t) \in 1 .. Len(t) /\ Len(t) + 1 = Len(c)
      BY <1>1, <1>4, <2>2
    <3>2. t[Len(t)] = c[Len(c)]
      BY <1>1, <3>1
    <3> QED
      BY <2>2, <3>2 DEF Final
  <2> QED
    BY <2>1, <2>2
<1> QED
  BY <1>5, <1>7, <1>8, <1>9 DEF Chain, q, r, t

\* No frame is in the stream twice.
Distinct(b) == \A i, j \in 1 .. Len(b) : b[i] = b[j] => i = j

\* The frame is complete: the pieces go on with the frame after it.
LEMMA FrameRead ==
  ASSUME NEW m, NEW b \in Seq(Frames), NEW n \in 0 .. Len(b), Distinct(b),
         NEW p \in Seq(PiecesOfFrames), NEW c \in Seq(PiecesOfFrames),
         p # <<>>, Chain(m, b, n, p, c), Len(p) = Len(PiecesIn(m, p[1].frame))
  PROVE  /\ n < Len(b) /\ \A i \in 1 .. Len(p) : p[i].frame = b[n + 1]
         /\ Chain(m, b, n + 1, <<>>, c)
         /\ Final(m, b, n, p, c) => Final(m, b, n + 1, <<>>, c)
<1> DEFINE ps == PiecesIn(m, b[n + 1])
          k == Len(p)
<1>1. k \in Nat \ {0}
  BY EmptySeq
<1>2. /\ n < Len(b) /\ \A i \in 1 .. k : p[i].frame = b[n + 1]
      /\ k = Len(ps) /\ p[k].piece = ps[k]
  <2>1. Started(m, b, n, p)
    BY DEF Chain
  <2>2. /\ n < Len(b) /\ \A i \in 1 .. k : p[i].frame = b[n + 1]
        /\ \A i \in 1 .. k : p[i].piece = ps[i]
    BY <2>1 DEF Started
  <2> QED
    BY <1>1, <2>2
<1>3. ASSUME NEW q, Follows(m, b, p[k], q) PROVE Due(m, b, n + 1, <<>>, q)
  <2>1. /\ Len(ps) \in 2 .. 4
        /\ \A i, j \in 1 .. Len(ps) : ps[i] = ps[j] => i = j
    BY PiecesFacts
  <2>2. p[k].frame = b[n + 1] /\ p[k].piece = ps[Len(ps)]
    BY <1>1, <1>2
  <2> HIDE DEF ps, k
  <2>3. \A i \in 1 .. Len(ps) - 1 : ps[i] # p[k].piece
    BY <2>1, <2>2
  <2>4. PICK i \in 1 .. Len(b) - 1 :
          /\ b[i] = b[n + 1] /\ b[i + 1] = q.frame
          /\ q.piece = PiecesIn(m, q.frame)[1]
    BY <1>3, <2>2, <2>3 DEF Follows, ps
  <2>5. Len(b) \in Nat /\ n \in Nat /\ n < Len(b)
    BY <1>2, LenProperties
  <2>6. i \in 1 .. Len(b) /\ n + 1 \in 1 .. Len(b)
    BY <2>5
  <2>7. i = n + 1
    BY <2>4, <2>6 DEF Distinct
  <2> QED
    BY <2>4, <2>5, <2>7 DEF Due
<1>4. ASSUME Ends(m, b, p[k]) PROVE n + 1 = Len(b)
  <2>1. b[n + 1] = b[Len(b)] /\ Len(b) \in Nat \ {0}
    BY <1>1, <1>2, <1>4, EmptySeq DEF Ends
  <2>2. n \in Nat /\ n < Len(b)
    BY <1>2
  <2>3. n + 1 \in 1 .. Len(b) /\ Len(b) \in 1 .. Len(b)
    BY <2>1, <2>2
  <2> QED
    BY <2>1, <2>3 DEF Distinct
<1> HIDE DEF ps, k
<1>5. Chain(m, b, n + 1, <<>>, c)
  BY <1>3 DEF Chain, Due, Started, k
<1>6. Final(m, b, n, p, c) => Final(m, b, n + 1, <<>>, c)
  BY <1>4 DEF Final, k
<1> QED
  BY <1>2, <1>5, <1>6 DEF k

-----------------------------------------------------------------------------
(* Types, the lock, and the numbers of the messages.                       *)

\* The types of the steps that write.
LEMMA WriterType ==
  ASSUME Typed, Exclusive, NEW w \in Writers, Begin(w) \/ WriterStep(w)
  PROVE  Typed'
<1> USE FramingAssumption DEF Typed, TypeOK, reading
<1>1. CASE Begin(w)
  <2>1. PICK s \in Sizes : frame' = [frame EXCEPT ![w] = Frame(w, count[w] + 1, s, 0)]
    BY <1>1 DEF Begin
  <2>2. Frame(w, count[w] + 1, s, 0) \in Frames
    BY DEF Frame, Frames
  <2>3. count' \in [Writers -> 0 .. MaxSends]
    BY <1>1 DEF Begin
  <2> QED
    BY <1>1, <2>1, <2>2, <2>3 DEF Begin
<1>2. CASE Lock(w)
  BY <1>2 DEF Lock
<1>3. CASE Encode(w)
  <2> DEFINE f == [frame[w] EXCEPT !.nonce = sealed]
             ps == PiecesIn(mode, frame[w])
  <2>1. frame[w] \in Frames /\ sealed \in Nat
    BY <1>3 DEF Encode, Exclusive
  <2>2. f \in Frames
    BY <2>1 DEF Frames
  <2>3. frame' = [frame EXCEPT ![w] = f]
    BY <1>3 DEF Encode
  <2>4. ps \in Seq(PieceNames)
    BY PiecesFacts
  <2>5. Append(begun, f) \in Seq(Frames)
    <3> HIDE DEF f
    <3>1. begun \in Seq(Frames)
      OBVIOUS
    <3> QED
      BY <2>2, <3>1, AppendProperties
  <2>6. /\ begun' = begun \/ begun' = Append(begun, f)
        /\ rest' = rest \/ rest' = [rest EXCEPT ![w] = ps]
        /\ pc' = [pc EXCEPT ![w] = "unlock"] \/ pc' = [pc EXCEPT ![w] = "write"]
        /\ sealed' \in Nat
    <3>1. CASE mode = "noise" /\ frame[w].size = "huge"
      BY <1>3, <2>1, <3>1 DEF Encode
    <3>2. CASE ~(mode = "noise" /\ frame[w].size = "huge")
      <4>1. /\ begun' = Append(begun, f) /\ pc' = [pc EXCEPT ![w] = "write"]
            /\ rest' = [rest EXCEPT ![w] = ps]
        BY <1>3, <3>2 DEF Encode, Pieces
      <4>2. sealed' \in Nat
        BY <1>3, <2>1 DEF Encode
      <4> HIDE DEF f, ps
      <4> QED
        BY <4>1, <4>2
    <3> QED
      BY <3>1, <3>2
  <2>7. UNCHANGED <<mode, open, wire, writeMu, count, opened, part, got, refused>>
    BY <1>3 DEF Encode
  <2> HIDE DEF f, ps
  <2>8. frame' \in [Writers -> Frames \cup {NoFrame}]
    BY <2>2, <2>3
  <2>9. rest' \in [Writers -> Seq(PieceNames)]
    BY <2>4, <2>6
  <2>10. pc' \in [Writers -> {"idle", "lock", "encode", "write", "unlock"}]
    BY <2>6
  <2>11. begun' \in Seq(Frames)
    BY <2>5, <2>6
  <2> QED
    BY <2>6, <2>7, <2>8, <2>9, <2>10, <2>11
<1>4. CASE WritePiece(w)
  <2> DEFINE q == [frame |-> frame[w], piece |-> Head(rest[w])]
  <2>1. /\ rest[w] \in Seq(PieceNames) /\ rest[w] # <<>>
        /\ frame[w] \in Frames
    BY <1>4 DEF WritePiece, Exclusive
  <2>2. Head(rest[w]) \in PieceNames /\ Tail(rest[w]) \in Seq(PieceNames)
    BY <2>1, HeadTailProperties
  <2>3. q \in PiecesOfFrames
    BY <2>1, <2>2 DEF PiecesOfFrames
  <2>4. /\ wire' = Append(wire, q) /\ Len(wire) < Buffer
        /\ rest' = [rest EXCEPT ![w] = Tail(@)]
        /\ UNCHANGED <<mode, open, writeMu, pc, frame, count, sealed, begun,
                       opened, part, got, refused>>
    BY <1>4 DEF WritePiece
  <2> HIDE DEF q
  <2>5. wire' \in Seq(PiecesOfFrames) /\ Len(wire') <= Buffer
    BY <2>3, <2>4, AppendProperties, LenProperties
  <2>6. rest' \in [Writers -> Seq(PieceNames)]
    BY <2>2, <2>4
  <2> QED
    BY <2>4, <2>5, <2>6
<1>5. CASE Written(w)
  BY <1>5 DEF Written
<1>6. CASE Unlock(w)
  <2>1. <<>> \in Seq(PieceNames)
    BY EmptySeq
  <2> QED
    BY <1>6, <2>1 DEF Unlock
<1> QED
  BY <1>1, <1>2, <1>3, <1>4, <1>5, <1>6 DEF WriterStep

\* Only the writer with the lock is past it.
LEMMA ExclusiveStep ==
  ASSUME Typed, Exclusive, NEW w \in Writers, Begin(w) \/ WriterStep(w)
  PROVE  Exclusive'
<1> USE FramingAssumption DEF Exclusive
<1>0. /\ pc \in [Writers -> {"idle", "lock", "encode", "write", "unlock"}]
      /\ frame \in [Writers -> Frames \cup {NoFrame}]
      /\ count \in [Writers -> 0 .. MaxSends]
      /\ sealed \in Nat
  BY DEF Typed, TypeOK
<1>1. CASE Begin(w)
  <2>1. PICK s \in Sizes : frame' = [frame EXCEPT ![w] = Frame(w, count[w] + 1, s, 0)]
    BY <1>1 DEF Begin
  <2>2. /\ Frame(w, count[w] + 1, s, 0) \in Frames
        /\ Frame(w, count[w] + 1, s, 0).of = w
        /\ Frame(w, count[w] + 1, s, 0).nr = count[w] + 1
    BY <1>0 DEF Frame, Frames
  <2> QED
    BY <1>0, <1>1, <2>1, <2>2 DEF Begin
<1>2. CASE Lock(w)
  BY <1>0, <1>2 DEF Lock
<1>3. CASE Encode(w)
  <2> DEFINE f == [frame[w] EXCEPT !.nonce = sealed]
  <2>1. f \in Frames /\ f.of = w /\ f.nr = count[w]
    BY <1>0, <1>3 DEF Encode, Frames
  <2>2. /\ frame' = [frame EXCEPT ![w] = f]
        /\ UNCHANGED <<writeMu, count>>
        /\ pc' = [pc EXCEPT ![w] = "unlock"] \/ pc' = [pc EXCEPT ![w] = "write"]
        /\ pc[w] = "encode"
    BY <1>3 DEF Encode
  <2> HIDE DEF f
  <2> QED
    BY <1>0, <2>1, <2>2
<1>4. CASE WritePiece(w)
  BY <1>4 DEF WritePiece
<1>5. CASE Written(w)
  BY <1>0, <1>5 DEF Written
<1>6. CASE Unlock(w)
  BY <1>0, <1>6 DEF Unlock
<1> QED
  BY <1>1, <1>2, <1>3, <1>4, <1>5, <1>6 DEF WriterStep

\* No writer begins a frame twice.
LEMMA NumberedStep ==
  ASSUME Typed, Exclusive, Numbered, NEW w \in Writers, Begin(w) \/ WriterStep(w)
  PROVE  Numbered'
<1>0. /\ pc \in [Writers -> {"idle", "lock", "encode", "write", "unlock"}]
      /\ frame \in [Writers -> Frames \cup {NoFrame}]
      /\ count \in [Writers -> 0 .. MaxSends]
      /\ sealed \in Nat /\ begun \in Seq(Frames) /\ Len(begun) \in Nat
      /\ MaxSends \in Nat
      /\ \A i \in 1 .. Len(begun) : begun[i].of \in Writers /\ begun[i].nr \in Nat
  <2>1. begun \in Seq(Frames)
    BY DEF Typed
  <2>2. \A i \in 1 .. Len(begun) : begun[i] \in Frames
    BY <2>1, ElementOfSeq
  <2> QED
    BY <2>1, <2>2, LenProperties, FramingAssumption DEF Typed, TypeOK, Frames
<1>1. CASE Begin(w)
  <2>1. /\ begun' = begun /\ count' = [count EXCEPT ![w] = @ + 1]
        /\ pc' = [pc EXCEPT ![w] = "lock"]
    BY <1>1 DEF Begin
  <2>2. \A v \in Writers : count[v] <= count'[v] /\ (v # w => count'[v] = count[v])
    BY <1>0, <2>1
  <2>3. count'[w] = count[w] + 1 /\ \A v \in Writers : count[v] \in Nat
    BY <1>0, <2>1
  <2>4. ASSUME NEW i \in 1 .. Len(begun)
        PROVE  LET v == begun[i].of IN
               /\ begun[i].nr <= count'[v]
               /\ pc'[v] \in {"lock", "encode"} => begun[i].nr < count'[v]
    <3>1. CASE begun[i].of = w
      BY <1>0, <2>3, <3>1 DEF Numbered
    <3>2. CASE begun[i].of # w
      BY <1>0, <2>1, <2>2, <3>2 DEF Numbered
    <3> QED
      BY <3>1, <3>2
  <2> QED
    BY <2>1, <2>4 DEF Numbered
<1>2. CASE Lock(w)
  BY <1>0, <1>2 DEF Lock, Numbered
<1>3. CASE Encode(w)
  <2> DEFINE f == [frame[w] EXCEPT !.nonce = sealed]
  <2>1. f \in Frames /\ f.of = w /\ f.nr = count[w]
    <3>1. /\ frame[w] \in Frames /\ frame[w].of = w /\ frame[w].nr = count[w]
          /\ sealed \in Nat
      BY <1>0, <1>3 DEF Encode, Exclusive
    <3> QED
      BY <3>1 DEF Frames
  <2>2. /\ count' = count /\ pc[w] = "encode"
        /\ pc' = [pc EXCEPT ![w] = "unlock"] \/ pc' = [pc EXCEPT ![w] = "write"]
        /\ begun' = begun \/ begun' = Append(begun, f)
    BY <1>3 DEF Encode
  <2> HIDE DEF f
  <2>3. \A v \in Writers : pc'[v] \in {"lock", "encode"} => pc[v] \in {"lock", "encode"}
    BY <1>0, <2>2
  <2>4. CASE begun' = begun
    BY <1>0, <2>2, <2>3, <2>4 DEF Numbered
  <2>5. CASE begun' = Append(begun, f)
    <3>1. /\ Len(begun') = Len(begun) + 1
          /\ \A i \in 1 .. Len(begun) : begun'[i] = begun[i]
          /\ begun'[Len(begun) + 1] = f
      BY <1>0, <2>1, <2>5, AppendProperties
    <3>2. \A i \in 1 .. Len(begun) : begun[i].of = w => begun[i].nr < count[w]
      BY <2>2 DEF Numbered
    <3>3. pc'[w] \notin {"lock", "encode"} /\ count[w] \in Nat
      BY <1>0, <2>2
    <3>4. ASSUME NEW i \in 1 .. Len(begun')
          PROVE  LET v == begun'[i].of IN
                 /\ begun'[i].nr <= count'[v]
                 /\ pc'[v] \in {"lock", "encode"} => begun'[i].nr < count'[v]
      <4>1. CASE i = Len(begun) + 1
        BY <2>1, <2>2, <3>1, <3>3, <4>1
      <4>2. CASE i \in 1 .. Len(begun)
        BY <1>0, <2>2, <2>3, <3>1, <4>2 DEF Numbered
      <4> QED
        BY <1>0, <3>1, <4>1, <4>2
    <3>5. ASSUME NEW i \in 1 .. Len(begun'), NEW j \in 1 .. Len(begun'),
                 begun'[i].of = begun'[j].of, begun'[i].nr = begun'[j].nr
          PROVE  i = j
      <4>1. CASE i \in 1 .. Len(begun) /\ j \in 1 .. Len(begun)
        BY <3>1, <3>5, <4>1 DEF Numbered
      <4>2. CASE i \in 1 .. Len(begun) /\ j = Len(begun) + 1
        BY <1>0, <2>1, <3>1, <3>2, <3>3, <3>5, <4>2
      <4>3. CASE i = Len(begun) + 1 /\ j \in 1 .. Len(begun)
        BY <1>0, <2>1, <3>1, <3>2, <3>3, <3>5, <4>3
      <4> QED
        BY <1>0, <3>1, <4>1, <4>2, <4>3
    <3> QED
      BY <3>4, <3>5 DEF Numbered
  <2> QED
    BY <2>2, <2>4, <2>5
<1>4. CASE WritePiece(w)
  BY <1>4 DEF WritePiece, Numbered
<1>5. CASE Written(w)
  BY <1>0, <1>5 DEF Written, Numbered
<1>6. CASE Unlock(w)
  BY <1>0, <1>6 DEF Unlock, Numbered
<1> QED
  BY <1>1, <1>2, <1>3, <1>4, <1>5, <1>6 DEF WriterStep

\* So no frame is in the stream twice.
LEMMA BegunDistinct == Typed /\ Numbered => Distinct(begun)
BY DEF Numbered, Distinct

\* Every other writer is before the lock.
LEMMA OthersWait ==
  ASSUME Exclusive, NEW w \in Writers, pc[w] \in {"encode", "write", "unlock"}
  PROVE  writeMu = w /\ \A v \in Writers \ {w} : pc[v] # "write"
BY DEF Exclusive

\* The writer with the lock writes the frame that was begun last.
LEMMA WritingStep ==
  ASSUME Typed, Exclusive, \A v \in Writers : Writing(v),
         NEW w \in Writers, Begin(w) \/ WriterStep(w)
  PROVE  \A v \in Writers : Writing(v)'
<1>0. /\ pc \in [Writers -> {"idle", "lock", "encode", "write", "unlock"}]
      /\ frame \in [Writers -> Frames \cup {NoFrame}]
      /\ rest \in [Writers -> Seq(PieceNames)]
      /\ begun \in Seq(Frames) /\ sealed \in Nat
  BY DEF Typed, TypeOK
<1> SUFFICES ASSUME NEW v \in Writers, pc'[v] = "write" PROVE Writing(v)'
  BY DEF Writing
<1>1. CASE Begin(w)
  BY <1>0, <1>1 DEF Begin, Writing, Pieces
<1>2. CASE Lock(w)
  BY <1>0, <1>2 DEF Lock, Writing, Pieces
<1>3. CASE Encode(w)
  <2> DEFINE f == [frame[w] EXCEPT !.nonce = sealed]
             ps == PiecesIn(mode, frame[w])
  <2>1. v = w
    <3>1. pc[w] = "encode" /\ (v # w => pc'[v] = pc[v])
      BY <1>0, <1>3 DEF Encode
    <3> QED
      BY <3>1, OthersWait
  <2>2. /\ begun' = Append(begun, f) /\ rest'[w] = ps /\ frame'[w] = f
        /\ mode' = mode
    BY <1>0, <1>3, <2>1 DEF Encode, Pieces
  <2>3. f \in Frames /\ f.size = frame[w].size
    <3>1. frame[w] \in Frames /\ sealed \in Nat
      BY <1>0, <1>3 DEF Encode, Exclusive
    <3> QED
      BY <3>1 DEF Frames
  <2>4. PiecesIn(mode, f) = ps
    BY <2>3, SamePieces
  <2>5. ps \in Seq(PieceNames) /\ Len(ps) \in Nat
    BY PiecesFacts
  <2> HIDE DEF f, ps
  <2>6. begun' # <<>> /\ begun'[Len(begun')] = f
    <3>1. /\ Append(begun, f) # <<>> /\ Len(Append(begun, f)) = Len(begun) + 1
          /\ Append(begun, f)[Len(begun) + 1] = f
      BY <1>0, <2>3, AppendProperties
    <3> QED
      BY <2>2, <3>1
  <2> QED
    BY <2>1, <2>2, <2>4, <2>5, <2>6 DEF Writing, Pieces
<1>4. CASE WritePiece(w)
  <2> DEFINE s == rest[w]
             ps == PiecesIn(mode, frame[w])
  <2>1. /\ pc[w] = "write" /\ pc' = pc /\ frame' = frame /\ mode' = mode
        /\ begun' = begun /\ s # <<>> /\ rest' = [rest EXCEPT ![w] = Tail(s)]
    BY <1>4 DEF WritePiece
  <2>2. v = w
    BY <2>1, OthersWait
  <2>3. /\ Len(s) \in Nat \ {0} /\ Len(Tail(s)) = Len(s) - 1
        /\ \A i \in 1 .. Len(Tail(s)) : Tail(s)[i] = s[i + 1]
    BY <1>0, <2>1, HeadTailProperties, EmptySeq, LenProperties
  <2>4. /\ begun # <<>> /\ frame[w] = begun[Len(begun)]
        /\ Len(s) <= Len(ps)
        /\ \A i \in 1 .. Len(s) : s[i] = ps[Len(ps) - Len(s) + i]
    BY <2>1 DEF Writing, Pieces
  <2>5. rest'[w] = Tail(s) /\ Len(ps) \in Nat
    BY <1>0, <2>1, PiecesFacts
  <2> HIDE DEF s, ps
  <2>6. \A i \in 1 .. Len(Tail(s)) : Tail(s)[i] = ps[Len(ps) - Len(Tail(s)) + i]
    <3> SUFFICES ASSUME NEW i \in 1 .. Len(Tail(s))
                 PROVE  Tail(s)[i] = ps[Len(ps) - Len(Tail(s)) + i]
      OBVIOUS
    <3>1. i + 1 \in 1 .. Len(s) /\ Tail(s)[i] = s[i + 1]
      BY <2>3
    <3>2. Len(ps) - Len(Tail(s)) + i = Len(ps) - Len(s) + (i + 1)
      BY <2>3, <2>5
    <3> QED
      BY <2>4, <3>1, <3>2
  <2>7. Len(Tail(s)) <= Len(ps)
    BY <2>3, <2>4, <2>5
  <2>8. Pieces(frame[v])' = ps /\ rest'[v] = Tail(s) /\ begun' = begun
        /\ frame'[v] = frame[w]
    BY <2>1, <2>2, <2>5 DEF Pieces, ps
  <2> QED
    BY <2>4, <2>6, <2>7, <2>8 DEF Writing
<1>5. CASE Written(w)
  BY <1>0, <1>5 DEF Written, Writing, Pieces
<1>6. CASE Unlock(w)
  BY <1>0, <1>6 DEF Unlock, Writing, Pieces
<1> QED
  BY <1>1, <1>2, <1>3, <1>4, <1>5, <1>6 DEF WriterStep

-----------------------------------------------------------------------------
(* The stream of the pieces.                                               *)

\* While no piece is to be written next, only the wire counts.
LEMMA SameStream ==
  ASSUME Streamed, ~Busy, Busy' = FALSE,
         UNCHANGED <<mode, wire, begun, got, part>>
  PROVE  Streamed'
BY DEF Streamed, Coming

\* A writer with the lock has it alone.
LEMMA BusyIs ==
  ASSUME Typed, Exclusive, NEW w \in Writers,
         pc[w] \in {"encode", "write", "unlock"}
  PROVE  Busy <=> pc[w] = "write" /\ rest[w] # <<>>
<1>1. writeMu = w /\ w # "free"
  BY FramingAssumption DEF Exclusive
<1> QED
  BY <1>1 DEF Busy

\* The lock is free: no piece is to be written next.
LEMMA FreeIsNotBusy == writeMu = "free" => ~Busy
BY DEF Busy

\* A writer begins a frame where the last one ended.
LEMMA EncodeStream ==
  ASSUME Typed, Exclusive, Received, Streamed, NEW w \in Writers, Encode(w),
         Exclusive', Typed'
  PROVE  Streamed'
<1> DEFINE f == [frame[w] EXCEPT !.nonce = sealed]
           ps == PiecesIn(mode, frame[w])
           q == [frame |-> f, piece |-> Head(ps)]
<1>0. /\ pc \in [Writers -> {"idle", "lock", "encode", "write", "unlock"}]
      /\ frame \in [Writers -> Frames \cup {NoFrame}]
      /\ rest \in [Writers -> Seq(PieceNames)]
      /\ sealed \in Nat
  BY DEF Typed, TypeOK
<1>1. ~Busy /\ pc[w] = "encode" /\ writeMu = w /\ writeMu' = w /\ w # "free"
  BY BusyIs, FramingAssumption DEF Encode, Exclusive
<1>2. CASE pc' = [pc EXCEPT ![w] = "unlock"]
  <2>1. pc'[w] = "unlock"
    BY <1>0, <1>2
  <2>2. Busy' = FALSE
    BY <1>1, <2>1 DEF Busy
  <2>3. UNCHANGED <<mode, wire, begun, got, part>>
    BY <1>0, <1>2, <2>1 DEF Encode, reading
  <2> QED
    BY <1>1, <2>2, <2>3, SameStream
<1>3. CASE pc' = [pc EXCEPT ![w] = "write"]
  <2>1. pc'[w] = "write"
    BY <1>0, <1>3
  <2>2. /\ begun' = Append(begun, f) /\ rest'[w] = ps /\ frame'[w] = f
        /\ UNCHANGED <<mode, wire, got, part>>
    BY <1>0, <2>1 DEF Encode, Pieces, reading
  <2>3. f \in Frames /\ f.size = frame[w].size
    <3>1. frame[w] \in Frames
      BY <1>1 DEF Exclusive
    <3> QED
      BY <1>0, <3>1 DEF Frames
  <2>4. ps = PiecesIn(mode, f)
    BY <2>3, SamePieces
  <2>5. ps \in Seq(PieceNames) /\ ps # <<>> /\ Len(ps) \in Nat
    <3>1. ps \in Seq(PieceNames) /\ Len(ps) \in 2 .. 4
      BY PiecesFacts
    <3> HIDE DEF ps
    <3> QED
      BY <3>1, EmptySeq
  <2> HIDE DEF f, ps
  <2>6. Head(ps) = ps[1] /\ Head(ps) \in PieceNames
    BY <2>5, HeadTailProperties
  <2>7. q \in PiecesOfFrames
    BY <2>3, <2>6 DEF PiecesOfFrames
  <2>8. /\ wire \in Seq(PiecesOfFrames) /\ part \in Seq(PiecesOfFrames)
        /\ begun \in Seq(Frames) /\ Len(got) \in 0 .. Len(begun)
    <3>1. got \in Seq(Frames) /\ begun \in Seq(Frames)
      BY DEF Typed
    <3> QED
      BY <3>1, LenProperties DEF Typed, Received
  <2>9. Chain(mode, begun, Len(got), part, wire) /\ Final(mode, begun, Len(got), part, wire)
    BY <1>1 DEF Streamed, Coming
  <2>10. q.frame = f /\ q.piece = PiecesIn(mode, f)[1]
    BY <2>4, <2>6
  <2>11. Chain(mode, Append(begun, f), Len(got), part, Append(wire, q))
    <3> HIDE DEF q
    <3> QED
      BY <2>3, <2>7, <2>8, <2>9, <2>10, NewFrame
  <2>12. Busy' = TRUE /\ Coming' = Append(wire, q)
    BY <1>1, <2>1, <2>2, <2>5 DEF Busy, Coming
  <2> QED
    BY <2>2, <2>11, <2>12 DEF Streamed
<1> QED
  BY <1>2, <1>3 DEF Encode

\* The next piece of a frame takes its place on the wire, and the one after it
\* comes next.
LEMMA WriteStream ==
  ASSUME Typed, Exclusive, Streamed, NEW w \in Writers, Writing(w), WritePiece(w)
  PROVE  Streamed'
<1> DEFINE s == rest[w]
           ps == PiecesIn(mode, frame[w])
           q == [frame |-> frame[w], piece |-> Head(s)]
           r == [frame |-> frame[w], piece |-> Head(Tail(s))]
           n == Len(got)
<1>0. /\ rest \in [Writers -> Seq(PieceNames)]
      /\ wire \in Seq(PiecesOfFrames) /\ frame[w] \in Frames
  BY DEF Typed, Exclusive, WritePiece
<1>1. /\ pc[w] = "write" /\ s # <<>> /\ wire' = Append(wire, q)
      /\ rest' = [rest EXCEPT ![w] = Tail(s)]
      /\ UNCHANGED <<mode, writeMu, pc, frame, begun, got, part>>
  BY DEF WritePiece, reading
<1>2. Busy /\ writeMu = w /\ w # "free"
  BY <1>1, BusyIs, FramingAssumption DEF Exclusive
<1>3. Chain(mode, begun, n, part, wire')
  BY <1>1, <1>2 DEF Streamed, Coming
<1>4. /\ begun # <<>> /\ frame[w] = begun[Len(begun)]
      /\ Len(s) <= Len(ps)
      /\ \A i \in 1 .. Len(s) : s[i] = ps[Len(ps) - Len(s) + i]
  BY <1>1 DEF Writing, Pieces
<1>5. Len(ps) \in 2 .. 4
  BY PiecesFacts
<1>6. /\ s \in Seq(PieceNames) /\ Len(s) \in Nat \ {0} /\ Head(s) = s[1]
      /\ Tail(s) \in Seq(PieceNames) /\ Len(Tail(s)) = Len(s) - 1
      /\ \A i \in 1 .. Len(Tail(s)) : Tail(s)[i] = s[i + 1]
      /\ Head(s) \in PieceNames
  BY <1>0, <1>1, HeadTailProperties, EmptySeq, LenProperties
<1>7. q \in PiecesOfFrames
  BY <1>0, <1>6 DEF PiecesOfFrames
<1>8. rest'[w] = Tail(s)
  BY <1>0, <1>1
<1> HIDE DEF s, ps
<1>9. /\ wire' # <<>> /\ wire'[Len(wire')] = q /\ wire' \in Seq(PiecesOfFrames)
  <2> HIDE DEF q
  <2> QED
    BY <1>0, <1>1, <1>7, AppendProperties
<1>10. CASE Tail(s) = <<>>
  <2>1. Len(s) = 1
    <3>1. Len(Tail(s)) = 0
      BY <1>6, <1>10, EmptySeq
    <3>2. Len(s) \in Nat /\ Len(Tail(s)) = Len(s) - 1
      BY <1>6
    <3> HIDE DEF s
    <3> QED
      BY <3>1, <3>2
  <2>2. q.piece = ps[Len(ps)]
    BY <1>4, <1>5, <1>6, <2>1
  <2>3. Ends(mode, begun, q)
    BY <1>4, <2>2 DEF Ends, ps
  <2>4. Final(mode, begun, n, part, wire')
    BY <1>9, <2>3 DEF Final
  <2>5. Busy' = FALSE /\ Coming' = wire'
    BY <1>1, <1>2, <1>8, <1>10 DEF Busy, Coming
  <2> QED
    BY <1>1, <1>3, <2>4, <2>5 DEF Streamed
<1>11. CASE Tail(s) # <<>>
  <2>1. Len(s) \in Nat /\ Len(s) >= 2
    BY <1>6, <1>11, EmptySeq
  <2>2. Head(Tail(s)) = s[2] /\ Head(Tail(s)) \in PieceNames
    BY <1>6, <1>11, <2>1, HeadTailProperties
  <2>3. r \in PiecesOfFrames
    BY <1>0, <2>2 DEF PiecesOfFrames
  <2>4. Follows(mode, begun, q, r)
    <3> DEFINE i == Len(ps) - Len(s) + 1
    <3>1. i \in 1 .. Len(ps) - 1
      BY <1>4, <1>5, <2>1
    <3>2. ps[i] = q.piece
      BY <1>4, <1>6, <2>1
    <3>3. ps[i + 1] = r.piece
      <4>1. s[2] = ps[Len(ps) - Len(s) + 2] /\ i + 1 = Len(ps) - Len(s) + 2
        BY <1>4, <1>5, <2>1
      <4> QED
        BY <2>2, <4>1
    <3> HIDE DEF i
    <3> QED
      BY <3>1, <3>2, <3>3 DEF Follows, ps
  <2>5. Chain(mode, begun, n, part, Append(wire', r))
    <3> HIDE DEF q, r, n
    <3> QED
      BY <1>3, <1>9, <2>3, <2>4, Extend
  <2>6. Busy' = TRUE /\ Coming' = Append(wire', r)
    <3>1. frame'[writeMu'] = frame[w] /\ Head(rest'[writeMu']) = Head(Tail(s))
      BY <1>1, <1>2, <1>8
    <3> QED
      BY <1>1, <1>2, <1>8, <1>11, <3>1 DEF Busy, Coming
  <2> QED
    BY <1>1, <2>5, <2>6 DEF Streamed
<1> QED
  BY <1>10, <1>11

\* The steps of a writer keep the stream in order.
LEMMA WriterStream ==
  ASSUME Typed, Exclusive, Received, Exclusive', Typed', NEW w \in Writers,
         Writing(w), Begin(w) \/ WriterStep(w), open, Streamed
  PROVE  Streamed'
<1>0. /\ pc \in [Writers -> {"idle", "lock", "encode", "write", "unlock"}]
      /\ frame \in [Writers -> Frames \cup {NoFrame}]
      /\ rest \in [Writers -> Seq(PieceNames)]
      /\ "free" \notin Writers
  BY FramingAssumption DEF Typed, TypeOK
<1>1. CASE Begin(w)
  <2>1. writeMu # w
    BY <1>1 DEF Begin, Exclusive
  <2>2. \A v \in Writers : v # w =>
          frame'[v] = frame[v] /\ pc'[v] = pc[v] /\ rest'[v] = rest[v]
    BY <1>0, <1>1 DEF Begin
  <2>3. UNCHANGED <<mode, writeMu, wire, begun, got, part>> /\ pc'[w] # "write"
    BY <1>0, <1>1 DEF Begin, reading
  <2>4. writeMu \in Writers \cup {"free"}
    BY DEF Typed, TypeOK
  <2>5. Busy' = Busy /\ (Busy => Coming' = Coming)
    BY <2>1, <2>2, <2>3, <2>4 DEF Busy, Coming
  <2> QED
    BY <2>3, <2>5 DEF Streamed, Coming
<1>2. CASE Lock(w)
  <2>1. UNCHANGED <<mode, wire, begun, got, part>>
    BY <1>2 DEF Lock, reading
  <2>2. ~Busy
    BY <1>2 DEF Lock, Busy
  <2>3. Busy' = FALSE
    BY <1>0, <1>2 DEF Lock, Busy
  <2> QED
    BY <2>1, <2>2, <2>3, SameStream
<1>3. CASE Encode(w)
  BY <1>3, EncodeStream
<1>4. CASE WritePiece(w)
  BY <1>4, WriteStream
<1>5. CASE Written(w)
  <2>1. UNCHANGED <<mode, wire, begun, got, part>>
    BY <1>5 DEF Written, reading
  <2>2. pc[w] = "write" /\ rest[w] = <<>> /\ writeMu' = writeMu /\ pc'[w] = "unlock"
    BY <1>0, <1>5 DEF Written
  <2>3. ~Busy
    BY <2>2, BusyIs
  <2>4. Busy' = FALSE
    BY <2>2 DEF Busy, Exclusive
  <2> QED
    BY <2>1, <2>3, <2>4, SameStream
<1>6. CASE Unlock(w)
  <2>1. UNCHANGED <<mode, wire, begun, got, part>>
    BY <1>6 DEF Unlock, reading
  <2>2. ~Busy
    BY <1>6, BusyIs DEF Unlock
  <2>3. Busy' = FALSE
    BY <1>6 DEF Unlock, Busy
  <2> QED
    BY <2>1, <2>2, <2>3, SameStream
<1> QED
  BY <1>1, <1>2, <1>3, <1>4, <1>5, <1>6 DEF WriterStep

\* What the other end reads, and how the stream goes on.
LEMMA Reading ==
  ASSUME Typed, Exclusive, Received, Streamed, wire # <<>>, ~Complete
  PROVE  /\ Len(got) < Len(begun) /\ Pick \in PiecesOfFrames
         /\ Pick.frame = begun[Len(got) + 1]
         /\ Pick.piece = Expected[Len(part) + 1] /\ Len(part) < 4
         /\ UNCHANGED <<mode, writers, got>> /\ wire' = Tail(wire)
              /\ part' = Append(part, Pick) => Streamed'
<1> DEFINE d == [frame |-> frame[writeMu], piece |-> Head(rest[writeMu])]
           n == Len(got)
<1>1. /\ part \in Seq(PiecesOfFrames) /\ wire \in Seq(PiecesOfFrames)
      /\ begun \in Seq(Frames) /\ n \in 0 .. Len(begun)
  <2>1. got \in Seq(Frames) /\ begun \in Seq(Frames)
    BY DEF Typed
  <2> QED
    BY <2>1, LenProperties DEF Typed, Received
<1>2. Chain(mode, begun, n, part, Coming)
  BY DEF Streamed
<1>3. Unfinished(mode, begun, n, part) /\ (part # <<>> => part[1].frame = begun[n + 1])
  <2>1. CASE part # <<>>
    <3>1. Len(part) \in Nat \ {0}
      BY <1>1, <2>1, EmptySeq, LenProperties
    <3>2. Started(mode, begun, n, part)
      BY <1>2 DEF Chain
    <3>3. part[1].frame = begun[n + 1] /\ Len(part) <= Len(PiecesIn(mode, begun[n + 1]))
      BY <2>1, <3>1, <3>2 DEF Started
    <3>4. Len(part) # Len(PiecesIn(mode, begun[n + 1]))
      BY <2>1, <3>3 DEF Complete, Pieces
    <3>5. Len(PiecesIn(mode, begun[n + 1])) \in Nat
      BY PiecesFacts
    <3> QED
      BY <3>1, <3>3, <3>4, <3>5 DEF Unfinished
  <2> QED
    BY <2>1 DEF Unfinished
<1>4. Busy => d \in PiecesOfFrames
  <2> SUFFICES ASSUME Busy PROVE d \in PiecesOfFrames
    OBVIOUS
  <2>1. writeMu \in Writers /\ rest[writeMu] # <<>> /\ pc[writeMu] = "write"
    BY DEF Busy, Typed, TypeOK
  <2>2. rest[writeMu] \in Seq(PieceNames)
    BY <2>1 DEF Typed
  <2>3. Head(rest[writeMu]) \in PieceNames
    BY <2>1, <2>2, HeadTailProperties
  <2>4. frame[writeMu] \in Frames
    BY <2>1 DEF Exclusive
  <2> QED
    BY <2>3, <2>4 DEF PiecesOfFrames
<1>5. Pick \in PiecesOfFrames /\ Pick = wire[1]
  BY <1>1, HeadTailProperties DEF Pick
<1> HIDE DEF d
<1>6. /\ Coming \in Seq(PiecesOfFrames) /\ Coming # <<>> /\ Head(Coming) = Pick
      /\ Tail(Coming) = IF Busy THEN Append(Tail(wire), d) ELSE Tail(wire)
  <2>1. CASE Busy
    <3>1. Coming = Append(wire, d)
      BY <2>1 DEF Coming, d
    <3>2. Len(wire) > 0
      BY <1>1, EmptySeq, LenProperties
    <3>3. Append(wire, d) \in Seq(PiecesOfFrames) /\ Append(wire, d) # <<>>
      BY <1>1, <1>4, <2>1, AppendProperties
    <3>4. Head(Append(wire, d)) = Head(wire) /\ Tail(Append(wire, d)) = Append(Tail(wire), d)
      BY <1>1, <1>4, <2>1, <3>2, HeadTailAppend
    <3> QED
      BY <2>1, <3>1, <3>3, <3>4 DEF Pick
  <2>2. CASE ~Busy
    BY <1>1, <2>2 DEF Coming, Pick
  <2> QED
    BY <2>1, <2>2
<1>7. Coming[1] = Pick
  BY <1>6, HeadTailProperties
<1>8. /\ n < Len(begun) /\ Pick.frame = begun[n + 1]
      /\ Pick.piece = PiecesIn(mode, begun[n + 1])[Len(part) + 1]
      /\ Len(part) < Len(PiecesIn(mode, begun[n + 1]))
  <2> HIDE DEF n
  <2> QED
    BY <1>1, <1>2, <1>3, <1>6, <1>7, Expecting
<1>9. Expected = PiecesIn(mode, begun[n + 1])
  BY <1>3, <1>8 DEF Expected, Pieces
<1>10. Len(part) < 4
  <2>1. Len(PiecesIn(mode, begun[n + 1])) \in 2 .. 4 /\ Len(part) \in Nat
    BY <1>1, PiecesFacts, LenProperties
  <2> QED
    BY <1>8, <2>1
<1>11. ASSUME UNCHANGED <<mode, writers, got>>, wire' = Tail(wire),
              part' = Append(part, Pick)
       PROVE  Streamed'
  <2>1. Busy' = Busy /\ Coming' = Tail(Coming)
    BY <1>6, <1>11 DEF Busy, Coming, writers, d
  <2>2. /\ Chain(mode, begun, n, Append(part, Pick), Tail(Coming))
        /\ Final(mode, begun, n, part, Coming) =>
             Final(mode, begun, n, Append(part, Pick), Tail(Coming))
    <3> HIDE DEF n
    <3> QED
      BY <1>1, <1>2, <1>3, <1>6, Consume
  <2>3. mode' = mode /\ begun' = begun /\ Len(got)' = n
    BY <1>11 DEF writers
  <2>4. Chain(mode, begun, Len(got), part, Coming)'
    BY <1>11, <2>1, <2>2, <2>3
  <2>5. ~Busy => Coming = wire
    BY DEF Coming
  <2>6. ~Busy => Final(mode, begun, n, part, Coming)
    BY <2>5 DEF Streamed
  <2>7. ~Busy => Final(mode, begun, Len(got), part, wire)'
    BY <1>6, <1>11, <2>2, <2>3, <2>6
  <2> QED
    BY <2>1, <2>4, <2>7 DEF Streamed
<1> QED
  BY <1>5, <1>8, <1>9, <1>10, <1>11

-----------------------------------------------------------------------------
(* The nonces and what is received.                                        *)

\* Every frame that is begun takes a nonce, and a refused message takes one
\* too.
LEMMA SealedStep ==
  ASSUME Typed, Exclusive, Sealed, NEW w \in Writers, Begin(w) \/ WriterStep(w)
  PROVE  /\ Sealed'
         /\ TooLarge => TooLarge'
         /\ Len(begun) <= Len(begun') /\ \A i \in 1 .. Len(begun) : begun'[i] = begun[i]
<1>0. /\ begun \in Seq(Frames) /\ Len(begun) \in Nat /\ sealed \in Nat
      /\ frame \in [Writers -> Frames \cup {NoFrame}]
      /\ DOMAIN begun = 1 .. Len(begun)
  BY LenProperties DEF Typed, TypeOK
<1>1. CASE Encode(w)
  <2> DEFINE f == [frame[w] EXCEPT !.nonce = sealed]
  <2>1. UNCHANGED <<mode, opened, got>>
    BY <1>1 DEF Encode, reading
  <2>2. CASE mode = "noise" /\ frame[w].size = "huge"
    <3>1. begun' = begun /\ sealed' = sealed + 1
      BY <1>1, <2>2 DEF Encode
    <3>2. TooLarge => TooLarge'
      BY <1>0, <2>1, <3>1 DEF TooLarge
    <3>3. Sealed'
      <4> SUFFICES ASSUME NEW i \in 1 .. Len(begun)
                   PROVE  Sealed => begun[i].nonce - (i - 1) <= sealed + 1 - Len(begun)
        BY <1>0, <2>1, <2>2, <3>1 DEF Sealed
      <4>1. begun[i].nonce \in Nat
        <5>1. begun[i] \in Frames
          BY <1>0, ElementOfSeq
        <5> QED
          BY <5>1 DEF Frames
      <4> QED
        BY <1>0, <2>2, <4>1 DEF Sealed
    <3> QED
      BY <1>0, <3>1, <3>2, <3>3
  <2>3. CASE ~(mode = "noise" /\ frame[w].size = "huge")
    <3>1. begun' = Append(begun, f) /\ sealed' = IF mode = "noise" THEN sealed + 1 ELSE sealed
      BY <1>1, <2>3 DEF Encode
    <3>2. f \in Frames /\ f.size = frame[w].size /\ f.nonce = sealed
      <4>1. frame[w] \in Frames
        BY <1>1 DEF Encode, Exclusive
      <4> QED
        BY <1>0, <4>1 DEF Frames
    <3> HIDE DEF f
    <3>3. /\ Len(begun') = Len(begun) + 1 /\ DOMAIN begun' = 1 .. Len(begun')
          /\ \A i \in 1 .. Len(begun) : begun'[i] = begun[i]
          /\ begun'[Len(begun) + 1] = f
      BY <1>0, <3>1, <3>2, AppendProperties, LenProperties
    <3>4. Sealed'
      <4> SUFFICES ASSUME mode' = "noise" PROVE Sealed'
        BY DEF Sealed
      <4>1. mode = "noise" /\ sealed' = sealed + 1 /\ f.size # "huge"
        BY <2>1, <2>3, <3>1, <3>2
      <4>2. opened' = Len(got)' /\ sealed' >= Len(begun')
        BY <1>0, <2>1, <3>3, <4>1 DEF Sealed
      <4>3. ASSUME NEW i \in 1 .. Len(begun')
            PROVE  /\ begun'[i].size # "huge"
                   /\ begun'[i].nonce >= i - 1
                   /\ begun'[i].nonce - (i - 1) <= sealed' - Len(begun')
        <5>1. CASE i = Len(begun) + 1
          <6>1. begun'[i] = f /\ i - 1 = Len(begun) /\ sealed >= Len(begun)
            BY <1>0, <3>3, <4>1, <5>1 DEF Sealed
          <6> QED
            BY <1>0, <3>2, <3>3, <4>1, <6>1
        <5>2. CASE i \in 1 .. Len(begun)
          <6>1. sealed' - Len(begun') = sealed - Len(begun)
            BY <1>0, <3>3, <4>1
          <6> QED
            BY <3>3, <4>1, <5>2, <6>1 DEF Sealed
        <5> QED
          BY <1>0, <3>3, <5>1, <5>2
      <4> QED
        BY <4>2, <4>3 DEF Sealed
    <3>5. TooLarge => TooLarge'
      <4>1. mode = "noise" /\ sealed > Len(begun) => sealed' > Len(begun')
        BY <1>0, <3>1, <3>3
      <4> QED
        BY <1>0, <2>1, <3>3, <4>1 DEF TooLarge
    <3> QED
      BY <1>0, <3>3, <3>4, <3>5
  <2> QED
    BY <2>2, <2>3
<1>2. CASE UNCHANGED <<mode, sealed, begun, opened, got>>
  BY <1>0, <1>2 DEF Sealed, TooLarge
<1>3. Encode(w) \/ UNCHANGED <<mode, sealed, begun, opened, got>>
  BY DEF WriterStep, Begin, Lock, WritePiece, Written, Unlock, reading
<1> QED
  BY <1>1, <1>2, <1>3

\* The steps of the writers, all parts together.
LEMMA WriterKeeps ==
  ASSUME IInv, NEW w \in Writers, Begin(w) \/ WriterStep(w)
  PROVE  IInv'
<1>0. /\ Typed /\ Exclusive /\ Numbered /\ Sealed /\ Received /\ RefusedIsTooLarge
      /\ \A v \in Writers : Writing(v)
      /\ open /\ ~refused => Streamed
  BY DEF IInv
<1>1. Typed' /\ Exclusive'
  BY <1>0, WriterType, ExclusiveStep
<1>2. Numbered' /\ \A v \in Writers : Writing(v)'
  BY <1>0, NumberedStep, WritingStep
<1>3. UNCHANGED <<open, opened, part, got, refused>>
  BY DEF WriterStep, Begin, Lock, Encode, WritePiece, Written, Unlock, reading
<1>4. /\ Sealed' /\ (TooLarge => TooLarge') /\ Len(begun) <= Len(begun')
      /\ \A i \in 1 .. Len(begun) : begun'[i] = begun[i]
  BY <1>0, SealedStep
<1>5. open' /\ ~refused' => Streamed'
  BY <1>0, <1>1, <1>3, WriterStream
<1>6. Received'
  <2>1. Len(got) \in Nat /\ Len(begun) \in Nat /\ Len(begun') \in Nat
    <3>1. got \in Seq(Frames) /\ begun \in Seq(Frames) /\ begun' \in Seq(Frames)
      BY <1>0, <1>1 DEF Typed
    <3> QED
      BY <3>1, LenProperties
  <2> QED
    BY <1>0, <1>3, <1>4, <2>1 DEF Received
<1>7. RefusedIsTooLarge'
  BY <1>0, <1>3, <1>4 DEF RefusedIsTooLarge
<1> QED
  BY <1>1, <1>2, <1>4, <1>5, <1>6, <1>7 DEF IInv

\* A step of the other end leaves what belongs to the writers alone.
LEMMA ReaderLeaves ==
  ASSUME Exclusive, Numbered, \A v \in Writers : Writing(v),
         UNCHANGED <<mode, writers>>
  PROVE  /\ Exclusive' /\ Numbered' /\ \A v \in Writers : Writing(v)'
         /\ TooLarge' = TooLarge
BY DEF Exclusive, Numbered, Writing, Pieces, writers, TooLarge

\* Reading a piece: the other end refuses a size that is too large, and no
\* other piece.
LEMMA ReadPieceKeeps ==
  ASSUME IInv, ~Complete, ReadPiece
  PROVE  IInv'
<1>0. /\ Typed /\ Exclusive /\ Numbered /\ Sealed /\ Received
      /\ \A v \in Writers : Writing(v)
      /\ open /\ ~refused /\ Streamed /\ wire # <<>>
  BY DEF IInv, ReadPiece
<1>1. /\ UNCHANGED <<mode, open, writers, opened, got>> /\ wire' = Tail(wire)
      /\ \/ refused' = TRUE /\ part' = part
            /\ \/ Pick.piece # Expected[Len(part) + 1]
               \/ Pick.piece = "size" /\ Pick.frame.size = "huge"
         \/ part' = Append(part, Pick) /\ refused' = refused
  BY DEF ReadPiece
<1>2. /\ Len(got) < Len(begun) /\ Pick \in PiecesOfFrames
      /\ Pick.frame = begun[Len(got) + 1]
      /\ Pick.piece = Expected[Len(part) + 1] /\ Len(part) < 4
      /\ part' = Append(part, Pick) => Streamed'
  BY <1>0, <1>1, Reading
<1>3. /\ part \in Seq(PiecesOfFrames) /\ wire \in Seq(PiecesOfFrames)
      /\ begun \in Seq(Frames) /\ got \in Seq(Frames)
      /\ Len(part) \in Nat /\ Len(wire) \in Nat /\ Len(got) \in Nat /\ Len(begun) \in Nat
      /\ DOMAIN begun = 1 .. Len(begun)
  BY <1>0, LenProperties DEF Typed
<1>4. Typed'
  <2>1. wire' \in Seq(PiecesOfFrames) /\ Len(wire') <= Buffer
    <3>1. Tail(wire) \in Seq(PiecesOfFrames) /\ Len(Tail(wire)) = Len(wire) - 1
      BY <1>0, <1>3, HeadTailProperties
    <3>2. Len(wire) <= Buffer /\ Buffer \in Nat
      BY <1>0, FramingAssumption DEF Typed, TypeOK
    <3>3. Len(Tail(wire)) <= Buffer
      BY <1>3, <3>1, <3>2
    <3> QED
      BY <1>1, <3>1, <3>3
  <2>2. part' \in Seq(PiecesOfFrames) /\ Len(part') <= 4
    <3>1. Append(part, Pick) \in Seq(PiecesOfFrames) /\ Len(Append(part, Pick)) = Len(part) + 1
      BY <1>2, <1>3, AppendProperties
    <3>2. Len(Append(part, Pick)) <= 4
      BY <1>2, <1>3, <3>1
    <3>3. Len(part) <= 4
      BY <1>2, <1>3
    <3> QED
      BY <1>1, <1>3, <3>1, <3>2, <3>3
  <2>3. UNCHANGED <<mode, open, writeMu, pc, frame, rest, count, sealed, begun,
                    opened, got>> /\ refused' \in BOOLEAN
    BY <1>0, <1>1 DEF writers, Typed, TypeOK
  <2> QED
    BY <1>0, <2>1, <2>2, <2>3 DEF Typed, TypeOK
<1>5. Exclusive' /\ Numbered' /\ (\A v \in Writers : Writing(v)') /\ TooLarge' = TooLarge
  BY <1>0, <1>1, ReaderLeaves
<1>6. Sealed' /\ Received'
  BY <1>0, <1>1 DEF Sealed, Received, writers
<1>7. RefusedIsTooLarge'
  <2>1. refused' => Pick.frame.size = "huge"
    BY <1>0, <1>1, <1>2
  <2>2. refused' => TooLarge
    BY <1>2, <1>3, <2>1 DEF TooLarge
  <2> QED
    BY <1>5, <2>2 DEF RefusedIsTooLarge
<1>8. open' /\ ~refused' => Streamed'
  BY <1>1, <1>2
<1> QED
  BY <1>4, <1>5, <1>6, <1>7, <1>8 DEF IInv

\* Reading the last piece: the frame is whole, and has the nonce that is due
\* unless an earlier message was refused.
LEMMA ReadFrameKeeps ==
  ASSUME IInv, ReadFrame
  PROVE  IInv'
<1> DEFINE n == Len(got)
           f == part[1].frame
<1>0. /\ Typed /\ Exclusive /\ Numbered /\ Sealed /\ Received
      /\ \A v \in Writers : Writing(v)
      /\ open /\ ~refused /\ Streamed
      /\ part # <<>> /\ Len(part) = Len(PiecesIn(mode, f))
  BY DEF IInv, ReadFrame, Complete, Pieces
<1>1. UNCHANGED <<mode, open, wire, writers>> /\ part' = <<>>
  BY DEF ReadFrame
<1>2. /\ part \in Seq(PiecesOfFrames) /\ wire \in Seq(PiecesOfFrames)
      /\ begun \in Seq(Frames) /\ got \in Seq(Frames)
      /\ n \in Nat /\ Len(begun) \in Nat /\ n \in 0 .. Len(begun)
      /\ Len(part) \in Nat \ {0} /\ DOMAIN part = 1 .. Len(part)
      /\ DOMAIN begun = 1 .. Len(begun)
      /\ opened \in Nat /\ sealed \in Nat
  <2>1. /\ part \in Seq(PiecesOfFrames) /\ wire \in Seq(PiecesOfFrames)
        /\ begun \in Seq(Frames) /\ got \in Seq(Frames)
        /\ opened \in Nat /\ sealed \in Nat
    BY <1>0 DEF Typed, TypeOK
  <2> QED
    BY <1>0, <2>1, LenProperties, EmptySeq DEF Received
<1>3. Coming \in Seq(PiecesOfFrames) /\ Chain(mode, begun, n, part, Coming)
  <2>1. CASE Busy
    <3> DEFINE d == [frame |-> frame[writeMu], piece |-> Head(rest[writeMu])]
    <3>1. writeMu \in Writers /\ rest[writeMu] # <<>> /\ pc[writeMu] = "write"
      BY <1>0, <2>1 DEF Busy, Typed, TypeOK
    <3>2. rest[writeMu] \in Seq(PieceNames)
      BY <1>0, <3>1 DEF Typed
    <3>3. Head(rest[writeMu]) \in PieceNames
      BY <3>1, <3>2, HeadTailProperties
    <3>4. frame[writeMu] \in Frames
      BY <1>0, <3>1 DEF Exclusive
    <3>5. d \in PiecesOfFrames
      BY <3>3, <3>4 DEF PiecesOfFrames
    <3>6. Coming = Append(wire, d)
      BY <2>1 DEF Coming
    <3> HIDE DEF d
    <3>7. Coming \in Seq(PiecesOfFrames)
      BY <1>2, <3>5, <3>6, AppendProperties
    <3> QED
      BY <1>0, <3>7 DEF Streamed
  <2>2. CASE ~Busy
    BY <1>0, <1>2, <2>2 DEF Coming, Streamed
  <2> QED
    BY <2>1, <2>2
<1>4. /\ n < Len(begun) /\ \A i \in 1 .. Len(part) : part[i].frame = begun[n + 1]
      /\ Chain(mode, begun, n + 1, <<>>, Coming)
      /\ Final(mode, begun, n, part, Coming) => Final(mode, begun, n + 1, <<>>, Coming)
  <2>1. Distinct(begun)
    BY <1>0, BegunDistinct
  <2> HIDE DEF n
  <2> QED
    BY <1>0, <1>2, <1>3, <2>1, FrameRead
<1>5. Whole /\ f = begun[n + 1]
  BY <1>2, <1>4 DEF Whole
<1>6. Exclusive' /\ Numbered' /\ (\A v \in Writers : Writing(v)') /\ TooLarge' = TooLarge
  BY <1>0, <1>1, ReaderLeaves
<1>7. /\ UNCHANGED <<mode, open, writeMu, pc, frame, rest, count, sealed, begun, wire>>
      /\ part' \in Seq(PiecesOfFrames) /\ Len(part') <= 4
  BY <1>1, EmptySeq DEF writers
<1>8. CASE mode = "noise" /\ f.nonce # opened
  <2>1. refused' = TRUE /\ opened' = opened /\ got' = got
    BY <1>8 DEF ReadFrame
  <2>2. Typed'
    BY <1>0, <1>7, <2>1 DEF Typed, TypeOK
  <2>3. Sealed' /\ Received'
    BY <1>0, <1>7, <2>1 DEF Sealed, Received
  <2>4. sealed > Len(begun)
    <3>1. /\ opened = n /\ begun[n + 1].nonce >= n
          /\ begun[n + 1].nonce - n <= sealed - Len(begun)
      <4>1. n + 1 \in 1 .. Len(begun) /\ (n + 1) - 1 = n
        BY <1>2, <1>4
      <4> HIDE DEF n
      <4>2. opened = n
        BY <1>0, <1>8 DEF Sealed, n
      <4> QED
        BY <1>0, <1>8, <4>1, <4>2 DEF Sealed
    <3>2. begun[n + 1].nonce # n
      BY <1>5, <1>8, <3>1
    <3>3. begun[n + 1].nonce \in Nat
      <4>1. begun[n + 1] \in Frames
        BY <1>2, <1>4, ElementOfSeq
      <4> QED
        BY <4>1 DEF Frames
    <3> HIDE DEF n
    <3> QED
      BY <1>2, <3>1, <3>2, <3>3
  <2>5. RefusedIsTooLarge'
    BY <1>6, <1>8, <2>4 DEF RefusedIsTooLarge, TooLarge
  <2> QED
    BY <1>6, <2>1, <2>2, <2>3, <2>5 DEF IInv
<1>9. CASE ~(mode = "noise" /\ f.nonce # opened)
  <2>1. /\ refused' = refused /\ got' = Append(got, f)
        /\ opened' = IF mode = "noise" THEN opened + 1 ELSE opened
    BY <1>5, <1>9 DEF ReadFrame
  <2>2. f \in Frames
    BY <1>2, <1>4, <1>5, ElementOfSeq
  <2> HIDE DEF f
  <2>3. /\ got' \in Seq(Frames) /\ Len(got') = n + 1
        /\ \A i \in 1 .. n : got'[i] = got[i]
        /\ got'[n + 1] = f
    BY <1>2, <2>1, <2>2, AppendProperties
  <2>4. Typed'
    <3>1. opened' \in Nat
      BY <1>2, <2>1
    <3> QED
      BY <1>0, <1>7, <2>1, <2>3, <3>1 DEF Typed, TypeOK
  <2>5. Sealed'
    BY <1>0, <1>2, <1>7, <2>1, <2>3 DEF Sealed
  <2>6. Received'
    <3>1. \A i \in 1 .. n + 1 : got'[i] = begun[i]
      BY <1>0, <1>2, <1>5, <2>3 DEF Received
    <3> QED
      BY <1>2, <1>4, <1>7, <2>3, <3>1 DEF Received
  <2>7. RefusedIsTooLarge'
    BY <1>0, <2>1 DEF RefusedIsTooLarge
  <2>8. Streamed'
    <3>1. Busy' = Busy /\ Coming' = Coming
      BY <1>7 DEF Busy, Coming
    <3>2. ~Busy => Final(mode, begun, n, part, Coming)
      BY <1>0 DEF Streamed, Coming
    <3>3. ~Busy => Coming = wire
      BY DEF Coming
    <3> QED
      BY <1>1, <1>4, <1>7, <2>3, <3>1, <3>2, <3>3 DEF Streamed
  <2> QED
    BY <1>6, <2>4, <2>5, <2>6, <2>7, <2>8 DEF IInv
<1> QED
  BY <1>8, <1>9

-----------------------------------------------------------------------------
(* The theorems.                                                           *)

LEMMA InitIInv == Init => IInv
<1> SUFFICES ASSUME Init PROVE IInv
  OBVIOUS
<1> USE FramingAssumption
<1>1. /\ <<>> \in Seq(PieceNames) /\ <<>> \in Seq(PiecesOfFrames)
      /\ <<>> \in Seq(Frames) /\ Len(<<>>) = 0
  BY EmptySeq
<1>2. Typed
  <2>1. /\ mode \in {"plain", "noise"} /\ open = TRUE /\ refused = FALSE
        /\ writeMu = "free" /\ sealed = 0 /\ opened = 0
        /\ wire = <<>> /\ part = <<>> /\ begun = <<>> /\ got = <<>>
    BY DEF Init
  <2>2. /\ pc \in [Writers -> {"idle", "lock", "encode", "write", "unlock"}]
        /\ frame \in [Writers -> Frames \cup {NoFrame}]
        /\ rest \in [Writers -> Seq(PieceNames)]
    BY <1>1 DEF Init
  <2>3. count \in [Writers -> 0 .. MaxSends]
    BY DEF Init
  <2>4. Len(wire) <= Buffer /\ Len(part) <= 4
    BY <1>1, <2>1
  <2>5. TypeOK
    BY <2>1, <2>2, <2>3, <2>4 DEF TypeOK
  <2> QED
    BY <1>1, <2>1, <2>2, <2>5 DEF Typed
<1>3. Exclusive /\ (\A w \in Writers : Writing(w)) /\ RefusedIsTooLarge
  BY DEF Init, Exclusive, Writing, RefusedIsTooLarge
<1>4. Numbered /\ Sealed /\ Received
  BY <1>1 DEF Init, Numbered, Sealed, Received
<1>5. Streamed
  <2>1. ~Busy
    BY DEF Init, Busy
  <2> QED
    BY <1>1, <2>1 DEF Init, Streamed, Coming, Chain, Final, Started
<1> QED
  BY <1>2, <1>3, <1>4, <1>5 DEF IInv

LEMMA NextKeepsIInv == IInv /\ [Next]_vars => IInv'
<1> SUFFICES ASSUME IInv, [Next]_vars PROVE IInv'
  OBVIOUS
<1>1. CASE \E w \in Writers : Begin(w) \/ WriterStep(w)
  BY <1>1, WriterKeeps
<1>2. CASE ~Complete /\ ReadPiece
  BY <1>2, ReadPieceKeeps
<1>3. CASE ReadFrame
  BY <1>3, ReadFrameKeeps
<1>4. CASE Hang \/ Break
  <2>1. open' = FALSE /\ UNCHANGED <<mode, wire, writers, reading>>
    BY <1>4 DEF Hang, Break
  <2>2. UNCHANGED <<mode, wire, writers, opened, part, got, refused>>
    BY <2>1 DEF reading
  <2>3. Exclusive' /\ Numbered' /\ (\A v \in Writers : Writing(v)') /\ TooLarge' = TooLarge
    BY <2>2, ReaderLeaves DEF IInv
  <2>4. Typed'
    BY <2>1, <2>2 DEF IInv, Typed, TypeOK, writers
  <2>5. Sealed' /\ Received'
    BY <2>2 DEF IInv, Sealed, Received, writers
  <2> QED
    BY <2>1, <2>2, <2>3, <2>4, <2>5 DEF IInv, RefusedIsTooLarge
<1>5. CASE UNCHANGED vars
  <2>1. UNCHANGED <<mode, open, wire, writers, opened, part, got, refused>>
    BY <1>5 DEF vars, reading
  <2>2. Exclusive' /\ Numbered' /\ (\A v \in Writers : Writing(v)') /\ TooLarge' = TooLarge
    BY <2>1, ReaderLeaves DEF IInv
  <2>3. Typed'
    BY <2>1 DEF IInv, Typed, TypeOK, writers
  <2>4. Sealed' /\ Received' /\ Busy' = Busy /\ Coming' = Coming
    BY <2>1 DEF IInv, Sealed, Received, writers, Busy, Coming
  <2>5. Streamed' = Streamed
    BY <2>1, <2>4 DEF Streamed, writers
  <2> QED
    BY <2>1, <2>2, <2>3, <2>4, <2>5 DEF IInv, RefusedIsTooLarge
<1> QED
  BY <1>1, <1>2, <1>3, <1>4, <1>5 DEF Next, ReaderStep

\* The inductive invariant: the pieces on their way are those of the frames
\* that were begun, in the order of the lock, from the piece that the other
\* end reads next to the one that is written next.
THEOREM InOrder == Spec => []IInv
<1>1. Init => IInv
  BY InitIInv
<1>2. IInv /\ [Next]_vars => IInv'
  BY NextKeepsIInv
<1> QED
  BY <1>1, <1>2, PTL DEF Spec

\* The network holds no more than it can, and the other end no more than the
\* four pieces of a frame.
THEOREM FramingTypeCorrect == Spec => []TypeOK
<1>1. IInv => TypeOK
  BY DEF IInv, Typed
<1> QED
  BY <1>1, InOrder, PTL

\* Whatever writers send at the same time, the other end reads whole frames,
\* in the order in which their writers held writeMu.
THEOREM Arrival == Spec => []FramesArriveWhole
<1>1. IInv => FramesArriveWhole
  <2> SUFFICES ASSUME IInv PROVE FramesArriveWhole
    OBVIOUS
  <2>1. /\ got \in Seq(Frames) /\ begun \in Seq(Frames)
        /\ Len(got) <= Len(begun) /\ \A i \in 1 .. Len(got) : got[i] = begun[i]
    BY DEF IInv, Typed, Received
  <2>2. DOMAIN got = 1 .. Len(got) /\ DOMAIN begun = 1 .. Len(begun)
        /\ Len(got) \in Nat /\ Len(begun) \in Nat
    BY <2>1, LenProperties
  <2> QED
    BY <2>1, <2>2 DEF FramesArriveWhole, IsPrefix
<1> QED
  BY <1>1, InOrder, PTL

\* The other end refuses a frame, or fails to decrypt it, only after a message
\* that was too large.
THEOREM Refusal == Spec => []RefusedIsTooLarge
<1>1. IInv => RefusedIsTooLarge
  BY DEF IInv
<1> QED
  BY <1>1, InOrder, PTL

=============================================================================
