--------------------------- MODULE ColaStreamProofs ---------------------------
(***************************************************************************)
(* Proofs about ColaStream, for any payloads, sizes and bounds.            *)
(*                                                                         *)
(* First the receive buffer: it never overflows, and a call of findFrame-  *)
(* InReceiveBuffer that finds no frame leaves room in it, as what it       *)
(* leaves is shorter than a frame whose length it has accepted.            *)
(*                                                                         *)
(* Then the stream.  InStream is the invariant: as long as a connection is *)
(* in step, the frames after those in the queue are what is in the buffer  *)
(* and on the wire.  The buffer then begins as a frame does (FrameInFront), *)
(* so nothing in it is taken for the magic word, a length or a checksum    *)
(* that is none.                                                           *)
(***************************************************************************)
EXTENDS ColaStream, SequenceTheorems, WellFoundedInduction, TLAPS

\* A set of numbers has a least one.
LEMMA LeastNumber ==
  ASSUME NEW S \in SUBSET Nat, S # {}
  PROVE  \E m \in S : \A j \in S : m <= j
<1> DEFINE R == OpToRel(<, Nat)
<1>1. \A x, y \in Nat : x < y => <<x, y>> \in R
  BY DEF OpToRel
<1>2. IsWellFoundedOn(R, Nat)
  BY NatLessThanWellFounded
<1>3. PICK m \in S : \A y \in S : ~(<<y, m>> \in R)
  <2> HIDE DEF R
  <2> QED BY <1>2, WFMin
<1>4. \A j \in S : ~(j < m)
  BY <1>1, <1>3
<1>5. \A j \in S : j \in Nat /\ m \in Nat
  OBVIOUS
<1> HIDE DEF R
<1> QED BY <1>4, <1>5

\* The sizes of the parts of a frame.
LEMMA Sizes == Len(Magic) = 2 /\ HeaderSize = 3 /\ Overhead = 4
BY DEF Magic, HeaderSize, Overhead

LEMMA Numbers ==
  BufferSize \in Nat /\ BufferSize >= 4 /\ MaxChunk \in Nat /\ MaxLosses \in Nat
BY SizeAssumption, Sizes

LEMMA ByteIsNat == Byte \subseteq Nat
BY DEF Byte

\* Bytes cut out of bytes are bytes.
LEMMA SubSeqOfBytes ==
  ASSUME NEW b \in Seq(Byte), NEW m \in Nat \ {0}, NEW n \in Nat, n <= Len(b)
  PROVE  /\ SubSeq(b, m, n) \in Seq(Byte)
         /\ Len(SubSeq(b, m, n)) = IF m <= n THEN n - m + 1 ELSE 0
BY SubSeqProperties

\* What the frame is looked for in is the end of what was received.
LEMMA AlignedBytes ==
  ASSUME NEW b \in Seq(Byte)
  PROVE  Aligned(b) \in Seq(Byte) /\ Len(Aligned(b)) <= Len(b)
<1> DEFINE M == MagicAt(b)
           first == CHOOSE i \in M : \A j \in M : i <= j
<1>1. CASE Len(b) < Len(Magic)
  BY <1>1 DEF Aligned
<1>2. CASE Len(b) >= Len(Magic) /\ M = {}
  BY <1>2, Sizes DEF Aligned
<1>3. CASE Len(b) >= Len(Magic) /\ M # {}
  <2>1. M \in SUBSET Nat /\ M \subseteq 1 .. Len(b)
    BY Sizes DEF MagicAt
  <2>5. Aligned(b) = SubSeq(b, first, Len(b))
    <3>1. ~(Len(b) < Len(Magic))
      BY <1>3, Sizes
    <3> QED BY <1>3, <3>1, Zenon DEF Aligned
  <2>2. \E i \in M : \A j \in M : i <= j
    <3> HIDE DEF M
    <3> QED BY <1>3, <2>1, LeastNumber
  <2>3. first \in M
    <3> HIDE DEF M
    <3> QED BY <2>2
  <2>4. first \in Nat \ {0} /\ first <= Len(b)
    <3> HIDE DEF M, first
    <3> QED BY <2>1, <2>3
  <2> HIDE DEF first
  <2>6. /\ SubSeq(b, first, Len(b)) \in Seq(Byte)
        /\ Len(SubSeq(b, first, Len(b))) = Len(b) - first + 1
    BY <2>4, SubSeqOfBytes
  <2> QED BY <2>4, <2>5, <2>6
<1> QED BY <1>1, <1>2, <1>3, Sizes

\* A whole frame and what follows it are parts of the buffer.
LEMMA CutBytes ==
  ASSUME NEW b \in Seq(Byte), IsWhole(b)
  PROVE  /\ SubSeq(b, 1, FrameLength(b)) \in Seq(Byte)
         /\ SubSeq(b, FrameLength(b) + 1, Len(b)) \in Seq(Byte)
         /\ Len(SubSeq(b, FrameLength(b) + 1, Len(b))) <= Len(b)
<1>1. FrameLength(b) \in Nat /\ FrameLength(b) <= Len(b)
  <2>1. b[HeaderSize] \in Byte
    BY Sizes DEF IsWhole, HasHeader
  <2> QED BY <2>1, Sizes DEF IsWhole, FrameLength, PayloadLength, Byte
<1> QED BY <1>1, SubSeqOfBytes

\* The receive buffer as the invariants see it.
Room == TypeOK /\ BufferHasRoom

LEMMA RoomInit == Init => Room
<1> SUFFICES ASSUME Init PROVE Room
  OBVIOUS
<1>1. /\ wire = <<>> /\ buffer = <<>> /\ recvQueue = <<>> /\ sent = <<>>
      /\ up = TRUE /\ reader = "waiting" /\ stale = FALSE /\ losses = 0
  BY DEF Init
<1>2. wire \in Seq(Byte) /\ buffer \in Seq(Byte) /\ Len(buffer) = 0
  BY <1>1
<1>3. recvQueue \in Seq(Seq(Byte)) /\ sent \in Seq(Seq(Byte))
  BY <1>1
<1>4. /\ Len(buffer) <= BufferSize /\ Len(buffer) < BufferSize
      /\ 0 \in 0 .. MaxLosses
  BY <1>2, Numbers
<1> QED BY <1>1, <1>2, <1>3, <1>4 DEF Room, TypeOK, BufferHasRoom

LEMMA RoomNext == Room /\ [Next]_vars => Room'
<1> SUFFICES ASSUME Room, [Next]_vars PROVE Room'
  OBVIOUS
<1> USE DEF Room, TypeOK, BufferHasRoom
<1> DEFINE bytes == Aligned(buffer)
<1>0. bytes \in Seq(Byte) /\ Len(bytes) <= Len(buffer)
  BY AlignedBytes
<1> HIDE DEF bytes
<1>1. ASSUME NEW p \in Payloads, DeviceSends(p) PROVE Room'
  <2>1. Frame(p) \in Seq(Byte)
    BY FrameAssumption
  <2>2. wire' \in Seq(Byte)
    BY <1>1, <2>1 DEF DeviceSends
  <2>3. sent' \in Seq(Seq(Byte)) /\ recvQueue' \in Seq(Seq(Byte)) /\ stale' \in BOOLEAN
    <3> DEFINE f == Frame(p)
    <3>1. /\ sent' \in {<<f>>, Append(sent, f)}
          /\ recvQueue' \in {<<>>, recvQueue}
          /\ stale' \in {FALSE, stale}
      BY <1>1 DEF DeviceSends
    <3> HIDE DEF f
    <3>2. f \in Seq(Byte)
      BY <2>1 DEF f
    <3>3. <<f>> \in Seq(Seq(Byte)) /\ Append(sent, f) \in Seq(Seq(Byte))
      BY <3>2
    <3>4. <<>> \in Seq(Seq(Byte))
      OBVIOUS
    <3>5. sent' \in Seq(Seq(Byte))
      BY <3>1, <3>3
    <3>6. recvQueue' \in Seq(Seq(Byte))
      BY <3>1, <3>4
    <3> QED BY <3>1, <3>5, <3>6
  <2> QED BY <1>1, <2>2, <2>3 DEF DeviceSends
<1>2. CASE ConnectionBreaks
  <2>1. wire' \in Seq(Byte) /\ up' = FALSE /\ losses' \in 0 .. MaxLosses
    BY <1>2, Numbers DEF ConnectionBreaks
  <2> QED BY <1>2, <2>1 DEF ConnectionBreaks
<1>3. CASE Reconnect
  BY <1>3 DEF Reconnect
<1>4. ASSUME NEW n \in 1 .. MaxChunk, ReadChunk(n) PROVE Room'
  <2> DEFINE space == BufferSize - Len(buffer)
             taken == IF n <= space THEN n ELSE space
  <2>1. n \in Nat \ {0} /\ n <= Len(wire) /\ space \in Nat /\ taken \in Nat
        /\ taken <= space /\ taken <= n
    BY <1>4, Numbers DEF ReadChunk
  <2>2. /\ SubSeq(wire, n + 1, Len(wire)) \in Seq(Byte)
        /\ SubSeq(wire, 1, taken) \in Seq(Byte)
        /\ Len(SubSeq(wire, 1, taken)) = taken
    <3> HIDE DEF space, taken
    <3> QED BY <2>1, SubSeqOfBytes
  <2>3. CASE space = 0
    BY <1>4, <2>2, <2>3, Numbers DEF ReadChunk
  <2>4. CASE space # 0
    <3>1. buffer' = buffer \o SubSeq(wire, 1, taken) /\ reader' = "parsing"
      BY <1>4, <2>4 DEF ReadChunk
    <3>2. buffer' \in Seq(Byte) /\ Len(buffer') = Len(buffer) + taken
      <4> HIDE DEF taken
      <4> QED BY <2>1, <2>2, <3>1
    <3>3. Len(buffer') <= BufferSize
      BY <2>1, <3>2, Numbers
    <3> QED BY <1>4, <2>2, <3>1, <3>2, <3>3 DEF ReadChunk
  <2> QED BY <2>3, <2>4
<1>5. CASE NoFrameYet
  <2>1. Len(bytes) < BufferSize
    <3>1. CASE ~HasHeader(bytes)
      BY <1>0, <3>1, Numbers, Sizes DEF HasHeader
    <3>2. CASE HasHeader(bytes)
      <4>1. ~TooBig(bytes) /\ ~IsWhole(bytes)
        BY <1>5, <3>2 DEF NoFrameYet, bytes
      <4>2. bytes[HeaderSize] \in Nat
        <5>1. bytes[HeaderSize] \in Byte
          BY <1>0, <3>2, Sizes DEF HasHeader
        <5> QED BY <5>1, ByteIsNat
      <4> QED BY <1>0, <3>2, <4>1, <4>2, Numbers, Sizes
              DEF IsWhole, TooBig, FrameLength, PayloadLength
    <3> QED BY <3>1, <3>2
  <2>2. buffer' = bytes /\ UNCHANGED <<up, wire, recvQueue, sent, stale, losses>>
    BY <1>5 DEF NoFrameYet, bytes
  <2>3. Len(buffer') < BufferSize /\ Len(buffer') <= BufferSize
    BY <1>0, <2>1, <2>2, Numbers
  <2>4. reader' = "waiting"
    BY <1>5 DEF NoFrameYet
  <2> QED BY <1>0, <2>2, <2>3, <2>4
<1>6. CASE Discard
  BY <1>6, Numbers DEF Discard
<1>7. CASE Hang
  BY <1>0, <1>7, Numbers DEF Hang, bytes
<1>8. CASE CutFrame
  <2>1. IsWhole(bytes) /\ reader = "parsing" /\ UNCHANGED reader
    BY <1>8 DEF CutFrame, bytes
  <2>2. /\ SubSeq(bytes, 1, FrameLength(bytes)) \in Seq(Byte)
        /\ SubSeq(bytes, FrameLength(bytes) + 1, Len(bytes)) \in Seq(Byte)
        /\ Len(SubSeq(bytes, FrameLength(bytes) + 1, Len(bytes))) <= Len(bytes)
    BY <1>0, <2>1, CutBytes
  <2>3. /\ buffer' = SubSeq(bytes, FrameLength(bytes) + 1, Len(bytes))
        /\ recvQueue' = Append(recvQueue, SubSeq(bytes, 1, FrameLength(bytes)))
    BY <1>8 DEF CutFrame, bytes
  <2>4. buffer' \in Seq(Byte) /\ Len(buffer') <= BufferSize
    <3> DEFINE rest == SubSeq(bytes, FrameLength(bytes) + 1, Len(bytes))
    <3>1. rest \in Seq(Byte) /\ Len(rest) <= Len(bytes) /\ buffer' = rest
      BY <2>2, <2>3
    <3> HIDE DEF rest
    <3>2. Len(rest) \in Nat /\ Len(bytes) \in Nat /\ Len(buffer) \in Nat
      BY <1>0, <3>1
    <3>3. Len(rest) <= BufferSize
      BY <1>0, <3>1, <3>2, Numbers
    <3> QED BY <3>1, <3>3
  <2>5. recvQueue' \in Seq(Seq(Byte))
    BY <2>2, <2>3
  <2> QED BY <1>8, <2>1, <2>4, <2>5 DEF CutFrame
<1>9. CASE UNCHANGED vars
  BY <1>9 DEF vars
<1> QED BY <1>1, <1>2, <1>3, <1>4, <1>5, <1>6, <1>7, <1>8, <1>9 DEF Next

\* The state of the stream is what its types say, and memcpy never writes beyond the
\* end of m_receiveBuffer (readCallbackFunction).
THEOREM TypeCorrect == Spec => []TypeOK
<1>1. Room => TypeOK
  BY DEF Room
<1> QED BY RoomInit, RoomNext, <1>1, PTL DEF Spec

\* Each time recv is called again the buffer has room for a byte at least, whatever
\* bytes came: the branch of readCallbackFunction that throws a chunk away
\* because the buffer is full is never taken.
THEOREM RoomForAByte == Spec => []BufferHasRoom
<1>1. Room => BufferHasRoom
  BY DEF Room
<1> QED BY RoomInit, RoomNext, <1>1, PTL DEF Spec

-----------------------------------------------------------------------------
(* What FlattenSeq adds up *)

\* A set that holds 0, and with each number the next, holds all of them.
LEMMA CountingUp ==
  ASSUME NEW S \in SUBSET Nat, 0 \in S, \A n \in S : n + 1 \in S
  PROVE  Nat \subseteq S
<1> SUFFICES ASSUME Nat \ S # {} PROVE FALSE
  OBVIOUS
<1>1. PICK m \in Nat \ S : \A j \in Nat \ S : m <= j
  BY LeastNumber
<1>2. m - 1 \in Nat /\ m - 1 \in S
  <2>1. m # 0
    BY <1>1
  <2>2. m - 1 \in Nat
    BY <2>1
  <2> QED BY <1>1, <2>2
<1>3. m - 1 + 1 \in S
  BY <1>2
<1> QED BY <1>1, <1>3

\* f adds up the first n elements of s.
IsFlattening(f, s, n) ==
  f = [i \in 1 .. n |-> IF i = 1 THEN s[i] ELSE f[i - 1] \o s[i]]

LEMMA FlatteningExists ==
  ASSUME NEW s
  PROVE  \A n \in Nat : \E f : IsFlattening(f, s, n)
<1> DEFINE S == {n \in Nat : \E f : IsFlattening(f, s, n)}
<1>1. 0 \in S
  <2> DEFINE f == [i \in 1 .. 0 |-> <<>>]
  <2>1. IsFlattening(f, s, 0)
    BY DEF IsFlattening
  <2> QED BY <2>1
<1>2. ASSUME NEW n \in S PROVE n + 1 \in S
  <2>1. PICK f : IsFlattening(f, s, n)
    OBVIOUS
  <2> DEFINE new == IF n = 0 THEN s[1] ELSE f[n] \o s[n + 1]
             g == [i \in 1 .. n + 1 |-> IF i = n + 1 THEN new ELSE f[i]]
  <2>2. n \in Nat
    OBVIOUS
  <2>3. ASSUME NEW i \in 1 .. n + 1
        PROVE  g[i] = IF i = 1 THEN s[i] ELSE g[i - 1] \o s[i]
    <3>1. CASE i = n + 1
      BY <2>2, <3>1
    <3>2. CASE i # n + 1
      <4>1. i \in 1 .. n /\ (i # 1 => i - 1 \in 1 .. n /\ i - 1 # n + 1 /\ i - 1 \in 1 .. n + 1)
        BY <2>2, <3>2
      <4>2. f[i] = IF i = 1 THEN s[i] ELSE f[i - 1] \o s[i]
        BY <2>1, <4>1 DEF IsFlattening
      <4>3. g[i] = f[i] /\ (i # 1 => g[i - 1] = f[i - 1])
        BY <3>2, <4>1
      <4> HIDE DEF g
      <4> QED BY <4>2, <4>3
    <3> QED BY <3>1, <3>2
  <2>4. IsFlattening(g, s, n + 1)
    <3>1. g = [i \in 1 .. n + 1 |-> g[i]]
      OBVIOUS
    <3> HIDE DEF g
    <3> QED BY <2>3, <3>1 DEF IsFlattening
  <2> HIDE DEF g
  <2> QED BY <2>2, <2>4
<1> HIDE DEF S
<1>3. Nat \subseteq S
  <2>1. S \in SUBSET Nat
    BY DEF S
  <2> QED BY <1>1, <1>2, <2>1, CountingUp
<1> QED BY <1>3 DEF S

LEMMA FlatteningAt ==
  ASSUME NEW f, NEW s, NEW n, IsFlattening(f, s, n), NEW i \in 1 .. n
  PROVE  f[i] = IF i = 1 THEN s[i] ELSE f[i - 1] \o s[i]
BY DEF IsFlattening

Alike(s, t, n) == \A i \in 1 .. n : s[i] = t[i]

\* Two sequences that begin alike add up alike, as far as they do.
LEMMA FlatteningsAgree ==
  ASSUME NEW s, NEW t, NEW n \in Nat, NEW k \in Nat, NEW f, NEW g,
         IsFlattening(f, s, n), IsFlattening(g, t, k), n <= k,
         Alike(s, t, n)
  PROVE  Alike(f, g, n)
<1> USE DEF Alike
<1> SUFFICES ASSUME \E i \in 1 .. n : f[i] # g[i] PROVE FALSE
  OBVIOUS
<1> DEFINE S == {i \in 1 .. n : f[i] # g[i]}
<1>1. PICK i \in S : \A j \in S : i <= j
  <2>1. S \in SUBSET Nat /\ S # {}
    OBVIOUS
  <2> HIDE DEF S
  <2> QED BY <2>1, LeastNumber
<1>2. /\ i \in 1 .. n /\ i \in 1 .. k /\ s[i] = t[i]
      /\ i # 1 => i - 1 \in 1 .. n /\ ~(i <= i - 1)
  BY <1>1
<1>3. i # 1 => f[i - 1] = g[i - 1]
  BY <1>1, <1>2
<1>4. f[i] = IF i = 1 THEN s[i] ELSE f[i - 1] \o s[i]
  BY <1>2, FlatteningAt
<1>5. g[i] = IF i = 1 THEN t[i] ELSE g[i - 1] \o t[i]
  BY <1>2, FlatteningAt
<1>6. f[i] = g[i]
  BY <1>2, <1>3, <1>4, <1>5
<1> QED BY <1>1, <1>6

\* FlattenSeq adds up all elements.
LEMMA FlattenSeqDef ==
  ASSUME NEW X, NEW s \in Seq(Seq(X)), Len(s) # 0
  PROVE  \E f : IsFlattening(f, s, Len(s)) /\ FlattenSeq(s) = f[Len(s)]
<1> DEFINE F == CHOOSE f : f = [i \in 1..Len(s) |->
                                  IF i = 1 THEN s[i] ELSE f[i-1] \o s[i]]
<1>1. Len(s) \in Nat
  OBVIOUS
<1>2. \E f : IsFlattening(f, s, Len(s))
  BY <1>1, FlatteningExists
<1>3. FlattenSeq(s) = F[Len(s)]
  BY Zenon DEF FlattenSeq
<1>4. IsFlattening(F, s, Len(s))
  BY <1>2, Zenon DEF IsFlattening
<1> QED BY <1>3, <1>4

LEMMA FlattenSeqEmpty == FlattenSeq(<<>>) = <<>>
<1>1. Len(<<>>) = 0
  OBVIOUS
<1> QED BY <1>1, Zenon DEF FlattenSeq

\* One more element is added at the end.
LEMMA FlattenSeqAppend ==
  ASSUME NEW X, NEW s \in Seq(Seq(X)), NEW x \in Seq(X)
  PROVE  FlattenSeq(Append(s, x)) = FlattenSeq(s) \o x
<1> DEFINE n == Len(s)
           m == n + 1
           t == Append(s, x)
<1>1. /\ n \in Nat /\ m \in Nat /\ m = n + 1 /\ t \in Seq(Seq(X)) /\ Len(t) = m
      /\ t[m] = x /\ \A i \in 1 .. n : s[i] = t[i]
  OBVIOUS
<1> HIDE DEF n, m, t
<1>2. PICK g : IsFlattening(g, t, m) /\ FlattenSeq(t) = g[m]
  <2>1. Len(t) # 0
    BY <1>1
  <2> QED BY <1>1, <2>1, FlattenSeqDef
<1>3. g[m] = IF m = 1 THEN x ELSE g[n] \o x
  <2>1. m \in 1 .. m /\ m - 1 = n
    BY <1>1
  <2>2. g[m] = IF m = 1 THEN t[m] ELSE g[m - 1] \o t[m]
    BY <1>2, <2>1, FlatteningAt
  <2> QED BY <1>1, <2>1, <2>2
<1>4. CASE n = 0
  <2>1. s = <<>>
    BY <1>4 DEF n
  <2>2. FlattenSeq(s) \o x = x
    BY <2>1, FlattenSeqEmpty
  <2> QED BY <1>1, <1>2, <1>3, <1>4, <2>2 DEF t
<1>5. CASE n # 0
  <2>1. PICK f : IsFlattening(f, s, n) /\ FlattenSeq(s) = f[n]
    BY <1>5, FlattenSeqDef DEF n
  <2>2. \A i \in 1 .. n : f[i] = g[i]
    <3>1. n <= m /\ Alike(s, t, n)
      BY <1>1 DEF Alike
    <3>2. Alike(f, g, n)
      BY <1>1, <1>2, <2>1, <3>1, FlatteningsAgree
    <3> QED BY <3>2 DEF Alike
  <2>3. m # 1 /\ n \in 1 .. n
    BY <1>1, <1>5
  <2> QED BY <1>2, <1>3, <2>1, <2>2, <2>3 DEF t
<1> QED BY <1>4, <1>5

\* A sequence with an element has a last one.
LEMMA LastElement ==
  ASSUME NEW Y
  PROVE  \A s \in Seq(Y), n \in Nat : Len(s) = n + 1 =>
            \E u \in Seq(Y) : Len(u) = n /\ s[n + 1] \in Y /\ s = Append(u, s[n + 1])
<1> SUFFICES ASSUME NEW s \in Seq(Y), NEW n \in Nat, Len(s) = n + 1
             PROVE  \E u \in Seq(Y) : /\ Len(u) = n /\ s[n + 1] \in Y
                                      /\ s = Append(u, s[n + 1])
  OBVIOUS
<1>1. /\ SubSeq(s, 1, n) \in Seq(Y) /\ Len(SubSeq(s, 1, n)) = n
      /\ s[n + 1] \in Y
  OBVIOUS
<1>2. s = Append(SubSeq(s, 1, n), s[n + 1])
  OBVIOUS
<1> QED BY <1>1, <1>2

\* Three equations by name, as the provers look for the sets of the sequences in an
\* equation and do not find them.
Associates(a, b, c) == (a \o b) \o c = a \o (b \o c)
GoesToSecond(s, t, x) == Append(s \o t, x) = s \o Append(t, x)
GoesToFirst(s, t) == s \o t = Append(s, Head(t)) \o Tail(t)

\* Sequences, one after the other.
LEMMA ConcatAssociates == \A Y : \A a, b, c \in Seq(Y) : Associates(a, b, c)
BY ConcatAssociative DEF Associates

\* An element goes to the end of what stands last, and comes from the front of it.
LEMMA AppendToSecond == \A Y : \A s, t \in Seq(Y) : \A x \in Y : GoesToSecond(s, t, x)
<1> SUFFICES ASSUME NEW Y, NEW s \in Seq(Y), NEW t \in Seq(Y), NEW x \in Y
             PROVE  Append(s \o t, x) = s \o Append(t, x)
  BY DEF GoesToSecond
<1> QED OBVIOUS

LEMMA HeadToFirst == \A Y : \A s, t \in Seq(Y) : t # <<>> => GoesToFirst(s, t)
<1> SUFFICES ASSUME NEW Y, NEW s \in Seq(Y), NEW t \in Seq(Y), t # <<>>
             PROVE  s \o t = Append(s, Head(t)) \o Tail(t)
  BY DEF GoesToFirst
<1> QED OBVIOUS

\* FlattenSeq of two sequences, one after the other.
LEMMA FlattenSeqConcat ==
  ASSUME NEW X
  PROVE  \A s, t \in Seq(Seq(X)) : /\ FlattenSeq(t) \in Seq(X)
                                   /\ FlattenSeq(s \o t) = FlattenSeq(s) \o FlattenSeq(t)
<1> DEFINE T == {n \in Nat : \A t \in Seq(Seq(X)) :
                                Len(t) = n => FlattenSeq(t) \in Seq(X)}
<1>6. \A s \in Seq(Seq(X)), n \in Nat : Len(s) = n + 1 =>
         \E u \in Seq(Seq(X)) : /\ Len(u) = n /\ s[n + 1] \in Seq(X)
                               /\ s = Append(u, s[n + 1])
  BY LastElement
<1>1. T \in SUBSET Nat /\ 0 \in T
  <2>1. \A t \in Seq(Seq(X)) : Len(t) = 0 => t = <<>>
    OBVIOUS
  <2>2. <<>> \in Seq(X)
    OBVIOUS
  <2> QED BY <2>1, <2>2, FlattenSeqEmpty
<1>2. ASSUME NEW n \in T PROVE n + 1 \in T
  <2>1. n \in Nat /\ n + 1 \in Nat
    OBVIOUS
  <2>2. ASSUME NEW t \in Seq(Seq(X)), Len(t) = n + 1
        PROVE  FlattenSeq(t) \in Seq(X)
    <3>1. PICK u \in Seq(Seq(X)) :
             Len(u) = n /\ t[n + 1] \in Seq(X) /\ t = Append(u, t[n + 1])
      BY <1>6, <2>1, <2>2
    <3>2. FlattenSeq(u) \in Seq(X)
      BY <3>1
    <3>3. FlattenSeq(t) = FlattenSeq(u) \o t[n + 1]
      BY <3>1, FlattenSeqAppend
    <3> QED BY <3>1, <3>2, <3>3
  <2> QED BY <2>1, <2>2
<1>3. ASSUME NEW t \in Seq(Seq(X)) PROVE FlattenSeq(t) \in Seq(X)
  <2>1. Nat \subseteq T
    <3> HIDE DEF T
    <3> QED BY <1>1, <1>2, CountingUp
  <2>2. Len(t) \in Nat
    OBVIOUS
  <2> QED BY <2>1, <2>2
<1> HIDE DEF T
<1>4. ASSUME NEW s \in Seq(Seq(X)), NEW v \in Seq(Seq(X))
      PROVE  FlattenSeq(s \o v) = FlattenSeq(s) \o FlattenSeq(v)
  <2> DEFINE S == {n \in Nat : \A t \in Seq(Seq(X)) :
                 Len(t) = n => FlattenSeq(s \o t) = FlattenSeq(s) \o FlattenSeq(t)}
  <2>0. FlattenSeq(s) \in Seq(X)
    BY <1>3
  <2>1. S \in SUBSET Nat /\ 0 \in S
    <3>1. \A t \in Seq(Seq(X)) : Len(t) = 0 => t = <<>> /\ s \o t = s
      OBVIOUS
    <3>2. FlattenSeq(s) \o <<>> = FlattenSeq(s)
      BY <2>0
    <3> QED BY <3>1, <3>2, FlattenSeqEmpty
  <2>2. ASSUME NEW n \in S PROVE n + 1 \in S
    <3>1. n \in Nat /\ n + 1 \in Nat
      OBVIOUS
    <3>2. ASSUME NEW t \in Seq(Seq(X)), Len(t) = n + 1
          PROVE  FlattenSeq(s \o t) = FlattenSeq(s) \o FlattenSeq(t)
      <4> DEFINE x == t[n + 1]
      <4>1. PICK u \in Seq(Seq(X)) : Len(u) = n /\ x \in Seq(X) /\ t = Append(u, x)
        BY <1>6, <3>1, <3>2 DEF x
      <4> HIDE DEF x
      <4>2. s \o t = Append(s \o u, x) /\ s \o u \in Seq(Seq(X))
        <5>1. GoesToSecond(s, u, x)
          BY <4>1, AppendToSecond, Zenon
        <5>2. Append(s \o u, x) = s \o Append(u, x)
          BY <5>1 DEF GoesToSecond
        <5> QED BY <4>1, <5>2
      <4>3. FlattenSeq(s \o t) = FlattenSeq(s \o u) \o x
        BY <4>1, <4>2, FlattenSeqAppend
      <4>4. FlattenSeq(s \o u) = FlattenSeq(s) \o FlattenSeq(u)
        BY <4>1
      <4>5. FlattenSeq(t) = FlattenSeq(u) \o x /\ FlattenSeq(u) \in Seq(X)
        BY <1>3, <4>1, FlattenSeqAppend
      <4>6. (FlattenSeq(s) \o FlattenSeq(u)) \o x = FlattenSeq(s) \o (FlattenSeq(u) \o x)
        <5>1. Associates(FlattenSeq(s), FlattenSeq(u), x)
          BY <2>0, <4>1, <4>5, ConcatAssociates, Zenon
        <5> QED BY <5>1, Zenon DEF Associates
      <4> QED BY <4>3, <4>4, <4>5, <4>6
    <3> QED BY <3>1, <3>2
  <2>3. Nat \subseteq S
    <3> HIDE DEF S
    <3> QED BY <2>1, <2>2, CountingUp
  <2>4. Len(v) \in Nat
    OBVIOUS
  <2> QED BY <2>3, <2>4
<1> QED BY <1>3, <1>4

\* What is sent first comes first.
LEMMA FlattenSeqHead ==
  ASSUME NEW X, NEW s \in Seq(Seq(X)), s # <<>>
  PROVE  /\ Head(s) \in Seq(X) /\ Tail(s) \in Seq(Seq(X))
         /\ FlattenSeq(Tail(s)) \in Seq(X)
         /\ FlattenSeq(s) = Head(s) \o FlattenSeq(Tail(s))
<1> DEFINE h == Head(s)
           t == Tail(s)
<1>1. /\ h \in Seq(X) /\ t \in Seq(Seq(X)) /\ s = <<h>> \o t
      /\ <<h>> = Append(<<>>, h) /\ <<h>> \in Seq(Seq(X)) /\ <<>> \in Seq(Seq(X))
  OBVIOUS
<1> HIDE DEF h, t
<1>2. FlattenSeq(<<h>>) = h
  <2>1. FlattenSeq(<<h>>) = FlattenSeq(<<>>) \o h
    BY <1>1, FlattenSeqAppend
  <2>2. <<>> \o h = h
    BY <1>1
  <2> QED BY <2>1, <2>2, FlattenSeqEmpty
<1>3. FlattenSeq(t) \in Seq(X) /\ FlattenSeq(s) = FlattenSeq(<<h>>) \o FlattenSeq(t)
  BY <1>1, FlattenSeqConcat
<1> QED BY <1>1, <1>2, <1>3 DEF h, t
-----------------------------------------------------------------------------
(* Frames and the bytes they are cut from *)

\* What follows the same bytes is the same.
LEMMA BytesCancel ==
  \A x, y, z \in Seq(Byte) : x \o y = x \o z => y = z
BY ConcatSimplifications

\* Bytes cut in two.
LEMMA BytesCut ==
  ASSUME NEW b \in Seq(Byte), NEW n \in 0 .. Len(b)
  PROVE  /\ SubSeq(b, 1, n) \in Seq(Byte) /\ Len(SubSeq(b, 1, n)) = n
         /\ \A i \in 1 .. n : SubSeq(b, 1, n)[i] = b[i]
         /\ SubSeq(b, n + 1, Len(b)) \in Seq(Byte)
         /\ Len(SubSeq(b, n + 1, Len(b))) = Len(b) - n
         /\ b = SubSeq(b, 1, n) \o SubSeq(b, n + 1, Len(b))
<1>1. /\ SubSeq(b, 1, n) \in Seq(Byte) /\ Len(SubSeq(b, 1, n)) = n
      /\ \A i \in 1 .. n : SubSeq(b, 1, n)[i] = b[i]
  OBVIOUS
<1>2. /\ SubSeq(b, n + 1, Len(b)) \in Seq(Byte)
      /\ Len(SubSeq(b, n + 1, Len(b))) = Len(b) - n
  OBVIOUS
<1>3. SubSeq(b, 1, n) \o SubSeq(b, n + 1, Len(b)) = SubSeq(b, 1, Len(b))
  <2>1. /\ 1 \in 1 .. Len(b) + 1 /\ n \in 1 - 1 .. Len(b)
        /\ Len(b) \in n .. Len(b)
    OBVIOUS
  <2> QED BY <2>1, ConcatAdjacentSubSeq
<1>4. SubSeq(b, 1, Len(b)) = b
  BY SubSeqFull
<1> QED BY <1>1, <1>2, <1>3, <1>4

\* Bytes that are the same one by one are the same.
LEMMA SameBytes ==
  \A x, y \in Seq(Byte) :
     Len(x) = Len(y) /\ (\A i \in 1 .. Len(x) : x[i] = y[i]) => x = y
BY SeqEqual

\* Where the parts of a frame are.
LEMMA FrameParts ==
  ASSUME NEW p \in Payloads
  PROVE  /\ Frame(p) \in Seq(Byte) /\ p \in Seq(Byte)
         /\ Len(Frame(p)) = Len(p) + Overhead
         /\ Frame(p)[1] = STX /\ Frame(p)[2] = STX
         /\ Frame(p)[HeaderSize] = Len(p)
         /\ \A i \in 1 .. Len(p) : Frame(p)[HeaderSize + i] = p[i]
         /\ Frame(p)[Len(p) + Overhead] = Checksum(p)
         /\ Len(Frame(p)) + MaxChunk <= BufferSize /\ Len(Frame(p)) <= CounterSize
<1> DEFINE c == Checksum(p)
           X == Nat \cup {c}
           a == <<STX, STX>> \o <<Len(p)>>
           b == a \o p
           f == b \o <<c>>
<1>1. p \in Seq(Byte) /\ Len(p) \in Nat
  BY SizeAssumption
<1>2. a \in Seq(X) /\ p \in Seq(X) /\ <<c>> \in Seq(X)
  <2>1. STX \in X /\ Len(p) \in X /\ c \in X /\ Byte \subseteq X
    BY <1>1, ByteIsNat DEF STX
  <2> HIDE DEF X, c
  <2> QED BY <1>1, <2>1
<1>3. Frame(p) = f
  BY Zenon DEF Frame, Magic
<1>4. Len(a) = 3 /\ a[1] = STX /\ a[2] = STX /\ a[3] = Len(p)
  BY <1>1 DEF STX
<1>5. /\ b \in Seq(X) /\ Len(b) = 3 + Len(p)
      /\ \A i \in 1 .. 3 + Len(p) : b[i] = IF i <= 3 THEN a[i] ELSE p[i - 3]
  <2> HIDE DEF X, c, a
  <2>1. /\ b \in Seq(X) /\ Len(b) = Len(a) + Len(p)
        /\ \A i \in 1 .. Len(a) + Len(p) :
              b[i] = IF i <= Len(a) THEN a[i] ELSE p[i - Len(a)]
    BY <1>2, ConcatProperties
  <2> QED BY <1>1, <1>4, <2>1
<1>6. /\ Len(f) = 4 + Len(p)
      /\ \A i \in 1 .. 4 + Len(p) : f[i] = IF i <= 3 + Len(p) THEN b[i] ELSE c
  <2> HIDE DEF X, c, a, b
  <2> QED BY <1>1, <1>2, <1>5, ConcatProperties
<1> HIDE DEF a, b, c, f, X
<1>7. /\ f[1] = STX /\ f[2] = STX /\ f[3] = Len(p)
      /\ \A i \in 1 .. Len(p) : f[3 + i] = p[i]
  BY <1>1, <1>4, <1>5, <1>6
<1>8. f[Len(p) + 4] = c
  BY <1>1, <1>6
<1> QED BY <1>1, <1>3, <1>6, <1>7, <1>8, Sizes, FrameAssumption DEF c

\* Two sequences that go on to the same one begin alike.
LEMMA CommonPart ==
  ASSUME NEW b \in Seq(Byte), NEW c \in Seq(Byte), NEW f \in Seq(Byte),
         NEW d \in Seq(Byte), b \o c = f \o d
  PROVE  /\ \A i \in 1 .. Len(b) : i <= Len(f) => b[i] = f[i]
         /\ Len(f) <= Len(b) =>
               /\ SubSeq(b, 1, Len(f)) = f
               /\ SubSeq(b, Len(f) + 1, Len(b)) \o c = d
<1>1. \A i \in 1 .. Len(b) : i <= Len(f) => b[i] = f[i]
  <2> SUFFICES ASSUME NEW i \in 1 .. Len(b), i <= Len(f) PROVE b[i] = f[i]
    OBVIOUS
  <2>1. (b \o c)[i] = b[i]
    OBVIOUS
  <2>2. (f \o d)[i] = f[i]
    OBVIOUS
  <2> QED BY <2>1, <2>2
<1>2. ASSUME Len(f) <= Len(b)
      PROVE  /\ SubSeq(b, 1, Len(f)) = f
             /\ SubSeq(b, Len(f) + 1, Len(b)) \o c = d
  <2> DEFINE front == SubSeq(b, 1, Len(f))
             back == SubSeq(b, Len(f) + 1, Len(b))
  <2>1. Len(f) \in 0 .. Len(b)
    BY <1>2
  <2>2. /\ front \in Seq(Byte) /\ Len(front) = Len(f)
        /\ back \in Seq(Byte) /\ b = front \o back
        /\ \A i \in 1 .. Len(f) : front[i] = b[i]
    BY <2>1, BytesCut
  <2> HIDE DEF front, back
  <2>3. front = f
    <3>1. \A i \in 1 .. Len(f) : front[i] = f[i]
      BY <1>1, <2>1, <2>2
    <3> QED BY <2>2, <3>1, SameBytes
  <2>4. f \o (back \o c) = f \o d
    <3>1. (f \o back) \o c = f \o (back \o c)
      <4>1. Associates(f, back, c)
        BY <2>2, ConcatAssociates, Zenon
      <4> QED BY <4>1, Zenon DEF Associates
    <3> QED BY <2>2, <2>3, <3>1
  <2>5. back \o c = d
    <3>1. back \o c \in Seq(Byte)
      BY <2>2
    <3> QED BY <2>4, <3>1, BytesCancel
  <2> QED BY <2>3, <2>5 DEF front, back
<1> QED BY <1>1, <1>2

\* What findFrameInReceiveBuffer makes of bytes that begin as a frame does: nothing is
\* skipped, the length is that of the payload, and the frame is cut out whole.
LEMMA FrameInFront ==
  ASSUME NEW b \in Seq(Byte), NEW c \in Seq(Byte), NEW d \in Seq(Byte),
         NEW p \in Payloads, b \o c = Frame(p) \o d
  PROVE  /\ Aligned(b) = b
         /\ HasHeader(b) => FrameLength(b) = Len(Frame(p)) /\ ~TooBig(b)
         /\ IsWhole(b) <=> Len(Frame(p)) <= Len(b)
         /\ IsWhole(b) => ChecksumFits(b)
<1> DEFINE f == Frame(p)
<1>1. /\ f \in Seq(Byte) /\ p \in Seq(Byte) /\ Len(p) \in Nat
      /\ Len(f) = Len(p) + 4
      /\ f[1] = STX /\ f[2] = STX /\ f[3] = Len(p)
      /\ \A i \in 1 .. Len(p) : f[3 + i] = p[i]
      /\ f[Len(p) + 4] = Checksum(p)
      /\ Len(f) <= BufferSize
  BY FrameParts, Sizes, Numbers
<1>2. b \o c = f \o d
  OBVIOUS
<1> HIDE DEF f
<1>3. \A i \in 1 .. Len(b) : i <= Len(f) => b[i] = f[i]
  BY <1>1, <1>2, CommonPart
<1>4. Aligned(b) = b
  <2>1. CASE Len(b) < Len(Magic)
    BY <2>1 DEF Aligned
  <2>2. CASE ~(Len(b) < Len(Magic))
    <3> DEFINE M == MagicAt(b)
               first == CHOOSE i \in M : \A j \in M : i <= j
    <3>1. b[1] = STX /\ b[2] = STX
      BY <1>1, <1>3, <2>2, Sizes
    <3>2. SubSeq(b, 1, 2) = Magic
      <4>1. 2 \in 0 .. Len(b)
        BY <2>2, Sizes
      <4>2. /\ SubSeq(b, 1, 2) \in Seq(Byte) /\ Len(SubSeq(b, 1, 2)) = 2
            /\ \A i \in 1 .. 2 : SubSeq(b, 1, 2)[i] = b[i]
        BY <4>1, BytesCut
      <4>3. /\ Magic \in Seq(Byte) /\ Len(Magic) = 2
            /\ \A i \in 1 .. 2 : Magic[i] = STX
        BY DEF Magic, STX, Byte
      <4>4. \A i \in 1 .. 2 : SubSeq(b, 1, 2)[i] = Magic[i]
        BY <3>1, <4>2, <4>3
      <4> QED BY <4>2, <4>3, <4>4, SameBytes
    <3>3. 1 \in M /\ \A j \in M : j \in Nat /\ 1 <= j
      BY <2>2, <3>2, Sizes DEF MagicAt, IsMagicAt
    <3>4. first = 1
      <4> HIDE DEF M
      <4>1. first \in M /\ \A j \in M : first <= j
        BY <3>3
      <4> QED BY <3>3, <4>1
    <3>5. Aligned(b) = SubSeq(b, first, Len(b))
      <4>1. M # {}
        BY <3>3
      <4> QED BY <2>2, <4>1, Zenon DEF Aligned
    <3>6. SubSeq(b, 1, Len(b)) = b
      BY SubSeqFull
    <3> QED BY <3>4, <3>5, <3>6
  <2> QED BY <2>1, <2>2
<1>5. HasHeader(b) => FrameLength(b) = Len(f) /\ ~TooBig(b)
  <2> SUFFICES ASSUME HasHeader(b) PROVE FrameLength(b) = Len(f) /\ ~TooBig(b)
    OBVIOUS
  <2>1. b[HeaderSize] = Len(p)
    BY <1>1, <1>3, Sizes DEF HasHeader
  <2> QED BY <1>1, <2>1, Sizes, Numbers DEF FrameLength, PayloadLength, TooBig
<1>6. IsWhole(b) <=> Len(f) <= Len(b)
  <2>1. Len(f) <= Len(b) => HasHeader(b)
    BY <1>1, Sizes DEF HasHeader
  <2> QED BY <1>5, <2>1 DEF IsWhole
<1>7. ASSUME IsWhole(b) PROVE ChecksumFits(b)
  <2>1. FrameLength(b) = Len(f) /\ Len(f) <= Len(b)
    BY <1>5, <1>6, <1>7 DEF IsWhole
  <2> DEFINE q == SubSeq(b, 4, Len(f) - 1)
  <2>2. q = p
    <3>1. q \in Seq(Byte) /\ Len(q) = Len(p)
      BY <1>1, <2>1
    <3>2. \A i \in 1 .. Len(p) : q[i] = b[3 + i]
      BY <1>1, <2>1
    <3>3. ASSUME NEW i \in 1 .. Len(p) PROVE b[3 + i] = p[i]
      <4>1. 3 + i \in 1 .. Len(b) /\ 3 + i <= Len(f)
        BY <1>1, <2>1
      <4>2. f[3 + i] = p[i]
        BY <1>1
      <4>3. b[3 + i] = f[3 + i]
        BY <1>3, <4>1
      <4> QED BY <4>2, <4>3
    <3>4. Len(q) = Len(p) /\ \A i \in 1 .. Len(q) : q[i] = p[i]
      BY <3>1, <3>2, <3>3
    <3> HIDE DEF q
    <3> QED BY <1>1, <3>1, <3>4, SameBytes
  <2>3. b[Len(f)] = Checksum(p)
    BY <1>1, <1>3, <2>1
  <2>4. SubSeq(b, HeaderSize + 1, FrameLength(b) - 1) = p
    BY <2>1, <2>2, Sizes
  <2> QED BY <2>1, <2>3, <2>4 DEF ChecksumFits
<1> QED BY <1>4, <1>5, <1>6, <1>7 DEF f

Frames == {Frame(p) : p \in Payloads}

LEMMA FramesOfBytes ==
  /\ Frames \subseteq Seq(Byte)
  /\ Seq(Frames) \subseteq Seq(Seq(Byte))
  /\ \A f \in Frames : /\ Len(f) \in Nat /\ Len(f) >= 4
                       /\ Len(f) + MaxChunk <= BufferSize
<1>1. Frames \subseteq Seq(Byte)
  BY FrameParts DEF Frames
<1>2. \A f \in Frames : Len(f) \in Nat /\ Len(f) >= 4 /\ Len(f) + MaxChunk <= BufferSize
  BY FrameParts, Sizes DEF Frames
<1>3. Seq(Frames) \subseteq Seq(Seq(Byte))
  BY <1>1
<1> QED BY <1>1, <1>2, <1>3

\* What findFrameInReceiveBuffer finds in the bytes of frames, when the first of them
\* begins where the buffer does.
LEMMA FrameFound ==
  ASSUME NEW after \in Seq(Frames), NEW b \in Seq(Byte), NEW c \in Seq(Byte),
         b \o c = FlattenSeq(after)
  PROVE  /\ Aligned(b) = b
         /\ HasHeader(b) => ~TooBig(b)
         /\ after = <<>> => b = <<>> /\ c = <<>>
         /\ after # <<>> /\ ~IsWhole(b) => Len(b) < Len(Head(after))
         /\ IsWhole(b) =>
               /\ after # <<>>
               /\ ChecksumFits(b) /\ FrameLength(b) <= CounterSize
               /\ SubSeq(b, 1, FrameLength(b)) = Head(after)
               /\ SubSeq(b, FrameLength(b) + 1, Len(b)) \o c = FlattenSeq(Tail(after))
<1>1. CASE after = <<>>
  <2>1. b = <<>> /\ c = <<>>
    <3>1. b \o c = <<>>
      BY <1>1, FlattenSeqEmpty
    <3>2. Len(b) + Len(c) = 0
      BY <3>1
    <3> QED BY <3>2
  <2>2. Aligned(b) = b
    BY <2>1, Sizes DEF Aligned
  <2>3. ~HasHeader(b)
    BY <2>1, Sizes DEF HasHeader
  <2>4. ~IsWhole(b)
    BY <2>3 DEF IsWhole
  <2> QED BY <1>1, <2>1, <2>2, <2>3, <2>4
<1>2. CASE after # <<>>
  <2> DEFINE d == FlattenSeq(Tail(after))
  <2>1. after \in Seq(Seq(Byte)) /\ Head(after) \in Frames
    BY <1>2, FramesOfBytes
  <2>2. d \in Seq(Byte) /\ b \o c = Head(after) \o d
    BY <1>2, <2>1, FlattenSeqHead
  <2> HIDE DEF d
  <2>3. PICK p \in Payloads : Head(after) = Frame(p)
    BY <2>1 DEF Frames
  <2>4. /\ Aligned(b) = b
        /\ HasHeader(b) => FrameLength(b) = Len(Frame(p)) /\ ~TooBig(b)
        /\ IsWhole(b) <=> Len(Frame(p)) <= Len(b)
        /\ IsWhole(b) => ChecksumFits(b)
    BY <2>2, <2>3, FrameInFront
  <2>5. /\ Frame(p) \in Seq(Byte) /\ Len(Frame(p)) <= CounterSize
        /\ Len(Frame(p)) \in Nat /\ Len(b) \in Nat
    BY FrameParts
  <2>6. after # <<>> /\ ~IsWhole(b) => Len(b) < Len(Head(after))
    BY <2>3, <2>4, <2>5
  <2>7. ASSUME IsWhole(b)
        PROVE  /\ FrameLength(b) = Len(Frame(p))
               /\ SubSeq(b, 1, FrameLength(b)) = Head(after)
               /\ SubSeq(b, FrameLength(b) + 1, Len(b)) \o c = d
    <3>1. FrameLength(b) = Len(Frame(p)) /\ Len(Frame(p)) <= Len(b)
      BY <2>4, <2>7 DEF IsWhole
    <3>2. /\ SubSeq(b, 1, Len(Frame(p))) = Frame(p)
          /\ SubSeq(b, Len(Frame(p)) + 1, Len(b)) \o c = d
      BY <2>2, <2>3, <2>5, <3>1, CommonPart
    <3> QED BY <2>3, <3>1, <3>2
  <2> QED BY <1>2, <2>4, <2>5, <2>6, <2>7 DEF d
<1> QED BY <1>1, <1>2

-----------------------------------------------------------------------------
(* The stream in step *)

\* In a connection that is in step, the frames after those in the queue are in the
\* buffer and then in rest, which is what is on the wire as long as it is up.
\* A buffer that waits for bytes has not got the next frame.
Follow(after, rest) ==
  /\ sent = recvQueue \o after
  /\ buffer \o rest = FlattenSeq(after)
  /\ up => rest = wire
  /\ reader = "waiting" /\ after # <<>> => Len(buffer) < Len(Head(after))

InStream ==
  /\ ~up => wire = <<>>
  /\ ~stale => /\ reader # "hangs"
               /\ \E after \in Seq(Frames), rest \in Seq(Byte) : Follow(after, rest)

LEMMA InStreamInit == Init => InStream
<1> SUFFICES ASSUME Init PROVE InStream
  OBVIOUS
<1>1. /\ wire = <<>> /\ buffer = <<>> /\ recvQueue = <<>> /\ sent = <<>>
      /\ up = TRUE /\ reader = "waiting"
  BY DEF Init
<1>2. Follow(<<>>, <<>>)
  <2>1. <<>> \o <<>> = <<>>
    OBVIOUS
  <2> QED BY <1>1, <2>1, FlattenSeqEmpty DEF Follow
<1>3. <<>> \in Seq(Frames) /\ <<>> \in Seq(Byte)
  OBVIOUS
<1> QED BY <1>1, <1>2, <1>3 DEF InStream

\* A frame more is on its way.
LEMMA InStreamSends ==
  ASSUME TypeOK, InStream, NEW p \in Payloads, DeviceSends(p)
  PROVE  InStream'
<1> DEFINE f == Frame(p)
<1>0. /\ f \in Frames /\ f \in Seq(Byte) /\ Len(f) \in Nat /\ Len(f) >= 4
      /\ <<f>> \in Seq(Seq(Byte)) /\ <<f>> \in Seq(Frames)
  BY FramesOfBytes DEF Frames
<1>1. /\ up = TRUE /\ up' = TRUE /\ wire' = wire \o f /\ buffer' = buffer
      /\ reader' = reader /\ buffer \in Seq(Byte) /\ wire \in Seq(Byte)
      /\ recvQueue \in Seq(Seq(Byte))
  BY DEF DeviceSends, TypeOK
<1>2. CASE stale /\ InStep
  <2>1. /\ wire' = f /\ buffer' = <<>> /\ reader' = "waiting" /\ sent' = <<f>>
        /\ recvQueue' = <<>>
    <3>1. <<>> \o f = f
      BY <1>0
    <3> QED BY <1>1, <1>2, <3>1 DEF DeviceSends, InStep
  <2>2. Follow(<<f>>, f)'
    <3> HIDE DEF f
    <3>1. FlattenSeq(<<f>>) = f
      <4>1. FlattenSeq(<<f>>) = Head(<<f>>) \o FlattenSeq(Tail(<<f>>))
        BY <1>0, FlattenSeqHead
      <4>2. Head(<<f>>) = f /\ Tail(<<f>>) = <<>> /\ f \o <<>> = f
        BY <1>0
      <4> QED BY <4>1, <4>2, FlattenSeqEmpty
    <3>2. <<>> \o f = f /\ <<>> \o <<f>> = <<f>> /\ Head(<<f>>) = f /\ 0 < Len(f)
      BY <1>0
    <3> QED BY <2>1, <3>1, <3>2 DEF Follow
  <2> HIDE DEF f
  <2> QED BY <1>0, <1>1, <2>1, <2>2 DEF InStream
<1>3. CASE ~(stale /\ InStep)
  <2>1. sent' = Append(sent, f) /\ stale' = stale /\ recvQueue' = recvQueue
    BY <1>3 DEF DeviceSends
  <2> SUFFICES ASSUME ~stale
               PROVE  /\ reader' # "hangs"
                      /\ \E a \in Seq(Frames), r \in Seq(Byte) : Follow(a, r)'
    BY <1>1, <2>1 DEF InStream
  <2>2. PICK after \in Seq(Frames), rest \in Seq(Byte) : Follow(after, rest)
    BY DEF InStream
  <2>3. /\ sent = recvQueue \o after /\ buffer \o rest = FlattenSeq(after)
        /\ rest = wire
        /\ reader = "waiting" /\ after # <<>> => Len(buffer) < Len(Head(after))
    BY <1>1, <2>2 DEF Follow
  <2> DEFINE a == Append(after, f)
             r == rest \o f
  <2>4. after \in Seq(Seq(Byte))
    BY FramesOfBytes
  <2> HIDE DEF f
  <2>5. a \in Seq(Frames) /\ r \in Seq(Byte)
    BY <1>0
  <2>6. sent' = recvQueue' \o a
    <3>1. Append(recvQueue \o after, f) = recvQueue \o Append(after, f)
      <4>1. GoesToSecond(recvQueue, after, f)
        BY <1>0, <1>1, <2>4, AppendToSecond, Zenon
      <4> QED BY <4>1, Zenon DEF GoesToSecond
    <3> QED BY <2>1, <2>3, <3>1
  <2>7. buffer' \o r = FlattenSeq(a)
    <3>1. FlattenSeq(a) = FlattenSeq(after) \o f
      BY <1>0, <2>4, FlattenSeqAppend
    <3>2. (buffer \o rest) \o f = buffer \o (rest \o f)
      <4>1. Associates(buffer, rest, f)
        BY <1>0, <1>1, ConcatAssociates, Zenon
      <4> QED BY <4>1, Zenon DEF Associates
    <3> QED BY <1>1, <2>3, <3>1, <3>2
  <2>8. reader' = "waiting" => Len(buffer') < Len(Head(a))
    <3>1. CASE after = <<>>
      <4>1. buffer = <<>>
        BY <1>1, <2>3, <3>1, FrameFound
      <4>2. Head(a) = f
        BY <3>1
      <4> QED BY <1>0, <1>1, <4>1, <4>2
    <3>2. CASE after # <<>>
      <4>1. Head(a) = Head(after)
        BY <1>0, <2>4, <3>2
      <4> QED BY <1>1, <2>3, <3>2, <4>1
    <3> QED BY <3>1, <3>2
  <2>9. r = wire'
    BY <1>1, <2>3
  <2> HIDE DEF a, r
  <2>10. Follow(a, r)'
    BY <2>6, <2>7, <2>8, <2>9 DEF Follow
  <2>11. reader' # "hangs"
    BY <1>1 DEF InStream
  <2> QED BY <2>5, <2>10, <2>11
<1> QED BY <1>2, <1>3

\* A chunk moves from the wire to the buffer: there is room for all of it.
LEMMA InStreamReads ==
  ASSUME TypeOK, BufferHasRoom, InStream, NEW n \in 1 .. MaxChunk, ReadChunk(n)
  PROVE  InStream'
<1>1. /\ up = TRUE /\ up' = TRUE /\ reader = "waiting" /\ n <= Len(wire)
      /\ n \in Nat /\ n >= 1 /\ n <= MaxChunk
      /\ wire \in Seq(Byte) /\ buffer \in Seq(Byte) /\ Len(buffer) < BufferSize
      /\ wire' = SubSeq(wire, n + 1, Len(wire))
      /\ UNCHANGED <<recvQueue, sent, stale>>
  BY Numbers DEF ReadChunk, TypeOK, BufferHasRoom
<1> SUFFICES ASSUME ~stale
             PROVE  /\ reader' # "hangs"
                    /\ \E a \in Seq(Frames), r \in Seq(Byte) : Follow(a, r)'
  BY <1>1 DEF InStream
<1>2. PICK after \in Seq(Frames), rest \in Seq(Byte) : Follow(after, rest)
  BY DEF InStream
<1>3. /\ sent = recvQueue \o after /\ buffer \o wire = FlattenSeq(after)
      /\ after # <<>> => Len(buffer) < Len(Head(after))
  BY <1>1, <1>2 DEF Follow
<1>4. after # <<>>
  <2> SUFFICES ASSUME after = <<>> PROVE FALSE
    OBVIOUS
  <2>1. wire = <<>>
    BY <1>1, <1>3, FrameFound
  <2> QED BY <1>1, <2>1
<1>5. Len(buffer) + n <= BufferSize
  <2>1. Head(after) \in Frames
    BY <1>4, FramesOfBytes
  <2>2. Len(Head(after)) \in Nat /\ Len(Head(after)) + MaxChunk <= BufferSize
    BY <2>1, FramesOfBytes
  <2> QED BY <1>1, <1>3, <1>4, <2>2, Numbers
<1>6. buffer' = buffer \o SubSeq(wire, 1, n) /\ reader' = "parsing"
  <2>1. BufferSize - Len(buffer) # 0 /\ n <= BufferSize - Len(buffer)
    BY <1>1, <1>5, Numbers
  <2> QED BY <2>1 DEF ReadChunk
<1>7. /\ SubSeq(wire, 1, n) \in Seq(Byte) /\ wire' \in Seq(Byte)
      /\ wire = SubSeq(wire, 1, n) \o wire'
  BY <1>1, BytesCut
<1>8. buffer' \o wire' = FlattenSeq(after)
  <2>1. (buffer \o SubSeq(wire, 1, n)) \o wire' = buffer \o (SubSeq(wire, 1, n) \o wire')
    <3>1. Associates(buffer, SubSeq(wire, 1, n), wire')
      BY <1>1, <1>7, ConcatAssociates, Zenon
    <3> QED BY <3>1, Zenon DEF Associates
  <2> QED BY <1>3, <1>6, <1>7, <2>1
<1>9. PICK r \in Seq(Byte) : r = wire'
  BY <1>7
<1>10. Follow(after, r)'
  BY <1>1, <1>3, <1>6, <1>8, <1>9 DEF Follow
<1> QED BY <1>6, <1>10

\* findFrameInReceiveBuffer and the loop around it: bytes in step are never thrown
\* away, the checksum is never counted for ever, and a whole frame is cut out.
LEMMA InStreamParses ==
  ASSUME TypeOK, InStream, NoFrameYet \/ Discard \/ Hang \/ CutFrame
  PROVE  InStream'
<1>1. UNCHANGED <<up, wire, sent, stale>>
  BY DEF NoFrameYet, Discard, Hang, CutFrame
<1> SUFFICES ASSUME ~stale
             PROVE  /\ reader' # "hangs"
                    /\ \E a \in Seq(Frames), r \in Seq(Byte) : Follow(a, r)'
  BY <1>1 DEF InStream
<1>2. PICK after \in Seq(Frames), rest \in Seq(Byte) : Follow(after, rest)
  BY DEF InStream
<1>3. /\ sent = recvQueue \o after /\ buffer \o rest = FlattenSeq(after)
      /\ up => rest = wire
  BY <1>2 DEF Follow
<1>4. buffer \in Seq(Byte) /\ recvQueue \in Seq(Seq(Byte)) /\ after \in Seq(Seq(Byte))
  BY FramesOfBytes DEF TypeOK
<1>5. /\ Aligned(buffer) = buffer
      /\ HasHeader(buffer) => ~TooBig(buffer)
      /\ after # <<>> /\ ~IsWhole(buffer) => Len(buffer) < Len(Head(after))
      /\ IsWhole(buffer) =>
            /\ after # <<>>
            /\ ChecksumFits(buffer) /\ FrameLength(buffer) <= CounterSize
            /\ SubSeq(buffer, 1, FrameLength(buffer)) = Head(after)
            /\ SubSeq(buffer, FrameLength(buffer) + 1, Len(buffer)) \o rest
                  = FlattenSeq(Tail(after))
  BY <1>3, <1>4, FrameFound
<1>6. CASE NoFrameYet
  <2>1. buffer' = buffer /\ reader' = "waiting" /\ recvQueue' = recvQueue
    BY <1>5, <1>6 DEF NoFrameYet
  <2>2. ~IsWhole(buffer)
    BY <1>5, <1>6 DEF NoFrameYet, IsWhole
  <2>3. Follow(after, rest)'
    BY <1>1, <1>3, <1>5, <2>1, <2>2 DEF Follow
  <2> QED BY <2>1, <2>3
<1>7. CASE Discard
  BY <1>5, <1>7 DEF Discard
<1>8. CASE Hang
  <2>1. IsWhole(buffer) /\ FrameLength(buffer) > CounterSize
    BY <1>5, <1>8 DEF Hang
  <2>2. FrameLength(buffer) \in Nat
    <3>1. buffer[HeaderSize] \in Byte
      BY <1>4, <2>1, Sizes DEF IsWhole, HasHeader
    <3>2. buffer[HeaderSize] \in Nat
      BY <3>1, ByteIsNat
    <3> QED BY <3>2, Sizes DEF FrameLength, PayloadLength
  <2> QED BY <1>5, <2>1, <2>2, SizeAssumption
<1>9. CASE CutFrame
  <2> DEFINE x == Head(after)
             a == Tail(after)
  <2>1. /\ IsWhole(buffer) /\ reader' = "parsing"
        /\ recvQueue' = Append(recvQueue, SubSeq(buffer, 1, FrameLength(buffer)))
        /\ buffer' = SubSeq(buffer, FrameLength(buffer) + 1, Len(buffer))
    BY <1>5, <1>9 DEF CutFrame
  <2>2. after # <<>> /\ recvQueue' = Append(recvQueue, x)
        /\ buffer' \o rest = FlattenSeq(a)
    BY <1>5, <2>1
  <2>3. a \in Seq(Frames)
    BY <2>2
  <2>4. sent' = recvQueue' \o a
    <3>1. recvQueue \o after = Append(recvQueue, x) \o a
      <4>1. GoesToFirst(recvQueue, after)
        BY <1>4, <2>2, HeadToFirst, Zenon
      <4> QED BY <4>1, Zenon DEF GoesToFirst, x, a
    <3> QED BY <1>1, <1>3, <2>2, <3>1
  <2> HIDE DEF a
  <2>5. Follow(a, rest)'
    BY <1>1, <1>3, <2>1, <2>2, <2>4 DEF Follow
  <2> QED BY <2>1, <2>3, <2>5
<1> QED BY <1>6, <1>7, <1>8, <1>9

LEMMA InStreamNext == Room /\ InStream /\ [Next]_vars => InStream'
<1> SUFFICES ASSUME Room, InStream, [Next]_vars PROVE InStream'
  OBVIOUS
<1>0. TypeOK /\ BufferHasRoom
  BY DEF Room
<1>1. ASSUME NEW p \in Payloads, DeviceSends(p) PROVE InStream'
  BY <1>0, <1>1, InStreamSends
<1>2. CASE ConnectionBreaks
  <2>1. /\ up = TRUE /\ up' = FALSE /\ wire' = <<>>
        /\ UNCHANGED <<buffer, reader, recvQueue, sent, stale>>
    BY <1>0, <1>2 DEF ConnectionBreaks, TypeOK
  <2>2. \A after, rest : Follow(after, rest) => Follow(after, rest)'
    BY <2>1 DEF Follow
  <2> QED BY <2>1, <2>2 DEF InStream
<1>3. CASE Reconnect
  <2>1. /\ up' = TRUE /\ wire' = <<>> /\ sent' = <<>> /\ recvQueue' = <<>>
        /\ reader' = "waiting" /\ buffer' = buffer /\ (~stale' => buffer = <<>>)
    BY <1>3 DEF Reconnect, InStream
  <2>2. ~stale' => Follow(<<>>, <<>>)'
    <3>1. <<>> \o <<>> = <<>>
      OBVIOUS
    <3> QED BY <2>1, <3>1, FlattenSeqEmpty DEF Follow
  <2>3. <<>> \in Seq(Frames) /\ <<>> \in Seq(Byte)
    OBVIOUS
  <2> QED BY <2>1, <2>2, <2>3 DEF InStream
<1>4. ASSUME NEW n \in 1 .. MaxChunk, ReadChunk(n) PROVE InStream'
  BY <1>0, <1>4, InStreamReads
<1>5. CASE NoFrameYet \/ Discard \/ Hang \/ CutFrame
  BY <1>0, <1>5, InStreamParses
<1>6. CASE UNCHANGED vars
  <2>1. \A after, rest : Follow(after, rest) => Follow(after, rest)'
    BY <1>6 DEF vars, Follow
  <2> QED BY <1>6, <2>1 DEF vars, InStream
<1> QED BY <1>1, <1>2, <1>3, <1>4, <1>5, <1>6 DEF Next

LEMMA InStreamAlways == Spec => [](Room /\ InStream)
<1>1. Init => Room /\ InStream
  BY RoomInit, InStreamInit
<1>2. (Room /\ InStream) /\ [Next]_vars => (Room /\ InStream)'
  BY RoomNext, InStreamNext
<1> QED BY <1>1, <1>2, PTL DEF Spec

\* Whatever the payloads are and however the stream is cut into chunks, the queue
\* holds the frames that were sent, in order, and the bytes after them are in the
\* buffer and on the wire (readCallbackFunction, findFrameInReceiveBuffer).
THEOREM FramesArriveAsSent == Spec => []FramesAreTheSent
<1>1. ASSUME Room, InStream, ~stale
      PROVE  /\ IsPrefix(recvQueue, sent)
             /\ up => (FlattenSeq(recvQueue) \o buffer) \o wire = FlattenSeq(sent)
  <2>1. PICK after \in Seq(Frames), rest \in Seq(Byte) : Follow(after, rest)
    BY <1>1 DEF InStream
  <2>2. /\ sent = recvQueue \o after /\ buffer \o rest = FlattenSeq(after)
        /\ up => rest = wire
    BY <2>1 DEF Follow
  <2>3. /\ recvQueue \in Seq(Seq(Byte)) /\ after \in Seq(Seq(Byte))
        /\ buffer \in Seq(Byte)
    BY <1>1, FramesOfBytes DEF Room, TypeOK
  <2>4. IsPrefix(recvQueue, sent)
    <3>1. Len(recvQueue) <= Len(recvQueue \o after)
      BY <2>3
    <3>2. SubSeq(recvQueue, 1, Len(recvQueue)) = SubSeq(recvQueue \o after, 1, Len(recvQueue))
      BY <2>3
    <3> QED BY <2>2, <3>1, <3>2 DEF IsPrefix
  <2>5. /\ FlattenSeq(recvQueue) \in Seq(Byte)
        /\ FlattenSeq(sent) = FlattenSeq(recvQueue) \o FlattenSeq(after)
    <3>1. /\ \A t \in Seq(Seq(Byte)) : FlattenSeq(t) \in Seq(Byte)
          /\ \A s, t \in Seq(Seq(Byte)) :
                FlattenSeq(s \o t) = FlattenSeq(s) \o FlattenSeq(t)
      BY FlattenSeqConcat
    <3> QED BY <2>2, <2>3, <3>1
  <2>6. (FlattenSeq(recvQueue) \o buffer) \o rest = FlattenSeq(sent)
    <3>1. (FlattenSeq(recvQueue) \o buffer) \o rest
             = FlattenSeq(recvQueue) \o (buffer \o rest)
      <4>1. Associates(FlattenSeq(recvQueue), buffer, rest)
        BY <2>3, <2>5, ConcatAssociates, Zenon
      <4> QED BY <4>1, Zenon DEF Associates
    <3> QED BY <2>2, <2>5, <3>1
  <2> QED BY <2>2, <2>4, <2>6
<1>2. Room /\ InStream => FramesAreTheSent
  BY <1>1, Zenon DEF FramesAreTheSent
<1> QED BY <1>2, InStreamAlways, PTL

\* A frame is pushed as soon as its last byte is read: the loop of readCallback-
\* Function goes on until there is no whole frame in the buffer.
THEOREM PushedWhenRead == Spec => []NothingIsHeldBack
<1>1. Room /\ InStream => NothingIsHeldBack
  <2> SUFFICES ASSUME Room, InStream, ~stale, up, reader = "waiting",
                      Len(recvQueue) < Len(sent)
               PROVE  Len(buffer) < Len(sent[Len(recvQueue) + 1])
    BY DEF NothingIsHeldBack
  <2>1. PICK after \in Seq(Frames), rest \in Seq(Byte) : Follow(after, rest)
    BY DEF InStream
  <2>2. /\ sent = recvQueue \o after
        /\ after # <<>> => Len(buffer) < Len(Head(after))
    BY <2>1 DEF Follow
  <2>3. recvQueue \in Seq(Seq(Byte)) /\ after \in Seq(Seq(Byte))
    BY FramesOfBytes DEF Room, TypeOK
  <2>4. after # <<>> /\ sent[Len(recvQueue) + 1] = Head(after)
    <3>1. Len(sent) = Len(recvQueue) + Len(after)
      BY <2>2, <2>3
    <3>2. Len(after) >= 1
      BY <2>3, <3>1
    <3> QED BY <2>2, <2>3, <3>2
  <2> QED BY <2>2, <2>4
<1> QED BY <1>1, InStreamAlways, PTL

\* In a connection that is in step, findFrameInReceiveBuffer never sets the number of
\* bytes received to 0, and its checksum loop always ends: both need the remains of
\* the connection before.
THEOREM NothingThrownAway == Spec => [][~stale => ~Discard /\ ~Hang]_vars
<1>1. ASSUME Room, InStream, ~stale PROVE ~Discard /\ ~Hang
  <2>1. PICK after \in Seq(Frames), rest \in Seq(Byte) : Follow(after, rest)
    BY <1>1 DEF InStream
  <2>2. buffer \in Seq(Byte) /\ buffer \o rest = FlattenSeq(after)
    BY <1>1, <2>1 DEF Room, TypeOK, Follow
  <2>3. /\ Aligned(buffer) = buffer
        /\ HasHeader(buffer) => ~TooBig(buffer)
        /\ IsWhole(buffer) => ChecksumFits(buffer) /\ FrameLength(buffer) <= CounterSize
    BY <2>2, FrameFound
  <2>4. ~Discard
    BY <2>3 DEF Discard
  <2>5. ASSUME Hang PROVE FALSE
    <3>1. IsWhole(buffer) /\ FrameLength(buffer) > CounterSize
      BY <2>3, <2>5 DEF Hang
    <3>2. FrameLength(buffer) \in Nat
      <4>1. buffer[HeaderSize] \in Byte
        BY <2>2, <3>1, Sizes DEF IsWhole, HasHeader
      <4>2. buffer[HeaderSize] \in Nat
        BY <4>1, ByteIsNat
      <4> QED BY <4>2, Sizes DEF FrameLength, PayloadLength
    <3> QED BY <2>3, <3>1, <3>2, SizeAssumption
  <2> QED BY <2>4, <2>5
<1>2. Room /\ InStream => [~stale => ~Discard /\ ~Hang]_vars
  BY <1>1, Zenon
<1> QED BY <1>2, InStreamAlways, PTL DEF Spec
=============================================================================
