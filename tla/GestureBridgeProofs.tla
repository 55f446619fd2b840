------------------------- MODULE GestureBridgeProofs -------------------------
(***************************************************************************)
(* Proofs about GestureBridge, for any queue sizes and number of frames.   *)
(*                                                                         *)
(* The frames of a stream stand in one line: those relayed, then those     *)
(* ZeroMQ holds, then those the sender has not seen yet, each younger than *)
(* the one before.  Every step moves the line along or drops frames from   *)
(* it, which keeps it a line; a skeleton message read and not published    *)
(* yet stands between the first two parts.                                 *)
(***************************************************************************)
EXTENDS GestureBridge, SequenceTheorems, TLAPS

Sorted(q) == \A i, j \in 1 .. Len(q) : i < j => q[i] < q[j]

Before(q, r) == \A i \in 1 .. Len(q), j \in 1 .. Len(r) : q[i] < r[j]

UpTo(q, n) == \A i \in 1 .. Len(q) : q[i] <= n

\* Three queues that follow each other, and the youngest frame there is.
Line(r, w, u, n) ==
    /\ Sorted(r) /\ Sorted(w) /\ Sorted(u)
    /\ Before(r, w) /\ Before(r, u) /\ Before(w, u)
    /\ UpTo(r, n) /\ UpTo(w, n) /\ UpTo(u, n)

\* x stands between the relayed frames and the others.
InHand(x, r, w, u, n) ==
    /\ \A i \in 1 .. Len(r) : r[i] < x
    /\ \A i \in 1 .. Len(w) : x < w[i]
    /\ \A i \in 1 .. Len(u) : x < u[i]
    /\ x <= n

InLine == \A s \in Streams : Line(relayed[s], wire[s], sub[s], frame)

\* What the drain of the skeleton socket has in hand.
Draining ==
    rx = "skeletons" =>
      IF latest = None
        THEN wire["skeletons"] # <<>>
        ELSE InHand(latest, relayed["skeletons"], wire["skeletons"],
                    sub["skeletons"], frame)

\* What was there when poll returned is in hand, or still to be read.
AwaitedIsAhead ==
    /\ rx = "skeletons" =>
         \/ awaited <= latest
         \/ wire["skeletons"] # <<>> /\ awaited <= LastOf(wire["skeletons"])
    /\ rx = "down" => awaited = None

Types ==
    /\ frame \in 0 .. MaxFrames
    /\ sub \in [Streams -> Seq(Frames)]
    /\ linked \in [Streams -> BOOLEAN]
    /\ wire \in [Streams -> Seq(Frames)]
    /\ rx \in {"poll", "skeletons", "gestures", "down"}
    /\ events \in SUBSET Streams
    /\ latest \in 0 .. MaxFrames
    /\ relayed \in [Streams -> Seq(Frames)]
    /\ echo \in Seq(Frames)
    /\ served \in 0 .. MaxFrames
    /\ newest \in 0 .. MaxFrames
    /\ accepted \in [Streams -> Seq(Frames)]
    /\ awaited \in 0 .. MaxFrames

Bounded ==
    /\ \A s \in Streams : Len(sub[s]) <= Depth /\ Len(wire[s]) <= HighWater
    /\ Len(echo) <= EchoDepth

USE DepthAssumption, FramesAssumption

-----------------------------------------------------------------------------
(* Queues of frames *)

\* The rest of a queue, element by element.
LEMMA TailElements ==
  ASSUME NEW q \in Seq(Frames), q # <<>>
  PROVE  /\ Tail(q) \in Seq(Frames) /\ Len(Tail(q)) = Len(q) - 1
         /\ Len(q) \in Nat \ {0}
         /\ Head(q) = q[1] /\ Head(q) \in Frames
         /\ \A i \in 1 .. Len(Tail(q)) : Tail(q)[i] = q[i + 1]
  OBVIOUS

\* A queue with one more frame, element by element.
LEMMA AppendElements ==
  ASSUME NEW q \in Seq(Frames), NEW x \in Frames
  PROVE  /\ Append(q, x) \in Seq(Frames) /\ Len(Append(q, x)) = Len(q) + 1
         /\ Len(q) \in Nat
         /\ Append(q, x)[Len(q) + 1] = x
         /\ \A i \in 1 .. Len(q) : Append(q, x)[i] = q[i]
         /\ LastOf(Append(q, x)) = x
  BY DEF LastOf

\* A queue with one more frame is not empty.
LEMMA NotEmpty ==
  ASSUME NEW q \in Seq(Frames), NEW x \in Frames
  PROVE  Append(q, x) # <<>>
  BY AppendProperties

\* Frames are numbers.
LEMMA ElementsAreNat ==
  ASSUME NEW q \in Seq(Frames)
  PROVE  Len(q) \in Nat /\ \A i \in 1 .. Len(q) : q[i] \in Nat /\ q[i] \in Frames
  BY DEF Frames

\* A frame is a number, and none of them is None.
LEMMA FramesAreNat == \A x \in Frames : x \in Nat /\ 0 < x
  BY DEF Frames

\* A queue without its first frame is still sorted and still in its place.
LEMMA SortedTail ==
  ASSUME NEW q \in Seq(Frames), q # <<>>, Sorted(q)
  PROVE  /\ Sorted(Tail(q))
         /\ \A i \in 1 .. Len(Tail(q)) : Head(q) < Tail(q)[i]
         /\ \A i \in 1 .. Len(Tail(q)) : i + 1 \in 1 .. Len(q)
  BY TailElements, ElementsAreNat DEF Sorted

\* A younger frame at the end keeps a queue sorted.
LEMMA SortedAppend ==
  ASSUME NEW q \in Seq(Frames), Sorted(q), NEW x \in Frames,
         \A i \in 1 .. Len(q) : q[i] < x
  PROVE  Sorted(Append(q, x))
<1>1. ASSUME NEW i \in 1 .. Len(q) + 1, NEW j \in 1 .. Len(q) + 1, i < j
      PROVE  Append(q, x)[i] < Append(q, x)[j]
  <2>1. i \in 1 .. Len(q)
    BY <1>1, ElementsAreNat
  <2>2. CASE j = Len(q) + 1
    BY <2>1, <2>2, AppendElements
  <2>3. CASE j \in 1 .. Len(q)
    BY <1>1, <2>1, <2>3, AppendElements DEF Sorted
  <2> QED BY <2>2, <2>3, ElementsAreNat
<1> QED BY <1>1, AppendElements DEF Sorted

\* The sender forwards the oldest frame of its queue, or ZeroMQ drops it.
LEMMA LineSend ==
  ASSUME NEW r \in Seq(Frames), NEW w \in Seq(Frames), NEW u \in Seq(Frames),
         NEW n \in Nat, Line(r, w, u, n), u # <<>>
  PROVE  /\ Line(r, w, Tail(u), n)
         /\ Line(r, Append(w, Head(u)), Tail(u), n)
<1>1. /\ Head(u) \in Frames /\ 1 \in 1 .. Len(u) /\ Head(u) = u[1]
      /\ Tail(u) \in Seq(Frames)
      /\ \A i \in 1 .. Len(Tail(u)) : Tail(u)[i] = u[i + 1] /\ i + 1 \in 1 .. Len(u)
      /\ Sorted(Tail(u)) /\ \A i \in 1 .. Len(Tail(u)) : Head(u) < Tail(u)[i]
  BY TailElements, SortedTail DEF Line
<1>2. Line(r, w, Tail(u), n)
  BY <1>1 DEF Line, Before, UpTo
<1>3. Sorted(Append(w, Head(u)))
  BY <1>1, SortedAppend DEF Line, Before
<1>4. /\ Len(Append(w, Head(u))) = Len(w) + 1
      /\ \A i \in 1 .. Len(w) + 1 :
           Append(w, Head(u))[i] = IF i = Len(w) + 1 THEN u[1] ELSE w[i]
      /\ \A i \in 1 .. Len(w) + 1 : i # Len(w) + 1 => i \in 1 .. Len(w)
  BY <1>1, AppendElements
<1>5. Before(r, Append(w, Head(u))) /\ UpTo(Append(w, Head(u)), n)
  BY <1>1, <1>4 DEF Line, Before, UpTo
<1>6. Before(Append(w, Head(u)), Tail(u))
  BY <1>1, <1>2, <1>4 DEF Line, Before
<1> QED BY <1>2, <1>3, <1>5, <1>6 DEF Line

\* A new frame joins the line, pushing out the oldest one of a full queue.
LEMMA LinePush ==
  ASSUME NEW r \in Seq(Frames), NEW w \in Seq(Frames), NEW u \in Seq(Frames),
         NEW n \in Nat, n + 1 \in Frames, Line(r, w, u, n),
         NEW d \in Nat \ {0}, Len(u) <= d
  PROVE  /\ Line(r, w, Pushed(u, n + 1, d), n + 1)
         /\ Pushed(u, n + 1, d) \in Seq(Frames)
         /\ Len(Pushed(u, n + 1, d)) <= d
<1> DEFINE Joined(q) == Append(q, n + 1)
<1>1. ASSUME NEW q \in Seq(Frames), Line(r, w, q, n)
      PROVE  Line(r, w, Joined(q), n + 1)
  <2>1. \A i \in 1 .. Len(q) : q[i] < n + 1
    BY <1>1, ElementsAreNat DEF Line, UpTo
  <2>2. Sorted(Joined(q))
    BY <1>1, <2>1, SortedAppend DEF Line
  <2>3. /\ Len(Joined(q)) = Len(q) + 1
        /\ \A i \in 1 .. Len(q) + 1 :
             Joined(q)[i] = IF i = Len(q) + 1 THEN n + 1 ELSE q[i]
        /\ \A i \in 1 .. Len(q) + 1 : i # Len(q) + 1 => i \in 1 .. Len(q)
    BY AppendElements
  <2>4. UpTo(r, n + 1) /\ UpTo(w, n + 1)
    BY <1>1, ElementsAreNat DEF Line, UpTo
  <2>5. UpTo(Joined(q), n + 1)
    BY <2>1, <2>3, ElementsAreNat DEF UpTo
  <2>6. \A i \in 1 .. Len(r) : r[i] < n + 1
    BY <1>1, ElementsAreNat DEF Line, UpTo
  <2>7. \A i \in 1 .. Len(w) : w[i] < n + 1
    BY <1>1, ElementsAreNat DEF Line, UpTo
  <2>8. Before(r, Joined(q)) /\ Before(w, Joined(q))
    BY <1>1, <2>3, <2>6, <2>7 DEF Line, Before
  <2> QED BY <1>1, <2>2, <2>4, <2>5, <2>8 DEF Line
<1>2. CASE Len(u) < d
  BY <1>1, <1>2, AppendElements DEF Pushed
<1>3. CASE ~(Len(u) < d)
  <2>1. u # <<>> /\ Len(u) = d
    BY <1>3, ElementsAreNat
  <2>2. Line(r, w, Tail(u), n) /\ Tail(u) \in Seq(Frames) /\ Len(Tail(u)) = d - 1
    BY <2>1, LineSend, TailElements
  <2>3. Pushed(u, n + 1, d) = Append(Tail(u), n + 1)
    BY <1>3 DEF Pushed
  <2>4. Line(r, w, Append(Tail(u), n + 1), n + 1)
    BY <1>1, <2>2
  <2>5. /\ Append(Tail(u), n + 1) \in Seq(Frames)
        /\ Len(Append(Tail(u), n + 1)) <= d
    BY <2>2, AppendElements
  <2> HIDE DEF Joined
  <2> QED BY <2>3, <2>4, <2>5
<1> QED BY <1>2, <1>3

\* The receiver reads the oldest frame ZeroMQ holds: it is in hand.
LEMMA LineRead ==
  ASSUME NEW r \in Seq(Frames), NEW w \in Seq(Frames), NEW u \in Seq(Frames),
         NEW n \in Nat, Line(r, w, u, n), w # <<>>
  PROVE  Line(r, Tail(w), u, n) /\ InHand(Head(w), r, Tail(w), u, n)
<1>1. /\ Head(w) \in Frames /\ 1 \in 1 .. Len(w) /\ Head(w) = w[1]
      /\ Tail(w) \in Seq(Frames)
      /\ \A i \in 1 .. Len(Tail(w)) : Tail(w)[i] = w[i + 1] /\ i + 1 \in 1 .. Len(w)
      /\ Sorted(Tail(w)) /\ \A i \in 1 .. Len(Tail(w)) : Head(w) < Tail(w)[i]
  BY TailElements, SortedTail DEF Line
<1> QED BY <1>1 DEF Line, InHand, Before, UpTo

\* The frame in hand is relayed.
LEMMA LineDeliver ==
  ASSUME NEW r \in Seq(Frames), NEW w \in Seq(Frames), NEW u \in Seq(Frames),
         NEW n \in Nat, Line(r, w, u, n), NEW x \in Frames,
         InHand(x, r, w, u, n)
  PROVE  Line(Append(r, x), w, u, n)
<1>1. Sorted(Append(r, x))
  BY SortedAppend DEF Line, InHand
<1>2. /\ Len(Append(r, x)) = Len(r) + 1
      /\ \A i \in 1 .. Len(r) + 1 :
           Append(r, x)[i] = IF i = Len(r) + 1 THEN x ELSE r[i]
      /\ \A i \in 1 .. Len(r) + 1 : i # Len(r) + 1 => i \in 1 .. Len(r)
  BY AppendElements
<1> QED BY <1>1, <1>2 DEF Line, InHand, Before, UpTo

\* What is in hand stays between when the sender forwards a frame.
LEMMA InHandSend ==
  ASSUME NEW r \in Seq(Frames), NEW w \in Seq(Frames), NEW u \in Seq(Frames),
         NEW n \in Nat, NEW x \in Frames, InHand(x, r, w, u, n), u # <<>>
  PROVE  /\ InHand(x, r, w, Tail(u), n)
         /\ InHand(x, r, Append(w, Head(u)), Tail(u), n)
<1>1. /\ Head(u) \in Frames /\ 1 \in 1 .. Len(u) /\ Head(u) = u[1]
      /\ \A i \in 1 .. Len(Tail(u)) : Tail(u)[i] = u[i + 1] /\ i + 1 \in 1 .. Len(u)
  BY TailElements
<1>2. /\ Len(Append(w, Head(u))) = Len(w) + 1
      /\ \A i \in 1 .. Len(w) + 1 :
           Append(w, Head(u))[i] = IF i = Len(w) + 1 THEN u[1] ELSE w[i]
      /\ \A i \in 1 .. Len(w) + 1 : i # Len(w) + 1 => i \in 1 .. Len(w)
  BY <1>1, AppendElements
<1> QED BY <1>1, <1>2 DEF InHand

\* What is in hand stays between when a new frame joins the line.
LEMMA InHandPush ==
  ASSUME NEW r \in Seq(Frames), NEW w \in Seq(Frames), NEW u \in Seq(Frames),
         NEW n \in Nat, n + 1 \in Frames, NEW x \in Frames,
         InHand(x, r, w, u, n), NEW d \in Nat \ {0}
  PROVE  InHand(x, r, w, Pushed(u, n + 1, d), n + 1)
<1>1. x < n + 1
  BY DEF InHand, Frames
<1>2. ASSUME NEW q \in Seq(Frames), \A i \in 1 .. Len(q) : x < q[i]
      PROVE  \A i \in 1 .. Len(Append(q, n + 1)) : x < Append(q, n + 1)[i]
  <2>1. /\ Len(Append(q, n + 1)) = Len(q) + 1
        /\ \A i \in 1 .. Len(q) + 1 :
             Append(q, n + 1)[i] = IF i = Len(q) + 1 THEN n + 1 ELSE q[i]
        /\ \A i \in 1 .. Len(q) + 1 : i # Len(q) + 1 => i \in 1 .. Len(q)
    BY AppendElements
  <2> QED BY <1>1, <1>2, <2>1
<1>3. \A i \in 1 .. Len(Pushed(u, n + 1, d)) : x < Pushed(u, n + 1, d)[i]
  <2>1. CASE Len(u) < d
    BY <1>2, <2>1 DEF Pushed, InHand
  <2>2. CASE ~(Len(u) < d)
    <3>1. u # <<>>
      BY <2>2
    <3>2. InHand(x, r, w, Tail(u), n) /\ Tail(u) \in Seq(Frames)
      BY <3>1, InHandSend, TailElements
    <3> QED BY <1>2, <2>2, <3>2 DEF Pushed, InHand
  <2> QED BY <2>1, <2>2
<1> QED BY <1>1, <1>3 DEF InHand, Frames

\* The last frame of a queue.
LEMMA LastOfQueue ==
  ASSUME NEW q \in Seq(Frames)
  PROVE  /\ LastOf(q) \in 0 .. MaxFrames
         /\ q = <<>> => LastOf(q) = None
         /\ q # <<>> => /\ LastOf(q) \in Frames /\ Len(q) \in 1 .. Len(q)
                        /\ LastOf(q) = q[Len(q)]
                        /\ LastOf(q) = IF Tail(q) = <<>> THEN Head(q)
                                                         ELSE LastOf(Tail(q))
<1>1. Len(q) \in Nat /\ (q # <<>> => Len(q) \in 1 .. Len(q))
  BY ElementsAreNat
<1>2. q # <<>> => LastOf(q) \in Frames
  BY <1>1, ElementsAreNat DEF LastOf
<1>3. ASSUME q # <<>>
      PROVE  LastOf(q) = IF Tail(q) = <<>> THEN Head(q) ELSE LastOf(Tail(q))
  <2>1. /\ Tail(q) \in Seq(Frames) /\ Len(Tail(q)) = Len(q) - 1
        /\ Len(q) \in Nat \ {0} /\ Head(q) = q[1]
        /\ \A i \in 1 .. Len(Tail(q)) : Tail(q)[i] = q[i + 1]
    BY <1>3, TailElements
  <2>2. Tail(q) = <<>> <=> Len(Tail(q)) = 0
    BY <2>1, EmptySeq
  <2>3. CASE Tail(q) = <<>>
    <3>1. Len(q) = 1
      BY <2>1, <2>2, <2>3
    <3> QED BY <1>3, <2>1, <2>3, <3>1 DEF LastOf
  <2>4. CASE Tail(q) # <<>>
    <3>1. Len(q) - 1 \in 1 .. Len(Tail(q))
      BY <2>1, <2>4, ElementsAreNat
    <3>2. Tail(q)[Len(q) - 1] = q[Len(q)]
      BY <2>1, <3>1
    <3> QED BY <1>3, <2>1, <2>4, <3>2 DEF LastOf
  <2> QED BY <2>3, <2>4
<1>4. LastOf(q) \in 0 .. MaxFrames
  BY <1>2 DEF LastOf, None, Frames
<1>5. q = <<>> => LastOf(q) = None
  BY DEF LastOf
<1>6. q # <<>> => LastOf(q) = q[Len(q)]
  BY DEF LastOf
<1> QED BY <1>1, <1>2, <1>3, <1>4, <1>5, <1>6

\* Moving a frame from one queue to the queue before it keeps the whole line.
LEMMA MoveAlong ==
  ASSUME NEW r \in Seq(Frames), NEW w \in Seq(Frames), NEW x \in Frames
  PROVE  /\ r \o Append(w, x) = Append(r \o w, x)
         /\ w # <<>> => Append(r, Head(w)) \o Tail(w) = r \o w
         /\ r \o <<>> = r
<1>1. /\ Append(w, x) = w \o <<x>>
      /\ Append(r \o w, x) = (r \o w) \o <<x>>
      /\ <<x>> \in Seq(Frames) /\ r \o w \in Seq(Frames)
  BY AppendIsConcat, ConcatProperties
<1>2. r \o Append(w, x) = Append(r \o w, x)
  BY <1>1, ConcatAssociative
<1>3. ASSUME w # <<>>
      PROVE  Append(r, Head(w)) \o Tail(w) = r \o w
  <2> DEFINE h == <<Head(w)>>
             t == Tail(w)
  <2>1. Head(w) \in Frames /\ t \in Seq(Frames) /\ h \in Seq(Frames)
    BY <1>3, TailElements
  <2>2. Append(r, Head(w)) = r \o h
    BY <2>1, AppendIsConcat
  <2>3. h \o t = w
    BY <1>3
  <2>4. (r \o h) \o t = r \o (h \o t)
    <3> HIDE DEF h, t
    <3> QED BY <2>1, ConcatAssociative
  <2> QED BY <2>2, <2>3, <2>4
<1> QED BY <1>2, <1>3, ConcatEmptySeq

-----------------------------------------------------------------------------
(* The types, and the bounds of the queues *)

\* A full queue gives up a frame, so that a push keeps it within its bound.
LEMMA PushedQueue ==
  ASSUME NEW q \in Seq(Frames), NEW f \in Frames, NEW d \in Nat \ {0},
         Len(q) <= d
  PROVE  Pushed(q, f, d) \in Seq(Frames) /\ Len(Pushed(q, f, d)) <= d
<1>1. CASE Len(q) < d
  BY <1>1, AppendElements DEF Pushed
<1>2. CASE ~(Len(q) < d)
  <2>1. q # <<>> /\ Len(q) = d
    BY <1>2, ElementsAreNat
  <2>2. Tail(q) \in Seq(Frames) /\ Len(Tail(q)) = d - 1
    BY <2>1, TailElements
  <2>3. Append(Tail(q), f) \in Seq(Frames) /\ Len(Append(Tail(q), f)) <= d
    BY <2>2, AppendElements
  <2> QED BY <1>2, <2>3 DEF Pushed
<1> QED BY <1>1, <1>2

\* Every step keeps the types and the bounds.
LEMMA TypesKept ==
  ASSUME Types, Bounded, [Next]_vars
  PROVE  Types' /\ Bounded'
<1> USE DEF Types, Bounded
<1>1. CASE Perceive
  <2>1. frame + 1 \in Frames /\ frame + 1 \in 0 .. MaxFrames
    BY <1>1 DEF Perceive, Frames
  <2>2. \A s \in Streams : /\ Pushed(sub[s], frame + 1, Depth) \in Seq(Frames)
                           /\ Len(Pushed(sub[s], frame + 1, Depth)) <= Depth
    BY <2>1, PushedQueue
  <2>3. sub' = [s \in Streams |-> Pushed(sub[s], frame + 1, Depth)]
    BY <1>1 DEF Perceive
  <2>4. sub' \in [Streams -> Seq(Frames)] /\ \A s \in Streams : Len(sub'[s]) <= Depth
    BY <2>2, <2>3
  <2> QED BY <1>1, <2>1, <2>4 DEF Perceive, loopVars, zoneVars
<1>2. ASSUME NEW s \in Streams, Send(s)
      PROVE  Types' /\ Bounded'
  <2>1. /\ sub[s] # <<>> /\ sub[s] \in Seq(Frames) /\ wire[s] \in Seq(Frames)
        /\ accepted[s] \in Seq(Frames)
    BY <1>2 DEF Send
  <2>2. /\ Tail(sub[s]) \in Seq(Frames) /\ Len(Tail(sub[s])) = Len(sub[s]) - 1
        /\ Len(sub[s]) \in Nat /\ Head(sub[s]) \in Frames
    BY <2>1, TailElements
  <2>3. /\ Append(wire[s], Head(sub[s])) \in Seq(Frames)
        /\ Len(Append(wire[s], Head(sub[s]))) = Len(wire[s]) + 1
        /\ Append(accepted[s], Head(sub[s])) \in Seq(Frames)
        /\ Len(wire[s]) \in Nat
    BY <2>1, <2>2, AppendElements
  <2>4. /\ sub' = [sub EXCEPT ![s] = Tail(sub[s])]
        /\ wire' = IF Takes(s) THEN [wire EXCEPT ![s] = Append(wire[s], Head(sub[s]))]
                               ELSE wire
        /\ accepted' = IF Takes(s)
                         THEN [accepted EXCEPT ![s] = Append(accepted[s], Head(sub[s]))]
                         ELSE accepted
    BY <1>2 DEF Send
  <2>5. /\ sub' \in [Streams -> Seq(Frames)]
        /\ \A t \in Streams : Len(sub'[t]) <= Depth
    BY <2>2, <2>4
  <2>6. accepted' \in [Streams -> Seq(Frames)]
    BY <2>3, <2>4
  <2>7. /\ wire' \in [Streams -> Seq(Frames)]
        /\ \A t \in Streams : Len(wire'[t]) <= HighWater
    BY <2>3, <2>4 DEF Takes
  <2> QED BY <1>2, <2>5, <2>6, <2>7
          DEF Send, loopVars, zoneVars
<1>3. ASSUME NEW s \in Streams, Link(s)
      PROVE  Types' /\ Bounded'
  BY <1>3 DEF Link, loopVars, zoneVars
<1>4. CASE Poll
  <2>1. awaited' \in 0 .. MaxFrames
    BY <1>4, LastOfQueue DEF Poll, Streams
  <2>2. /\ events' \in SUBSET Streams /\ latest' \in 0 .. MaxFrames
        /\ rx' \in {"skeletons", "gestures"}
    BY <1>4 DEF Poll, Readable, None
  <2>3. UNCHANGED <<frame, linkVars, relayed, zoneVars>>
    BY <1>4 DEF Poll
  <2> QED BY <2>1, <2>2, <2>3 DEF linkVars, zoneVars
<1>5. CASE ReadSkeletons
  <2>1. wire["skeletons"] \in Seq(Frames) /\ wire["skeletons"] # <<>>
    BY <1>5 DEF ReadSkeletons, Streams
  <2>2. /\ Tail(wire["skeletons"]) \in Seq(Frames) /\ Head(wire["skeletons"]) \in Frames
        /\ Len(Tail(wire["skeletons"])) = Len(wire["skeletons"]) - 1
        /\ Len(wire["skeletons"]) \in Nat
    BY <2>1, TailElements
  <2>3. /\ wire' \in [Streams -> Seq(Frames)]
        /\ \A t \in Streams : Len(wire'[t]) <= HighWater
    BY <1>5, <2>2 DEF ReadSkeletons, Streams
  <2>4. latest' \in 0 .. MaxFrames
    BY <1>5, <2>2 DEF ReadSkeletons, Frames
  <2> QED BY <1>5, <2>3, <2>4 DEF ReadSkeletons, zoneVars
<1>6. CASE PublishSkeletons
  <2>1. ASSUME latest # None
        PROVE  Append(relayed["skeletons"], latest) \in Seq(Frames)
    <3>1. latest \in Frames /\ relayed["skeletons"] \in Seq(Frames)
      BY <2>1 DEF Frames, None, Streams
    <3> QED BY <3>1, AppendElements
  <2>2. relayed' \in [Streams -> Seq(Frames)]
    BY <1>6, <2>1 DEF PublishSkeletons
  <2> QED BY <1>6, <2>2 DEF PublishSkeletons, linkVars, zoneVars
<1>7. CASE ServeGesture
  <2>1. /\ wire["gestures"] \in Seq(Frames) /\ wire["gestures"] # <<>>
        /\ relayed["gestures"] \in Seq(Frames)
    BY <1>7 DEF ServeGesture, Streams
  <2>2. /\ Tail(wire["gestures"]) \in Seq(Frames) /\ Head(wire["gestures"]) \in Frames
        /\ Len(Tail(wire["gestures"])) = Len(wire["gestures"]) - 1
        /\ Len(wire["gestures"]) \in Nat
    BY <2>1, TailElements
  <2>3. wire' = [wire EXCEPT !["gestures"] = Tail(wire["gestures"])]
    BY <1>7 DEF ServeGesture, Unread
  <2>4. /\ wire' \in [Streams -> Seq(Frames)]
        /\ \A t \in Streams : Len(wire'[t]) <= HighWater
    BY <2>2, <2>3 DEF Streams
  <2>5. relayed' \in [Streams -> Seq(Frames)]
    BY <1>7, <2>1, <2>2 DEF ServeGesture, Read
  <2>6. echo' \in Seq(Frames) /\ Len(echo') <= EchoDepth
    BY <1>7, <2>2, PushedQueue DEF ServeGesture, Read
  <2>7. newest' \in 0 .. MaxFrames
    BY <1>7, <2>2 DEF ServeGesture, Read, Frames
  <2> QED BY <1>7, <2>4, <2>5, <2>6, <2>7 DEF ServeGesture
<1>8. CASE GesturesServed
  BY <1>8 DEF GesturesServed, linkVars, zoneVars
<1>9. ASSUME echo # <<>>, echo' = Tail(echo)
      PROVE  echo' \in Seq(Frames) /\ Len(echo') <= EchoDepth /\ Head(echo) \in Frames
  <2>1. /\ Tail(echo) \in Seq(Frames) /\ Len(Tail(echo)) = Len(echo) - 1
        /\ Len(echo) \in Nat /\ Head(echo) \in Frames
    BY <1>9, TailElements
  <2> QED BY <1>9, <2>1
<1>10. CASE GestureCallback
  <2>1. served' \in 0 .. MaxFrames
    BY <1>9, <1>10 DEF GestureCallback, Frames
  <2> QED BY <1>9, <1>10, <2>1 DEF GestureCallback, linkVars, loopVars
<1>11. CASE ReceiverDies
  <2>1. /\ wire' \in [Streams -> Seq(Frames)] /\ echo' \in Seq(Frames)
        /\ \A t \in Streams : Len(wire'[t]) <= HighWater
        /\ Len(echo') <= EchoDepth
    BY <1>11 DEF ReceiverDies
  <2> QED BY <1>11, <2>1 DEF ReceiverDies, None, zoneVars
<1>12. CASE Respawn
  BY <1>12 DEF Respawn, linkVars, zoneVars
<1>13. CASE UNCHANGED vars
  BY <1>13 DEF vars, linkVars, loopVars, zoneVars
<1> QED BY <1>1, <1>2, <1>3, <1>4, <1>5, <1>6, <1>7, <1>8, <1>10,
           <1>11, <1>12, <1>13 DEF Next, LoopStep

-----------------------------------------------------------------------------
(* The line *)

\* Nobody is out of place, and what is in hand has its place too.
LineInv == Types /\ Bounded /\ InLine /\ Draining

\* Every step keeps the line of each stream.
LEMMA InLineKept ==
  ASSUME LineInv, [Next]_vars, Types'
  PROVE  InLine'
<1> USE DEF LineInv, Types, InLine
<1>0. /\ frame \in Nat /\ "skeletons" \in Streams /\ "gestures" \in Streams
      /\ \A s \in Streams : /\ relayed[s] \in Seq(Frames) /\ wire[s] \in Seq(Frames)
                            /\ sub[s] \in Seq(Frames)
                            /\ Line(relayed[s], wire[s], sub[s], frame)
  BY DEF Streams
<1>1. CASE Perceive
  <2>1. frame + 1 \in Frames /\ frame \in Nat
    BY <1>1 DEF Perceive, Frames
  <2>2. \A s \in Streams :
          Line(relayed[s], wire[s], Pushed(sub[s], frame + 1, Depth), frame + 1)
    BY <2>1, LinePush DEF Bounded
  <2> QED BY <1>1, <2>2 DEF Perceive, loopVars
<1>2. ASSUME NEW s \in Streams, Send(s)
      PROVE  InLine'
  <2>1. /\ sub[s] # <<>> /\ sub' = [sub EXCEPT ![s] = Tail(sub[s])]
        /\ wire' \in {wire, [wire EXCEPT ![s] = Append(wire[s], Head(sub[s]))]}
        /\ frame' = frame /\ relayed' = relayed
    BY <1>2 DEF Send, loopVars
  <2>2. /\ Line(relayed[s], wire[s], Tail(sub[s]), frame)
        /\ Line(relayed[s], Append(wire[s], Head(sub[s])), Tail(sub[s]), frame)
    BY <2>1, LineSend
  <2> QED BY <2>1, <2>2
<1>3. CASE ReadSkeletons
  <2>1. /\ wire["skeletons"] # <<>>
        /\ wire' = [wire EXCEPT !["skeletons"] = Tail(wire["skeletons"])]
        /\ UNCHANGED <<frame, relayed, sub>>
    BY <1>3 DEF ReadSkeletons
  <2>2. Line(relayed["skeletons"], Tail(wire["skeletons"]), sub["skeletons"], frame)
    BY <1>0, <2>1, LineRead
  <2> QED BY <2>1, <2>2 DEF Streams
<1>4. CASE PublishSkeletons
  <2>1. CASE latest = None
    BY <1>4, <2>1 DEF PublishSkeletons, linkVars
  <2>2. CASE latest # None
    <3>1. latest \in Frames /\ rx = "skeletons"
      BY <1>4, <2>2 DEF PublishSkeletons, Frames, None
    <3>2. InHand(latest, relayed["skeletons"], wire["skeletons"],
                 sub["skeletons"], frame)
      BY <2>2, <3>1 DEF Draining
    <3>3. Line(Append(relayed["skeletons"], latest), wire["skeletons"],
               sub["skeletons"], frame)
      BY <1>0, <3>1, <3>2, LineDeliver
    <3>4. \A s \in Streams :
            relayed'[s] = IF s = "skeletons" THEN Append(relayed[s], latest)
                                             ELSE relayed[s]
      BY <1>4, <2>2 DEF PublishSkeletons
    <3>5. UNCHANGED <<frame, wire, sub>>
      BY <1>4 DEF PublishSkeletons, linkVars
    <3> QED BY <3>3, <3>4, <3>5
  <2> QED BY <2>1, <2>2
<1>5. CASE ServeGesture
  <2> DEFINE x == Head(wire["gestures"])
  <2>1. /\ wire["gestures"] # <<>>
        /\ \A s \in Streams :
             /\ wire'[s] = IF s = "gestures" THEN Tail(wire[s]) ELSE wire[s]
             /\ relayed'[s] = IF s = "gestures" THEN Append(relayed[s], x)
                                                ELSE relayed[s]
        /\ UNCHANGED <<frame, sub>>
    BY <1>5 DEF ServeGesture, Read, Unread
  <2>2. /\ Line(relayed["gestures"], Tail(wire["gestures"]), sub["gestures"], frame)
        /\ InHand(x, relayed["gestures"], Tail(wire["gestures"]), sub["gestures"], frame)
    BY <1>0, <2>1, LineRead
  <2>3. x \in Frames /\ Tail(wire["gestures"]) \in Seq(Frames)
    BY <1>0, <2>1, TailElements
  <2> HIDE DEF x
  <2>4. Line(Append(relayed["gestures"], x), Tail(wire["gestures"]), sub["gestures"], frame)
    BY <1>0, <2>2, <2>3, LineDeliver
  <2> QED BY <2>1, <2>4
<1>6. CASE ReceiverDies
  <2>1. \A s \in Streams : wire'[s] = <<>>
    BY <1>6 DEF ReceiverDies
  <2>2. UNCHANGED <<relayed, sub, frame>>
    BY <1>6 DEF ReceiverDies
  <2>3. ASSUME NEW r, NEW u, NEW n, NEW w, Line(r, w, u, n)
        PROVE  Line(r, <<>>, u, n)
    <3>1. 1 .. Len(<<>>) = {}
      BY EmptySeq
    <3> QED BY <2>3, <3>1 DEF Line, Sorted, Before, UpTo
  <2> QED BY <2>1, <2>2, <2>3
<1>7. ASSUME UNCHANGED <<frame, relayed, wire, sub>>
      PROVE  InLine'
  BY <1>7
<1>8. \/ Perceive
      \/ \E s \in Streams : Send(s)
      \/ ReadSkeletons \/ PublishSkeletons \/ ServeGesture \/ ReceiverDies
      \/ UNCHANGED <<frame, relayed, wire, sub>>
  BY DEF Next, LoopStep, Link, Poll, GesturesServed, GestureCallback, Respawn, vars, linkVars, loopVars
<1> QED BY <1>1, <1>2, <1>3, <1>4, <1>5, <1>6, <1>7, <1>8

\* Every step keeps what the drain has in hand in its place.
LEMMA DrainingKept ==
  ASSUME LineInv, [Next]_vars, Types'
  PROVE  Draining'
<1> USE DEF LineInv, Types, Draining
<1> DEFINE r == relayed["skeletons"]
           w == wire["skeletons"]
           u == sub["skeletons"]
<1>0. /\ r \in Seq(Frames) /\ w \in Seq(Frames) /\ u \in Seq(Frames)
      /\ frame \in Nat /\ (latest # None => latest \in Frames)
      /\ Line(r, w, u, frame)
  BY DEF Streams, Frames, None, InLine
<1>1. CASE Perceive
  <2>1. frame + 1 \in Frames
    BY <1>1 DEF Perceive, Frames
  <2>2. /\ sub'["skeletons"] = Pushed(u, frame + 1, Depth) /\ frame' = frame + 1
        /\ UNCHANGED <<rx, latest, relayed, wire>>
    BY <1>1 DEF Perceive, loopVars, Streams
  <2>3. latest # None /\ rx = "skeletons" =>
          InHand(latest, r, w, Pushed(u, frame + 1, Depth), frame + 1)
    BY <1>0, <2>1, InHandPush
  <2> QED BY <2>2, <2>3
<1>2. ASSUME NEW s \in Streams, Send(s)
      PROVE  Draining'
  <2>1. /\ sub[s] # <<>> /\ sub' = [sub EXCEPT ![s] = Tail(sub[s])]
        /\ wire' \in {wire, [wire EXCEPT ![s] = Append(wire[s], Head(sub[s]))]}
        /\ UNCHANGED <<frame, relayed, rx, latest>>
    BY <1>2 DEF Send, loopVars
  <2>2. CASE s # "skeletons"
    <3>1. sub'["skeletons"] = u /\ wire'["skeletons"] = w
      BY <2>1, <2>2 DEF Streams
    <3> QED BY <2>1, <3>1
  <2>3. CASE s = "skeletons"
    <3>1. CASE latest # None /\ rx = "skeletons"
      <4>1. /\ InHand(latest, r, w, Tail(u), frame)
            /\ InHand(latest, r, Append(w, Head(u)), Tail(u), frame)
        BY <1>0, <2>1, <2>3, <3>1, InHandSend
      <4> QED BY <2>1, <2>3, <3>1, <4>1 DEF Streams
    <3>2. CASE latest = None /\ rx = "skeletons"
      <4>1. Head(u) \in Frames
        BY <1>0, <2>1, <2>3, TailElements
      <4>2. Append(w, Head(u)) # <<>>
        BY <1>0, <4>1, NotEmpty
      <4>3. wire'["skeletons"] \in {w, Append(w, Head(u))}
        BY <2>1, <2>3 DEF Streams
      <4> QED BY <1>0, <2>1, <3>2, <4>2, <4>3
    <3> QED BY <2>1, <3>1, <3>2
  <2> QED BY <2>2, <2>3
<1>3. CASE Poll
  BY <1>3 DEF Poll, Readable, Streams, linkVars
<1>4. CASE ReadSkeletons
  <2>1. /\ w # <<>> /\ latest' = Head(w) /\ wire'["skeletons"] = Tail(w)
        /\ UNCHANGED <<frame, relayed, sub, rx>>
    BY <1>4 DEF ReadSkeletons, Streams
  <2>2. InHand(Head(w), r, Tail(w), u, frame)
    BY <1>0, <2>1, LineRead
  <2>3. Head(w) \in Frames
    BY <1>0, <2>1, TailElements
  <2>4. None \notin Frames
    BY DEF Frames, None
  <2> QED BY <2>1, <2>2, <2>3, <2>4
<1>5. ASSUME rx' \notin {"skeletons"}
      PROVE  Draining'
  BY <1>5
<1>6. ASSUME rx' = rx, latest' = latest, frame' = frame, relayed' = relayed,
             wire' = wire, sub' = sub
      PROVE  Draining'
  BY <1>6
<1>7. \/ Perceive
      \/ \E s \in Streams : Send(s)
      \/ Poll \/ ReadSkeletons \/ rx' \notin {"skeletons"}
      \/ UNCHANGED <<rx, latest, frame, relayed, wire, sub>>
  BY DEF Next, LoopStep, Link, PublishSkeletons, ServeGesture, GesturesServed,
         GestureCallback, ReceiverDies,
         Respawn, vars, linkVars, loopVars
<1> QED BY <1>1, <1>2, <1>3, <1>4, <1>5, <1>6, <1>7

-----------------------------------------------------------------------------
(* What the loop owes *)

\* What the drain owes: nothing that was there when poll returned is left behind.
Owed == AwaitedIsAhead /\ NoDelayBuildsUp

\* Every step keeps what is owed ahead of the drain, until RViz has got it.
LEMMA OwedKept ==
  ASSUME LineInv, Owed, [Next]_vars, Types'
  PROVE  Owed'
<1> USE DEF Owed, AwaitedIsAhead, NoDelayBuildsUp
<1> DEFINE r == relayed["skeletons"]
           w == wire["skeletons"]
           u == sub["skeletons"]
<1>0. /\ r \in Seq(Frames) /\ w \in Seq(Frames) /\ u \in Seq(Frames)
      /\ frame \in Nat /\ awaited \in Nat /\ latest \in Nat
      /\ LastOf(r) \in Nat /\ LastOf(w) \in Nat /\ (latest # None => latest \in Frames)
      /\ Line(r, w, u, frame)
  <2>1. r \in Seq(Frames) /\ w \in Seq(Frames) /\ u \in Seq(Frames)
    BY DEF LineInv, Types, Streams
  <2>2. LastOf(r) \in Nat /\ LastOf(w) \in Nat
    BY <2>1, LastOfQueue
  <2> QED BY <2>1, <2>2 DEF LineInv, Types, InLine, Streams, Frames, None
<1>1. ASSUME NEW s \in Streams, Send(s)
      PROVE  Owed'
  <2>1. /\ sub[s] # <<>>
        /\ wire' \in {wire, [wire EXCEPT ![s] = Append(wire[s], Head(sub[s]))]}
        /\ UNCHANGED <<relayed, rx, latest, awaited>>
    BY <1>1 DEF Send, loopVars
  <2>2. CASE wire'["skeletons"] = w
    BY <2>1, <2>2
  <2>3. CASE wire'["skeletons"] # w
    <3>1. s = "skeletons" /\ u # <<>> /\ wire'["skeletons"] = Append(w, Head(u))
      BY <2>1, <2>3 DEF Streams, LineInv, Types
    <3>2. Head(u) \in Frames /\ Head(u) = u[1] /\ 1 \in 1 .. Len(u)
      BY <1>0, <3>1, TailElements
    <3>3. LastOf(wire'["skeletons"]) = Head(u) /\ wire'["skeletons"] # <<>>
      <4> DEFINE x == Head(u)
      <4>1. x \in Frames /\ wire'["skeletons"] = Append(w, x)
        BY <3>1, <3>2
      <4> HIDE DEF x, w
      <4>2. LastOf(Append(w, x)) = x /\ Append(w, x) # <<>>
        BY <1>0, <4>1, AppendElements, NotEmpty
      <4>3. LastOf(wire'["skeletons"]) = x /\ wire'["skeletons"] # <<>>
        BY <4>1, <4>2
      <4> QED BY <4>3 DEF x
    <3>4. ASSUME w # <<>>
          PROVE  LastOf(w) < Head(u)
      <4>1. LastOf(w) = w[Len(w)] /\ Len(w) \in 1 .. Len(w)
        BY <1>0, <3>4, LastOfQueue
      <4> QED BY <1>0, <3>2, <4>1 DEF Line, Before
    <3>5. Head(u) \in Nat
      BY <3>2, FramesAreNat
    <3> QED BY <1>0, <2>1, <3>3, <3>4, <3>5
  <2> QED BY <2>2, <2>3
<1>2. CASE Poll
  <2>1. /\ rx' \in {"skeletons", "gestures"} /\ relayed' = relayed
        /\ wire' = wire /\ awaited' = LastOf(w)
        /\ w # <<>> <=> rx' = "skeletons"
    BY <1>2 DEF Poll, Readable, Streams, linkVars
  <2>2. w = <<>> => LastOf(w) = 0
    BY DEF LastOf, None
  <2> QED BY <1>0, <2>1, <2>2
<1>3. CASE ReadSkeletons
  <2>1. /\ rx = "skeletons" /\ w # <<>> /\ latest' = Head(w)
        /\ wire'["skeletons"] = Tail(w)
        /\ UNCHANGED <<relayed, rx, awaited>>
    BY <1>3 DEF ReadSkeletons, Streams, LineInv, Types
  <2>2. /\ LastOf(w) = IF Tail(w) = <<>> THEN Head(w) ELSE LastOf(Tail(w))
        /\ Head(w) \in Frames /\ Head(w) = w[1] /\ 1 \in 1 .. Len(w)
    <3> HIDE DEF w
    <3>1. w \in Seq(Frames) /\ w # <<>>
      BY <1>0, <2>1
    <3>2. LastOf(w) = IF Tail(w) = <<>> THEN Head(w) ELSE LastOf(Tail(w))
      BY <3>1, LastOfQueue
    <3>3. Head(w) \in Frames /\ Head(w) = w[1] /\ Len(w) \in Nat \ {0}
      BY <3>1, TailElements
    <3> QED BY <3>2, <3>3
  <2>3. latest <= Head(w)
    <3>1. CASE latest = None
      BY <2>2, <3>1, FramesAreNat DEF None
    <3>2. CASE latest # None
      <4>1. InHand(latest, r, w, u, frame)
        BY <2>1, <3>2 DEF LineInv, Draining
      <4> QED BY <1>0, <2>2, <4>1, FramesAreNat DEF InHand
    <3> QED BY <3>1, <3>2
  <2>4. Head(w) \in Nat
    BY <2>2, FramesAreNat
  <2>5. \/ awaited <= Head(w)
        \/ Tail(w) # <<>> /\ awaited <= LastOf(Tail(w))
    <3>1. \/ awaited <= latest
          \/ awaited <= LastOf(w)
      BY <1>0, <2>1
    <3>2. awaited \in Nat /\ latest \in Nat
      BY <1>0
    <3>3. CASE awaited <= latest
      <4> HIDE DEF w, r, u
      <4> QED BY <2>3, <2>4, <3>2, <3>3, SMT
    <3>4. CASE awaited <= LastOf(w)
      <4>1. CASE Tail(w) = <<>>
        <5>1. LastOf(w) = Head(w)
          BY <2>2, <4>1
        <5> QED BY <3>4, <5>1
      <4>2. CASE Tail(w) # <<>>
        <5>1. LastOf(w) = LastOf(Tail(w))
          BY <2>2, <4>2
        <5> QED BY <3>4, <4>2, <5>1
      <4> QED BY <4>1, <4>2
    <3> QED BY <3>1, <3>3, <3>4
  <2> QED BY <2>1, <2>5
<1>4. CASE PublishSkeletons
  <2>1. rx = "skeletons" /\ w = <<>> /\ rx' = "gestures" /\ awaited' = awaited
    BY <1>4 DEF PublishSkeletons, Drained
  <2>2. latest # None /\ latest \in Frames /\ awaited <= latest
    BY <1>0, <2>1 DEF LineInv, Draining
  <2>3. relayed'["skeletons"] = Append(r, latest)
    BY <1>4, <2>2 DEF PublishSkeletons, Streams, LineInv, Types
  <2>4. LastOf(relayed'["skeletons"]) = latest
    BY <1>0, <2>2, <2>3, AppendElements
  <2> QED BY <2>1, <2>2, <2>4
<1>5. CASE ReceiverDies
  BY <1>5 DEF ReceiverDies
<1>6. CASE Respawn
  BY <1>0, <1>6 DEF Respawn, None, linkVars
<1>7. ASSUME rx = "gestures", rx' \in {"gestures", "poll"}, awaited' = awaited,
             relayed'["skeletons"] = r
      PROVE  Owed'
  BY <1>7
<1>8. ASSUME UNCHANGED <<rx, latest, awaited>>,
             relayed'["skeletons"] = r, wire'["skeletons"] = w
      PROVE  Owed'
  BY <1>8
<1>9. CASE ServeGesture
  <2>1. /\ rx = "gestures" /\ UNCHANGED <<rx, awaited>>
        /\ relayed'["skeletons"] = r
    BY <1>9 DEF ServeGesture, Streams, LineInv, Types
  <2> QED BY <1>7, <2>1
<1>10. CASE GesturesServed
  BY <1>7, <1>10 DEF GesturesServed
<1>11. \/ \E s \in Streams : Send(s)
       \/ Poll \/ ReadSkeletons \/ PublishSkeletons \/ ReceiverDies \/ Respawn
       \/ ServeGesture \/ GesturesServed
       \/ UNCHANGED <<rx, latest, awaited, relayed, wire>>
  BY DEF Next, LoopStep, Perceive, Link, GestureCallback, vars, linkVars, loopVars
<1> QED BY <1>1, <1>2, <1>3, <1>4, <1>5, <1>6, <1>8, <1>9, <1>10, <1>11

\* Every step of the gestures moves a frame along, or loses all with a receiver.
LEMMA NothingSkippedKept ==
  ASSUME Types, NothingSkipped, [Next]_vars
  PROVE  NothingSkipped'
<1> USE DEF NothingSkipped
<1> DEFINE r == relayed["gestures"]
           w == wire["gestures"]
           u == sub["gestures"]
<1>0. r \in Seq(Frames) /\ w \in Seq(Frames) /\ u \in Seq(Frames)
  BY DEF Types, Streams
<1>1. ASSUME NEW s \in Streams, Send(s)
      PROVE  NothingSkipped'
  <2> DEFINE x == Head(u)
  <2>1. /\ relayed' = relayed
        /\ \/ wire'["gestures"] = w /\ accepted'["gestures"] = accepted["gestures"]
           \/ /\ wire'["gestures"] = Append(w, x)
              /\ accepted'["gestures"] = Append(accepted["gestures"], x)
              /\ u # <<>>
    BY <1>1 DEF Send, Streams, Types, loopVars
  <2>2. ASSUME u # <<>>
        PROVE  r \o Append(w, x) = Append(r \o w, x)
    <3>1. x \in Frames
      BY <1>0, <2>2, TailElements
    <3> HIDE DEF x, r, w, u
    <3> QED BY <1>0, <3>1, MoveAlong
  <2> QED BY <2>1, <2>2
<1>2. CASE ServeGesture
  <2>1. /\ w # <<>> /\ wire'["gestures"] = Tail(w)
        /\ relayed'["gestures"] = Append(r, Head(w)) /\ accepted' = accepted
    BY <1>2 DEF ServeGesture, Read, Unread, Streams, Types
  <2>2. Append(r, Head(w)) \o Tail(w) = r \o w
    <3>1. w # <<>> /\ Head(w) \in Frames
      BY <1>0, <2>1, TailElements
    <3> HIDE DEF r, w
    <3> QED BY <1>0, <3>1, MoveAlong
  <2> QED BY <2>1, <2>2
<1>3. CASE ReceiverDies
  <2>1. /\ wire'["gestures"] = <<>> /\ relayed' = relayed
        /\ accepted'["gestures"] = r
    BY <1>3 DEF ReceiverDies, Streams
  <2>2. r \o <<>> = r
    BY <1>0, ConcatEmptySeq
  <2> QED BY <2>1, <2>2
<1>4. CASE ReadSkeletons
  <2>1. wire'["gestures"] = w /\ UNCHANGED <<relayed, accepted>>
    BY <1>4 DEF ReadSkeletons, Streams, Types
  <2> QED BY <2>1
<1>5. CASE PublishSkeletons
  <2>1. relayed'["gestures"] = r /\ UNCHANGED <<wire, accepted>>
    BY <1>5 DEF PublishSkeletons, Streams, Types, linkVars
  <2> QED BY <2>1
<1>6. ASSUME UNCHANGED <<relayed, wire, accepted>>
      PROVE  NothingSkipped'
  BY <1>6
<1>7. \/ \E s \in Streams : Send(s)
      \/ ServeGesture \/ ReceiverDies \/ ReadSkeletons \/ PublishSkeletons
      \/ UNCHANGED <<relayed, wire, accepted>>
  BY DEF Next, LoopStep, Perceive, Link, Poll, GesturesServed, GestureCallback, Respawn, vars, linkVars, loopVars
<1> QED BY <1>1, <1>2, <1>3, <1>4, <1>5, <1>6, <1>7

-----------------------------------------------------------------------------
(* The theorems *)

IInv == LineInv /\ Owed /\ NothingSkipped

\* The invariant holds at the start.
LEMMA InitIInv == Init => IInv
<1> SUFFICES ASSUME Init PROVE IInv
  OBVIOUS
<1> USE DEF Init
<1>1. <<>> \in Seq(Frames) /\ Len(<<>>) = 0 /\ <<>> \o <<>> = <<>>
  BY EmptySeq, ConcatEmptySeq
<1>2. Types /\ Bounded
  BY <1>1 DEF Types, Bounded, Streams, None
<1>3. Line(<<>>, <<>>, <<>>, 0)
  <2>1. 1 .. Len(<<>>) = {}
    BY <1>1
  <2> QED BY <2>1 DEF Line, Sorted, Before, UpTo
<1>4. InLine /\ Draining
  BY <1>3 DEF InLine, Draining
<1>5. Owed /\ NothingSkipped
  BY <1>1 DEF Owed, AwaitedIsAhead, NoDelayBuildsUp, NothingSkipped, LastOf, Streams,
              None
<1> QED BY <1>2, <1>4, <1>5 DEF IInv, LineInv

\* Every step keeps the invariant.
LEMMA NextIInv == IInv /\ [Next]_vars => IInv'
<1> SUFFICES ASSUME IInv, [Next]_vars PROVE IInv'
  OBVIOUS
<1>1. Types' /\ Bounded'
  BY TypesKept DEF IInv, LineInv
<1>2. InLine' /\ Draining'
  BY <1>1, InLineKept, DrainingKept DEF IInv
<1>3. Owed' /\ NothingSkipped'
  BY <1>1, OwedKept, NothingSkippedKept DEF IInv, LineInv
<1> QED BY <1>1, <1>2, <1>3 DEF IInv, LineInv

\* The invariant holds in every state.
LEMMA InvariantHolds == Spec => []IInv
  BY InitIInv, NextIInv, PTL DEF Spec

\* Every variable keeps its type, and no queue outgrows its bound.
THEOREM TypeCorrect == Spec => []TypeOK
<1>1. IInv => TypeOK
  BY DEF IInv, LineInv, Types, Bounded, TypeOK
<1> QED BY <1>1, InvariantHolds, PTL

\* Gestures that ZeroMQ took come out one by one, in order, unless the receiver dies.
THEOREM GesturesAllRelayed == Spec => []NothingSkipped
<1>1. IInv => NothingSkipped
  BY DEF IInv
<1> QED BY <1>1, InvariantHolds, PTL

\* A drain leaves nothing behind that was there when poll returned.
THEOREM DrainsCatchUp == Spec => []NoDelayBuildsUp
<1>1. IInv => NoDelayBuildsUp
  BY DEF IInv, Owed
<1> QED BY <1>1, InvariantHolds, PTL

\* The last frame of a sorted queue that ends before x is before x.
LEMMA LastBefore ==
  ASSUME NEW r \in Seq(Frames), NEW x, \A i \in 1 .. Len(r) : r[i] < x
  PROVE  r # <<>> => r[Len(r)] < x
  BY LastOfQueue

\* A step of the bridge puts a frame in, delivers one, or is none of the stream's
\* business.
LEMMA StreamStep ==
  ASSUME IInv, [Next]_vars
  PROVE  [GestureRelay!Next]_(GestureRelay!relayVars)
         /\ [SkeletonRelay!Next]_(SkeletonRelay!relayVars)
<1> USE DEF GestureRelay!Next, SkeletonRelay!Next, GestureRelay!relayVars,
            SkeletonRelay!relayVars, GestureRelay!Put, SkeletonRelay!Put,
            GestureRelay!Deliver, SkeletonRelay!Deliver
<1>0. /\ \A s \in Streams : /\ relayed[s] \in Seq(Frames) /\ wire[s] \in Seq(Frames)
                            /\ Line(relayed[s], wire[s], sub[s], frame)
      /\ "gestures" \in Streams /\ "skeletons" \in Streams /\ relayed \in [Streams -> Seq(Frames)]
      /\ frame \in Nat
  BY DEF IInv, LineInv, Types, InLine, Streams
<1>1. ASSUME Perceive
      PROVE  frame' = frame + 1 /\ relayed' = relayed
  BY <1>1 DEF Perceive, loopVars
<1>2. CASE ServeGesture
  <2> DEFINE r == relayed["gestures"]
             w == wire["gestures"]
             x == Head(w)
  <2>1. /\ w # <<>> /\ relayed'["gestures"] = Append(r, x)
        /\ relayed'["skeletons"] = relayed["skeletons"] /\ frame' = frame
    BY <1>0, <1>2 DEF ServeGesture, Read
  <2>2. x \in Frames /\ x = w[1] /\ 1 \in 1 .. Len(w)
    BY <1>0, <2>1, TailElements
  <2>3. x \in 1 .. frame
    BY <1>0, <2>2, FramesAreNat DEF Line, UpTo
  <2>4. \A i \in 1 .. Len(r) : r[i] < x
    BY <1>0, <2>2 DEF Line, Before
  <2>5. r # <<>> => r[Len(r)] < x
    BY <1>0, <2>4, LastBefore
  <2> HIDE DEF x
  <2> QED BY <2>1, <2>3, <2>5
<1>3. CASE PublishSkeletons
  <2> DEFINE r == relayed["skeletons"]
  <2>1. CASE latest = None
    BY <1>3, <2>1 DEF PublishSkeletons
  <2>2. CASE latest # None
    <3>1. /\ relayed'["skeletons"] = Append(r, latest) /\ frame' = frame
          /\ relayed'["gestures"] = relayed["gestures"] /\ rx = "skeletons"
      BY <1>0, <1>3, <2>2 DEF PublishSkeletons
    <3>2. latest \in Frames
      BY <2>2 DEF IInv, LineInv, Types, Frames, None
    <3>3. InHand(latest, r, wire["skeletons"], sub["skeletons"], frame)
      BY <2>2, <3>1 DEF IInv, LineInv, Draining
    <3>4. latest \in 1 .. frame
      BY <1>0, <3>2, <3>3, FramesAreNat DEF InHand
    <3>5. r # <<>> => r[Len(r)] < latest
      BY <1>0, <3>3, LastBefore DEF InHand
    <3> QED BY <3>1, <3>4, <3>5
  <2> QED BY <2>1, <2>2
<1>4. \/ Perceive
      \/ ServeGesture \/ PublishSkeletons
      \/ UNCHANGED <<frame, relayed>>
  BY DEF Next, LoopStep, Send, Link, Poll, ReadSkeletons, GesturesServed, GestureCallback, ReceiverDies, Respawn, vars,
         loopVars
<1> QED BY <1>1, <1>2, <1>3, <1>4

\* Both streams of the bridge implement Relay.
THEOREM Refinement == Spec => ImplementsRelays
<1>1. Init => GestureRelay!Init /\ SkeletonRelay!Init
  BY DEF Init, GestureRelay!Init, SkeletonRelay!Init, Streams
<1>2. IInv /\ [Next]_vars => [GestureRelay!Next]_(GestureRelay!relayVars)
                             /\ [SkeletonRelay!Next]_(SkeletonRelay!relayVars)
  BY StreamStep
<1> QED BY <1>1, <1>2, InvariantHolds, PTL
        DEF Spec, ImplementsRelays, GestureRelay!Spec, SkeletonRelay!Spec
=============================================================================
