--------------------------- MODULE LidarLinkProofs ---------------------------
(***************************************************************************)
(* Proofs about LidarLink, for any number of connections, scans and calls. *)
(*                                                                         *)
(* A thread that waits for an answer holds the mutex, so one command is    *)
(* under way at most.  Unless a command timed out, its answer is at one    *)
(* place: the lidar owes it, or it is on the wire, or in the queue; and    *)
(* where no command is under way no answer is anywhere.  The scans stand   *)
(* in one line: those published, those in the queue, those on the wire.    *)
(* On the first connection none is missing there, as the start of the scan *)
(* is answered before the first scan, and commands take no scans then.     *)
(* What a thread has found in the queue stays there until it pops it,      *)
(* unless the other thread has found it, too.                              *)
(***************************************************************************)
EXTENDS LidarLink, SequenceTheorems, WellFoundedInduction, TLAPS

IsScan(d) == d.kind = "scan"

\* No answer in q; none but to the command with number n; one at most.
Quiet(q) == \A i \in 1 .. Len(q) : IsScan(q[i])

OnlyTo(q, n) == \A i \in 1 .. Len(q) : IsScan(q[i]) \/ q[i].id = n

Single(q) == \A i, j \in 1 .. Len(q) : IsScan(q[i]) \/ IsScan(q[j]) \/ i = j

\* No command is under way.
Nothing(a, w, q) == a = <<>> /\ Quiet(w) /\ Quiet(q)

\* The answer to c is owed, or on the wire, or in the queue, or lost.
Owed(a, w, q, c) ==
    /\ a \in {<<>>, <<c>>}
    /\ OnlyTo(w, c.id) /\ OnlyTo(q, c.id)
    /\ Single(w) /\ Single(q)
    /\ a # <<>> => Quiet(w) /\ Quiet(q)
    /\ Quiet(w) \/ Quiet(q)

Exchange ==
    ~late =>
        /\ ~confused
        /\ holder = None => Nothing(asked, wire, queue)
        /\ \A t \in Threads : holder = t => Owed(asked, wire, queue, cmd[t])

\* The scans in q are each younger than the one before, and there are n of them so far.
Sorted(q, n) ==
    /\ \A i \in 1 .. Len(q) : IsScan(q[i]) => q[i].id \in 1 .. n
    /\ \A i, j \in 1 .. Len(q) :
         i < j /\ IsScan(q[i]) /\ IsScan(q[j]) => q[i].id < q[j].id

SortedIds(p, n) ==
    /\ \A i \in 1 .. Len(p) : p[i] \in 1 .. n
    /\ \A i, j \in 1 .. Len(p) : i < j => p[i] < p[j]

Before(q, w) ==
    \A i \in 1 .. Len(q), j \in 1 .. Len(w) :
      IsScan(q[i]) /\ IsScan(w[j]) => q[i].id < w[j].id

IdsBefore(p, q) ==
    \A i \in 1 .. Len(p), j \in 1 .. Len(q) : IsScan(q[j]) => p[i] < q[j].id

Line(p, q, w, n) ==
    /\ SortedIds(p, n) /\ Sorted(q, n) /\ Sorted(w, n)
    /\ IdsBefore(p, q) /\ IdsBefore(p, w) /\ Before(q, w)

\* Which command a thread is busy with.
Named ==
    /\ at[Main] # "idle" => Keyword(cmd[Main].name) \in sent
    /\ at[Laser] # "idle"
    /\ at[Laser] \in {"send", "wait", "pop"} => cmd[Laser].name \in {"state", "start"}

Mutex == \A t \in Threads : holder = t <=> at[t] \in {"wait", "pop"}

-----------------------------------------------------------------------------
(* Queues of datagrams *)

\* A set of numbers has a least one.
LEMMA LeastNumber ==
  ASSUME NEW S \in SUBSET Nat, S # {}
  PROVE  \E m \in S : \A j \in S : m <= j
<1> DEFINE R == OpToRel(<, Nat)
<1>1. \A x, y \in Nat : x < y => <<x, y>> \in R
  BY DEF OpToRel
<1>2. IsWellFoundedOn(R, Nat)
  BY NatLessThanWellFounded
<1>3. PICK m \in S : \A y \in S : ~(<<y, m>> \in R)
  <2> HIDE DEF R
  <2> QED BY <1>2, WFMin
<1>4. \A j \in S : ~(j < m)
  BY <1>1, <1>3
<1>5. \A j \in S : j \in Nat /\ m \in Nat
  OBVIOUS
<1> HIDE DEF R
<1> QED BY <1>4, <1>5

\* The first datagram that matches does match, and none before it does.
LEMMA FirstMatches ==
  ASSUME NEW t \in Threads, queue \in Seq(Datagram), Matching(t) # {}
  PROVE  /\ First(t) \in Matching(t) /\ First(t) \in 1 .. Len(queue)
         /\ queue[First(t)] \in Datagram
         /\ \A j \in Matching(t) : First(t) <= j
<1>1. Matching(t) \in SUBSET Nat /\ Matching(t) \subseteq 1 .. Len(queue)
  BY DEF Matching
<1>2. \E m \in Matching(t) : \A j \in Matching(t) : m <= j
  BY <1>1, LeastNumber
<1>3. First(t) \in Matching(t) /\ \A j \in Matching(t) : First(t) <= j
  BY <1>2 DEF First
<1> QED BY <1>1, <1>3

\* The laser thread takes no scan before an older one.
LEMMA OldestFirst ==
  ASSUME TakesScan, queue \in Seq(Datagram)
  PROVE  \A j \in 1 .. Len(queue) : IsScan(queue[j]) => First(Laser) <= j
<1> SUFFICES ASSUME NEW j \in 1 .. Len(queue), IsScan(queue[j]) PROVE First(Laser) <= j
  OBVIOUS
<1>1. \A i \in Matching(Laser) : First(Laser) <= i
  BY FirstMatches DEF TakesScan, Threads
<1>2. queue[j] \in Datagram
  OBVIOUS
<1>3. queue[j].keyword = "LMDscandata"
  BY <1>2 DEF IsScan, Datagram
<1>4. j \in Matching(Laser)
  BY <1>3 DEF Matching, Fits, Wanted, LoopKeywords, TakesScan
<1> QED BY <1>1, <1>4

\* The rest of a queue, element by element.
LEMMA TailElements ==
  ASSUME NEW q \in Seq(Datagram), q # <<>>
  PROVE  /\ Tail(q) \in Seq(Datagram) /\ Len(Tail(q)) = Len(q) - 1
         /\ Len(q) \in Nat \ {0}
         /\ Head(q) = q[1] /\ Head(q) \in Datagram /\ 1 \in 1 .. Len(q)
         /\ \A i \in 1 .. Len(Tail(q)) : Tail(q)[i] = q[i + 1] /\ i + 1 \in 1 .. Len(q)
  OBVIOUS

\* A queue with one more datagram, element by element.
LEMMA AppendElements ==
  ASSUME NEW q \in Seq(Datagram), NEW d \in Datagram
  PROVE  /\ Append(q, d) \in Seq(Datagram) /\ Len(Append(q, d)) = Len(q) + 1
         /\ Len(q) \in Nat
         /\ \A i \in 1 .. Len(q) + 1 :
              Append(q, d)[i] = IF i = Len(q) + 1 THEN d ELSE q[i]
         /\ \A i \in 1 .. Len(q) + 1 : i # Len(q) + 1 => i \in 1 .. Len(q)
  BY AppendProperties

\* A queue with a datagram less, element by element.
LEMMA RemoveElements ==
  ASSUME NEW q \in Seq(Datagram), NEW k \in 1 .. Len(q)
  PROVE  /\ RemoveAt(q, k) \in Seq(Datagram) /\ Len(RemoveAt(q, k)) = Len(q) - 1
         /\ Len(q) \in Nat
         /\ \A i \in 1 .. Len(q) - 1 :
              RemoveAt(q, k)[i] = q[IF i < k THEN i ELSE i + 1]
<1> DEFINE s == SubSeq(q, 1, k - 1)
           r == SubSeq(q, k + 1, Len(q))
<1>1. /\ s \in Seq(Datagram) /\ Len(s) = k - 1
      /\ \A i \in 1 .. k - 1 : s[i] = q[i]
  BY SubSeqProperties
<1>2. /\ r \in Seq(Datagram) /\ Len(r) = Len(q) - k
      /\ \A i \in 1 .. Len(q) - k : r[i] = q[k + i]
  BY SubSeqProperties
<1>3. RemoveAt(q, k) = s \o r
  BY DEF RemoveAt
<1> HIDE DEF s, r
<1>4. /\ s \o r \in Seq(Datagram) /\ Len(s \o r) = Len(s) + Len(r)
      /\ \A i \in 1 .. Len(s) + Len(r) :
           (s \o r)[i] = IF i <= Len(s) THEN s[i] ELSE r[i - Len(s)]
  BY <1>1, <1>2, ConcatProperties
<1>5. ASSUME NEW i \in 1 .. Len(q) - 1
      PROVE  RemoveAt(q, k)[i] = q[IF i < k THEN i ELSE i + 1]
  <2>1. CASE i < k
    BY <1>1, <1>2, <1>3, <1>4, <2>1
  <2>2. CASE ~(i < k)
    <3>1. i - Len(s) \in 1 .. Len(q) - k
      BY <1>1, <2>2
    <3>2. k + (i - Len(s)) = i + 1
      BY <1>1
    <3>3. i \in 1 .. Len(s) + Len(r) /\ ~(i <= Len(s))
      BY <1>1, <1>2, <2>2
    <3>4. (s \o r)[i] = r[i - Len(s)]
      BY <1>4, <3>3
    <3>5. r[i - Len(s)] = q[i + 1]
      BY <1>2, <3>1, <3>2
    <3> QED BY <1>3, <2>2, <3>4, <3>5
  <2> QED BY <2>1, <2>2
<1> QED BY <1>1, <1>2, <1>3, <1>4, <1>5

-----------------------------------------------------------------------------
(* One command, one answer *)

\* A datagram that goes out of a queue leaves no more answers in it than there were.
LEMMA TailAnswers ==
  ASSUME NEW q \in Seq(Datagram), q # <<>>, NEW n
  PROVE  /\ Quiet(q) => Quiet(Tail(q)) /\ IsScan(Head(q))
         /\ OnlyTo(q, n) => OnlyTo(Tail(q), n) /\ (IsScan(Head(q)) \/ Head(q).id = n)
         /\ Single(q) => Single(Tail(q)) /\ (IsScan(Head(q)) \/ Quiet(Tail(q)))
<1>1. Quiet(q) => Quiet(Tail(q)) /\ IsScan(Head(q))
  BY TailElements DEF Quiet
<1>2. OnlyTo(q, n) => OnlyTo(Tail(q), n) /\ (IsScan(Head(q)) \/ Head(q).id = n)
  BY TailElements DEF OnlyTo
<1>3. ASSUME Single(q)
      PROVE  Single(Tail(q)) /\ (IsScan(Head(q)) \/ Quiet(Tail(q)))
  <2>1. Single(Tail(q))
    BY <1>3, TailElements DEF Single
  <2>2. \A i \in 1 .. Len(Tail(q)) : i + 1 # 1
    OBVIOUS
  <2>3. IsScan(Head(q)) \/ Quiet(Tail(q))
    BY <1>3, <2>2, TailElements DEF Single, Quiet
  <2> QED BY <2>1, <2>3
<1> QED BY <1>1, <1>2, <1>3

\* An answer is alone in a queue that held none, and a scan changes nothing.
LEMMA AppendAnswers ==
  ASSUME NEW q \in Seq(Datagram), NEW d \in Datagram, NEW n
  PROVE  /\ Quiet(q) /\ IsScan(d) => Quiet(Append(q, d))
         /\ OnlyTo(q, n) /\ (IsScan(d) \/ d.id = n) => OnlyTo(Append(q, d), n)
         /\ Single(q) /\ (IsScan(d) \/ Quiet(q)) => Single(Append(q, d))
<1>1. Quiet(q) /\ IsScan(d) => Quiet(Append(q, d))
  BY AppendElements DEF Quiet
<1>2. OnlyTo(q, n) /\ (IsScan(d) \/ d.id = n) => OnlyTo(Append(q, d), n)
  BY AppendElements DEF OnlyTo
<1>3. Single(q) /\ (IsScan(d) \/ Quiet(q)) => Single(Append(q, d))
  BY AppendElements DEF Single, Quiet
<1> QED BY <1>1, <1>2, <1>3

\* An answer that is taken was the only one.
LEMMA RemoveAnswers ==
  ASSUME NEW q \in Seq(Datagram), NEW k \in 1 .. Len(q), NEW n
  PROVE  /\ Quiet(q) => Quiet(RemoveAt(q, k)) /\ IsScan(q[k])
         /\ OnlyTo(q, n) => OnlyTo(RemoveAt(q, k), n) /\ (IsScan(q[k]) \/ q[k].id = n)
         /\ Single(q) => /\ Single(RemoveAt(q, k))
                         /\ IsScan(q[k]) \/ Quiet(RemoveAt(q, k))
<1> DEFINE r == RemoveAt(q, k)
           from(i) == IF i < k THEN i ELSE i + 1
<1>1. /\ r \in Seq(Datagram) /\ Len(r) = Len(q) - 1 /\ Len(q) \in Nat
      /\ \A i \in 1 .. Len(r) : r[i] = q[from(i)]
  BY RemoveElements
<1>2. /\ \A i \in 1 .. Len(r) : from(i) \in 1 .. Len(q) /\ from(i) # k
      /\ \A i, j \in 1 .. Len(r) : from(i) = from(j) => i = j
  BY <1>1
<1> HIDE DEF r, from
<1>3. Quiet(q) => Quiet(r) /\ IsScan(q[k])
  BY <1>1, <1>2 DEF Quiet
<1>4. OnlyTo(q, n) => OnlyTo(r, n) /\ (IsScan(q[k]) \/ q[k].id = n)
  BY <1>1, <1>2 DEF OnlyTo
<1>5. Single(q) => Single(r) /\ (IsScan(q[k]) \/ Quiet(r))
  BY <1>1, <1>2 DEF Single, Quiet
<1> QED BY <1>3, <1>4, <1>5 DEF r

\* The lidar answers: what it owed is on the wire.
LEMMA OwedAnswer ==
  ASSUME NEW w \in Seq(Datagram), NEW q \in Seq(Datagram), NEW a, NEW c,
         NEW d \in Datagram, ~IsScan(d),
         Owed(a, w, q, c), a # <<>>, d.id = c.id
  PROVE  Owed(<<>>, Append(w, d), q, c)
<1>1. Quiet(w) /\ Quiet(q) /\ OnlyTo(w, c.id) /\ OnlyTo(q, c.id)
      /\ Single(w) /\ Single(q)
  BY DEF Owed
<1>2. OnlyTo(Append(w, d), c.id) /\ Single(Append(w, d))
  BY <1>1, AppendAnswers
<1> QED BY <1>1, <1>2 DEF Owed

\* The lidar sends a scan.
LEMMA OwedScan ==
  ASSUME NEW w \in Seq(Datagram), NEW q \in Seq(Datagram), NEW a, NEW c,
         NEW d \in Datagram, IsScan(d)
  PROVE  /\ Owed(a, w, q, c) => Owed(a, Append(w, d), q, c)
         /\ Nothing(a, w, q) => Nothing(a, Append(w, d), q)
<1>1. /\ Quiet(w) => Quiet(Append(w, d))
      /\ OnlyTo(w, c.id) => OnlyTo(Append(w, d), c.id)
      /\ Single(w) => Single(Append(w, d))
  BY AppendAnswers
<1> QED BY <1>1 DEF Owed, Nothing

\* A datagram goes from the wire to the queue, or is swallowed.
LEMMA OwedPush ==
  ASSUME NEW w \in Seq(Datagram), NEW q \in Seq(Datagram), NEW a, NEW c, w # <<>>
  PROVE  /\ Owed(a, w, q, c) => /\ Owed(a, Tail(w), q, c)
                                /\ Owed(a, Tail(w), Append(q, Head(w)), c)
         /\ Nothing(a, w, q) => /\ Nothing(a, Tail(w), q)
                                /\ Nothing(a, Tail(w), Append(q, Head(w)))
<1>1. /\ Head(w) \in Datagram
      /\ Quiet(w) => Quiet(Tail(w)) /\ IsScan(Head(w))
      /\ OnlyTo(w, c.id) => /\ OnlyTo(Tail(w), c.id)
                            /\ IsScan(Head(w)) \/ Head(w).id = c.id
      /\ Single(w) => Single(Tail(w)) /\ (IsScan(Head(w)) \/ Quiet(Tail(w)))
  BY TailAnswers, TailElements
<1> DEFINE d == Head(w)
<1>2. /\ Quiet(q) /\ IsScan(d) => Quiet(Append(q, d))
      /\ OnlyTo(q, c.id) /\ (IsScan(d) \/ d.id = c.id) => OnlyTo(Append(q, d), c.id)
      /\ Single(q) /\ (IsScan(d) \/ Quiet(q)) => Single(Append(q, d))
  BY <1>1, AppendAnswers
<1>3. Nothing(a, w, q) => /\ Nothing(a, Tail(w), q)
                          /\ Nothing(a, Tail(w), Append(q, Head(w)))
  BY <1>1, <1>2 DEF Nothing
<1>4. Owed(a, w, q, c) => Owed(a, Tail(w), q, c)
  BY <1>1 DEF Owed
<1>5. Owed(a, w, q, c) => Owed(a, Tail(w), Append(q, Head(w)), c)
  BY <1>1, <1>2 DEF Owed
<1> QED BY <1>3, <1>4, <1>5

\* A datagram is taken from the queue.
LEMMA OwedTake ==
  ASSUME NEW w \in Seq(Datagram), NEW q \in Seq(Datagram), NEW a, NEW c,
         NEW k \in 1 .. Len(q)
  PROVE  /\ Owed(a, w, q, c) =>
              /\ Owed(a, w, RemoveAt(q, k), c)
              /\ ~IsScan(q[k]) => q[k].id = c.id /\ Nothing(a, w, RemoveAt(q, k))
         /\ Nothing(a, w, q) => Nothing(a, w, RemoveAt(q, k)) /\ IsScan(q[k])
<1>1. /\ Quiet(q) => Quiet(RemoveAt(q, k)) /\ IsScan(q[k])
      /\ OnlyTo(q, c.id) => /\ OnlyTo(RemoveAt(q, k), c.id)
                            /\ IsScan(q[k]) \/ q[k].id = c.id
      /\ Single(q) => Single(RemoveAt(q, k)) /\ (IsScan(q[k]) \/ Quiet(RemoveAt(q, k)))
  BY RemoveAnswers
<1>2. Nothing(a, w, q) => Nothing(a, w, RemoveAt(q, k)) /\ IsScan(q[k])
  BY <1>1 DEF Nothing
<1>3. Owed(a, w, q, c) => Owed(a, w, RemoveAt(q, k), c)
  BY <1>1 DEF Owed
<1>4. Owed(a, w, q, c) /\ ~IsScan(q[k])
        => q[k].id = c.id /\ Nothing(a, w, RemoveAt(q, k))
  BY <1>1 DEF Owed, Nothing
<1> QED BY <1>2, <1>3, <1>4

\* A connection that breaks takes the command with it, and perhaps what was sent.
LEMMA OwedBreak ==
  ASSUME NEW w, NEW q, NEW a, NEW c
  PROVE  /\ Owed(a, w, q, c) => Owed(<<>>, w, q, c) /\ Owed(<<>>, <<>>, q, c)
         /\ Nothing(a, w, q) => Nothing(<<>>, w, q) /\ Nothing(<<>>, <<>>, q)
BY DEF Owed, Nothing, Quiet, OnlyTo, Single

\* Where no command was under way one is sent.
LEMMA OwedSend ==
  ASSUME NEW w, NEW q, NEW a, NEW c, Nothing(a, w, q)
  PROVE  Owed(<<c>>, w, q, c) /\ Owed(<<>>, w, q, c)
BY DEF Owed, Nothing, Quiet, OnlyTo, Single

\* A new scanner object has an empty queue.
LEMMA OwedAnew ==
  ASSUME NEW c
  PROVE  Owed(<<>>, <<>>, <<>>, c) /\ Nothing(<<>>, <<>>, <<>>)
BY DEF Owed, Nothing, Quiet, OnlyTo, Single

-----------------------------------------------------------------------------
(* Types *)

USE DEF Threads, Laser, Main, None, Empty

Places == {"idle", "send", "wait", "pop", "connect", "next", "scan", "take", "close"}

\* The type invariant, with the commands the threads are busy with.
Types == TypeOK /\ Named

\* A thread goes to one of its places.
LEMMA GotoTypes ==
  ASSUME Types, NEW t \in Threads, NEW place \in Places,
         t = Main => place \in {"idle", "send", "wait", "pop"}, Goto(t, place)
  PROVE  /\ at' \in [Threads -> Places]
         /\ at'[Main] \in {"idle", "send", "wait", "pop"}
         /\ at'[t] = place /\ \A u \in Threads \ {t} : at'[u] = at[u]
BY DEF Types, TypeOK, Goto, Places

\* The type invariant holds at the start.
LEMMA TypesInit == Init => Types
<1> SUFFICES ASSUME Init PROVE Types
  OBVIOUS
<1>1. /\ at \in [Threads -> Places] /\ at[Laser] = "connect" /\ at[Main] = "idle"
  BY DEF Init, Places
<1>2. Command("state") \in Commands
  BY DEF Command, Commands, Services
<1>3. cmd \in [Threads -> Commands]
  BY <1>2 DEF Init
<1>4. /\ wire \in Seq(Datagram) /\ queue \in Seq(Datagram)
      /\ asked \in Seq(Commands) /\ published \in Seq(Nat)
  <2>1. /\ <<>> \in Seq(Datagram) /\ <<>> \in Seq(Commands) /\ <<>> \in Seq(Nat)
    OBVIOUS
  <2>2. wire = <<>> /\ queue = <<>> /\ asked = <<>> /\ published = <<>>
    BY DEF Init
  <2> QED BY <2>1, <2>2
<1>5. Named
  BY <1>1 DEF Named
<1>6. TypeOK
  <2>1. link = "closed" /\ reader = "none" /\ holder = None
    BY DEF Init
  <2>2. {stale, streaming, initialized, confused, late, strayed, robbed} \subseteq BOOLEAN
    BY Zenon DEF Init
  <2>3. scans = 0 /\ ids = 0 /\ connections = 0 /\ calls = 0
    BY DEF Init
  <2>4. {scans, ids, connections, calls} \subseteq Nat
    BY <2>3
  <2>5. sent \subseteq Keywords
    BY DEF Init
  <2> QED BY <1>1, <1>3, <1>4, <2>1, <2>2, <2>4, <2>5 DEF TypeOK, Places
<1> QED BY <1>5, <1>6 DEF Types

\* It is kept by the lidar and the network.
LEMMA DeviceTypes == Types /\ DeviceNext => Types'
<1> SUFFICES ASSUME Types, DeviceNext PROVE Types'
  OBVIOUS
<1>1. ASSUME NEW c \in Commands
      PROVE  Reply(c) \in Datagram /\ Refusal(c) \in Datagram
  BY DEF Commands, Datagram, Reply, Refusal, Keywords
<1>2. ASSUME NEW d \in Datagram, Answer(d), asked # <<>>, streaming' \in BOOLEAN
      PROVE  Types'
  BY <1>2, AppendElements, HeadTailProperties
     DEF Types, TypeOK, Named, Answer, history, counters, Commands
<1>3. asked # <<>> => Head(asked) \in Commands
  BY HeadTailProperties DEF Types, TypeOK
<1>4. CASE DeviceAnswers
  BY <1>1, <1>2, <1>3, <1>4 DEF DeviceAnswers, Types, TypeOK
<1>5. CASE DeviceRefuses
  BY <1>1, <1>2, <1>3, <1>5 DEF DeviceRefuses, Types, TypeOK
<1>6. CASE DeviceScans
  <2>1. scans' \in Nat /\ Scan(scans') \in Datagram
    BY <1>6 DEF DeviceScans, Scan, Datagram, Types, TypeOK
  <2> QED BY <1>6, <2>1, AppendElements
             DEF DeviceScans, Types, TypeOK, Named, device, history
<1>7. CASE LinkBreaks
  BY <1>7, EmptySeq DEF LinkBreaks, Breaks, Types, TypeOK, Named, history, counters
<1> QED BY <1>4, <1>5, <1>6, <1>7 DEF DeviceNext

\* It is kept by the read thread.
LEMMA ReaderTypes == Types /\ ReaderNext => Types'
<1> SUFFICES ASSUME Types, ReaderNext PROVE Types'
  OBVIOUS
<1>1. CASE ReaderPushes
  <2>1. /\ wire \in Seq(Datagram) /\ wire # <<>> /\ queue \in Seq(Datagram)
        /\ Tail(wire) \in Seq(Datagram)
        /\ Append(queue, Head(wire)) \in Seq(Datagram)
    BY <1>1, TailElements, AppendElements DEF ReaderPushes, Types, TypeOK
  <2>2. wire' \in Seq(Datagram) /\ queue' \in Seq(Datagram) /\ stale' \in BOOLEAN
    BY <1>1, <2>1 DEF ReaderPushes, Swallowed, Types, TypeOK
  <2> QED BY <1>1, <2>2 DEF ReaderPushes, Types, TypeOK, Named, device, history, counters
<1>2. CASE ReaderCloses
  BY <1>2 DEF ReaderCloses, Types, TypeOK, Named, device, history, counters
<1>3. CASE ReaderEnds
  BY <1>3 DEF ReaderEnds, Types, TypeOK, Named, device, history, counters
<1> QED BY <1>1, <1>2, <1>3 DEF ReaderNext

\* Where a thread goes after a command.
LEMMA AfterPlaces ==
  ASSUME Types, NEW t \in Threads
  PROVE  /\ AfterFailure(t) = IF t = Laser THEN "close" ELSE "idle"
         /\ AfterAnswer(t) = IF t = Main THEN "idle"
                             ELSE IF cmd[t].name = "state" THEN "next" ELSE "scan"
         /\ AfterRefusal(t) = IF t = Main THEN "idle"
                              ELSE IF cmd[t].name = "start" THEN "scan" ELSE "close"
<1>1. CASE t = Main
  BY <1>1 DEF AfterFailure, AfterAnswer, AfterRefusal
<1>2. CASE t = Laser
  BY <1>2 DEF AfterFailure, AfterAnswer, AfterRefusal
<1> QED BY <1>1, <1>2

\* It is kept by the threads that send commands.
LEMMA CommandTypes ==
  ASSUME Types, NEW t \in Threads, CommandNext(t)
  PROVE  Types'
<1> DEFINE ToPlace(place) == /\ Goto(t, place) /\ place \in Places
                             /\ t = Main => place \in {"idle", "send", "wait", "pop"}
                             /\ place \in {"send", "wait", "pop"}
                                  => at[t] \in {"send", "wait", "pop"}
                             /\ t = Laser => place # "idle"
                             /\ t = Main /\ place # "idle" => at[t] # "idle"
<1>1. ASSUME NEW place, ToPlace(place), UNCHANGED <<cmd, sent>>
      PROVE  /\ at' \in [Threads -> Places]
             /\ at'[Main] \in {"idle", "send", "wait", "pop"}
             /\ Named'
  <2>1. /\ at' \in [Threads -> Places]
        /\ at'[Main] \in {"idle", "send", "wait", "pop"}
        /\ at'[t] = place /\ \A u \in Threads \ {t} : at'[u] = at[u]
    BY <1>1, GotoTypes
  <2>2. Named'
    BY <1>1, <2>1 DEF Types, Named
  <2> QED BY <2>1, <2>2
<1>2. ToPlace(AfterFailure(t)) <=> Goto(t, AfterFailure(t))
  BY AfterPlaces DEF Places
<1>3. at[t] = "pop" => /\ ToPlace(AfterAnswer(t)) <=> Goto(t, AfterAnswer(t))
                       /\ ToPlace(AfterRefusal(t)) <=> Goto(t, AfterRefusal(t))
  BY AfterPlaces DEF Places
<1> HIDE DEF ToPlace
<1>4. CASE Send(t)
  <2>1. CASE link = "closed"
    BY <1>1, <1>2, <1>4, <2>1
       DEF Send, Types, TypeOK, Places, tcp, history
  <2>2. CASE link # "closed"
    <3>1. /\ at' \in [Threads -> Places]
          /\ at'[Main] \in {"idle", "send", "wait", "pop"}
          /\ at'[t] = "wait" /\ \A u \in Threads \ {t} : at'[u] = at[u]
      BY <1>4, <2>2, GotoTypes DEF Send, Places
    <3>2. ids' \in Nat
      BY <1>4, <2>2 DEF Send, Types, TypeOK
    <3>3. /\ cmd' \in [Threads -> Commands]
          /\ \A u \in Threads : cmd'[u].name = cmd[u].name
      <4> DEFINE c == [cmd[t] EXCEPT !.id = ids']
      <4>1. c \in Commands /\ c.name = cmd[t].name
        BY <3>2 DEF Types, TypeOK, Commands
      <4>2. cmd' = [cmd EXCEPT ![t] = c]
        BY <1>4, <2>2 DEF Send
      <4> HIDE DEF c
      <4> QED BY <4>1, <4>2 DEF Types, TypeOK
    <3>4. asked' \in Seq(Commands)
      <4>1. asked' = IF link = "open" THEN Append(asked, cmd'[t]) ELSE asked
        BY <1>4, <2>2 DEF Send
      <4>2. cmd'[t] \in Commands /\ asked \in Seq(Commands)
        BY <3>3 DEF Types, TypeOK
      <4> QED BY <4>1, <4>2, AppendProperties
    <3>5. Named'
      <4>1. UNCHANGED sent
        BY <1>4 DEF Send, history
      <4>2. \A u \in Threads : at'[u] \in {at[u], "wait"} /\ (at'[u] = "wait" => u = t \/ at[u] = "wait")
        BY <3>1
      <4>3. at[t] = "send"
        BY <1>4 DEF Send
      <4> QED BY <3>1, <3>3, <4>1, <4>2, <4>3 DEF Named, Types
    <3> QED BY <1>4, <2>2, <3>1, <3>2, <3>3, <3>4, <3>5
               DEF Send, Types, TypeOK, Places, tcp, history
  <2> QED BY <2>1, <2>2
<1>5. CASE Finds(t)
  <2>1. ToPlace("pop")
    BY <1>5 DEF Finds, ToPlace, Places
  <2>2. strayed' \in BOOLEAN
    BY <1>5 DEF Finds, Types, TypeOK, IsForeign
  <2> QED BY <1>1, <1>5, <2>1, <2>2
             DEF Finds, Types, TypeOK, Places, tcp, device, counters
<1>6. CASE TimesOut(t)
  BY <1>1, <1>2, <1>6
     DEF TimesOut, Types, TypeOK, Places, tcp, device, counters
<1>7. CASE GivesUp(t)
  BY <1>1, <1>2, <1>7
     DEF GivesUp, Types, TypeOK, Places, tcp, device, counters
<1>8. CASE Pops(t)
  <2>1. queue' \in Seq(Datagram)
    BY <1>8, FirstMatches, RemoveElements DEF Pops, Types, TypeOK
  <2>2. /\ at[t] = "pop" /\ UNCHANGED cmd
        /\ confused' \in BOOLEAN /\ initialized' \in BOOLEAN
        /\ holder' \in Threads \cup {None}
    BY <1>8 DEF Pops, Types, TypeOK
  <2>3. \E place : ToPlace(place)
    <3>1. ToPlace("wait") <=> Goto(t, "wait")
      BY <2>2 DEF ToPlace, Places
    <3> QED BY <1>3, <1>8, <2>2, <3>1 DEF Pops
  <2> QED BY <1>1, <1>8, <2>1, <2>2, <2>3
             DEF Pops, Types, TypeOK, Places, tcp, device, counters
<1> QED BY <1>4, <1>5, <1>6, <1>7, <1>8 DEF CommandNext

\* It is kept by the laser thread.
LEMMA LaserTypes == Types /\ LaserNext => Types'
<1> SUFFICES ASSUME Types, LaserNext PROVE Types'
  OBVIOUS
<1>1. ASSUME NEW place \in Places, Goto(Laser, place), place # "idle",
             UNCHANGED <<cmd, sent>>, place \notin {"send", "wait", "pop"}
      PROVE  /\ at' \in [Threads -> Places]
             /\ at'[Main] \in {"idle", "send", "wait", "pop"}
             /\ Named'
  BY <1>1, GotoTypes DEF Types, Named
<1>2. ASSUME NEW name \in {"state", "start"}, Goto(Laser, "send"),
             cmd' = [cmd EXCEPT ![Laser] = Command(name)], UNCHANGED sent
      PROVE  /\ at' \in [Threads -> Places]
             /\ at'[Main] \in {"idle", "send", "wait", "pop"}
             /\ cmd' \in [Threads -> Commands]
             /\ Named'
  <2>1. /\ at' \in [Threads -> Places]
        /\ at'[Main] \in {"idle", "send", "wait", "pop"}
        /\ at'[Laser] = "send" /\ at'[Main] = at[Main]
    BY <1>2, GotoTypes DEF Places
  <2>2. Command(name) \in Commands /\ Command(name).name = name
    BY DEF Command, Commands, Services
  <2>3. /\ cmd' \in [Threads -> Commands]
        /\ cmd'[Laser].name = name /\ cmd'[Main] = cmd[Main]
    BY <1>2, <2>2 DEF Types, TypeOK
  <2> QED BY <1>2, <2>1, <2>3 DEF Types, Named
<1>3. CASE Connect
  <2>1. /\ link' \in {"closed", "open", "silent", "ended"} /\ connections' \in Nat
        /\ reader' \in {"none", "reads", "leaving", "gone"}
    BY <1>3 DEF Connect, Types, TypeOK
  <2> QED BY <1>2, <1>3, <2>1 DEF Connect, Types, TypeOK, Places, device, history
<1>4. CASE StartScan
  BY <1>2, <1>4 DEF StartScan, Types, TypeOK, Places, tcp, device, history, counters
<1>5. CASE FindsScan
  <2>1. strayed' \in BOOLEAN
    BY <1>5 DEF FindsScan, Types, TypeOK, IsForeign
  <2> QED BY <1>1, <1>5, <2>1
             DEF FindsScan, Types, TypeOK, Places, tcp, device, counters
<1>6. CASE TakesScan
  <2>1. /\ First(Laser) \in 1 .. Len(queue) /\ queue[First(Laser)] \in Datagram
        /\ queue \in Seq(Datagram)
    BY <1>6, FirstMatches DEF TakesScan, Types, TypeOK
  <2>2. queue' \in Seq(Datagram)
    BY <1>6, <2>1, RemoveElements DEF TakesScan
  <2>3. published' \in Seq(Nat)
    BY <1>6, <2>1, AppendProperties DEF TakesScan, Types, TypeOK, Datagram
  <2> QED BY <1>1, <1>6, <2>2, <2>3
             DEF TakesScan, Types, TypeOK, Places, tcp, device, counters
<1>7. CASE ScanTimesOut
  BY <1>1, <1>7 DEF ScanTimesOut, Types, TypeOK, Places, tcp, device, history, counters
<1>8. CASE Close
  <2>1. /\ reader' \in {"none", "reads", "leaving", "gone"}
        /\ queue' \in Seq(Datagram) /\ stale' \in BOOLEAN
        /\ wire' \in Seq(Datagram) /\ asked' \in Seq(Commands)
    BY <1>8, EmptySeq DEF Close, Types, TypeOK
  <2> QED BY <1>1, <1>8, <2>1 DEF Close, Types, TypeOK, Places, history, counters
<1> QED BY <1>3, <1>4, <1>5, <1>6, <1>7, <1>8 DEF LaserNext

\* It is kept by a service call.
LEMMA ServiceTypes ==
  ASSUME Types, NEW name \in Services, ServiceCall(name)
  PROVE  Types'
<1>1. /\ at' \in [Threads -> Places]
      /\ at'[Main] = "send" /\ at'[Laser] = at[Laser]
  BY GotoTypes DEF ServiceCall, Places
<1>2. Command(name) \in Commands /\ Command(name).name = name
  BY DEF Command, Commands
<1>3. /\ cmd' \in [Threads -> Commands]
      /\ cmd'[Main].name = name /\ cmd'[Laser] = cmd[Laser]
  BY <1>2 DEF ServiceCall, Types, TypeOK
<1>4. sent' \subseteq Keywords /\ Keyword(name) \in sent'
  BY DEF ServiceCall, Types, TypeOK, Keywords
<1>5. Named'
  BY <1>1, <1>3, <1>4 DEF Types, Named
<1>6. {confused, late, strayed, robbed}' \subseteq BOOLEAN
  BY DEF ServiceCall, Types, TypeOK
<1>7. UNCHANGED <<tcp, queue, device, holder, initialized, published, scans, ids, connections>>
      /\ calls' \in Nat
  BY DEF ServiceCall, Types, TypeOK
<1> QED BY <1>1, <1>3, <1>4, <1>5, <1>6, <1>7 DEF Types, TypeOK, Places, tcp, device

\* It is kept by every step.
LEMMA TypesNext == Types /\ [Next]_vars => Types'
<1>1. ASSUME Types, UNCHANGED vars PROVE Types'
  BY <1>1 DEF Types, TypeOK, Named, vars, tcp, device, history, counters
<1> QED BY <1>1, DeviceTypes, ReaderTypes, CommandTypes, LaserTypes, ServiceTypes DEF Next

\* Every variable keeps its type, whatever the bounds are.
THEOREM TypeCorrect == Spec => []TypeOK
<1>1. Types => TypeOK
  BY DEF Types
<1> QED BY <1>1, TypesInit, TypesNext, PTL DEF Spec

-----------------------------------------------------------------------------
(* One command at a time *)

\* The mutex is held by the thread that waits for an answer.
LEMMA MutexNext == Types /\ Mutex /\ [Next]_vars => Mutex'
<1> SUFFICES ASSUME Types, Mutex, [Next]_vars PROVE Mutex'
  OBVIOUS
<1>1. ASSUME NEW t \in Threads, NEW place, Goto(t, place)
      PROVE  at' = [at EXCEPT ![t] = place] /\ at \in [Threads -> Places]
  BY <1>1 DEF Goto, Types, TypeOK, Places
<1>2. ASSUME UNCHANGED <<at, holder>> PROVE Mutex'
  BY <1>2 DEF Mutex
<1>3. ASSUME NEW t \in Threads, NEW place, Goto(t, place), UNCHANGED holder,
             place \in {"wait", "pop"} <=> at[t] \in {"wait", "pop"}
      PROVE  Mutex'
  BY <1>1, <1>3 DEF Mutex
<1>4. ASSUME NEW t \in Threads, NEW place, Goto(t, place), holder' = None,
             place \notin {"wait", "pop"}, at[t] \in {"wait", "pop"}
      PROVE  Mutex'
  BY <1>1, <1>4 DEF Mutex
<1>5. CASE DeviceNext
  BY <1>2, <1>5
     DEF DeviceNext, DeviceAnswers, DeviceRefuses, DeviceScans, LinkBreaks, Answer, Breaks
<1>6. CASE ReaderNext
  BY <1>2, <1>6 DEF ReaderNext, ReaderPushes, ReaderCloses, ReaderEnds
<1>7. ASSUME NEW t \in Threads, CommandNext(t) PROVE Mutex'
  <2>1. AfterFailure(t) \notin {"wait", "pop"}
    BY AfterPlaces
  <2>2. CASE Send(t)
    <3>1. CASE link = "closed"
      BY <1>3, <2>1, <2>2, <3>1 DEF Send
    <3>2. CASE link # "closed"
      <4>1. Goto(t, "wait") /\ holder' = t /\ holder = None
        BY <2>2, <3>2 DEF Send
      <4> QED BY <1>1, <4>1 DEF Mutex
    <3> QED BY <3>1, <3>2
  <2>3. CASE Finds(t)
    BY <1>3, <2>3 DEF Finds
  <2>4. CASE TimesOut(t)
    BY <1>4, <2>1, <2>4 DEF TimesOut
  <2>5. CASE GivesUp(t)
    BY <1>4, <2>1, <2>5 DEF GivesUp
  <2>6. CASE Pops(t)
    <3>1. at[t] = "pop" /\ AfterAnswer(t) \notin {"wait", "pop"}
      BY <2>6, AfterPlaces DEF Pops
    <3>2. \/ holder' = None /\ \E place : place \notin {"wait", "pop"} /\ Goto(t, place)
          \/ Goto(t, "wait") /\ UNCHANGED holder
      <4>1. AfterRefusal(t) \notin {"wait", "pop"}
        BY AfterPlaces
      <4> QED BY <2>6, <3>1, <4>1 DEF Pops
    <3> QED BY <1>3, <1>4, <3>1, <3>2
  <2> QED BY <1>7, <2>2, <2>3, <2>4, <2>5, <2>6 DEF CommandNext
<1>8. CASE LaserNext
  <2>1. Laser \in Threads
    OBVIOUS
  <2> QED BY <1>3, <1>8, <2>1
             DEF LaserNext, Connect, StartScan, FindsScan, TakesScan, ScanTimesOut, Close
<1>9. ASSUME NEW name \in Services, ServiceCall(name) PROVE Mutex'
  BY <1>3, <1>9 DEF ServiceCall
<1>10. CASE UNCHANGED vars
  BY <1>2, <1>10 DEF vars
<1> QED BY <1>5, <1>6, <1>7, <1>8, <1>9, <1>10 DEF Next

\* Nobody waits at the start.
LEMMA MutexInit == Init => Mutex
BY DEF Init, Mutex

-----------------------------------------------------------------------------
(* Answers *)

\* Nothing is under way at the start.
LEMMA ExchangeInit == Init => Exchange
BY OwedAnew DEF Init, Exchange

\* A step that keeps what is under way.
LEMMA ExchangeKept ==
  ASSUME Exchange, UNCHANGED <<asked, wire, queue, holder, confused>>, late => late',
         \A t \in Threads : holder = t => cmd'[t] = cmd[t]
  PROVE  Exchange'
BY DEF Exchange

\* The lidar answers, sends scans, or is gone.
LEMMA ExchangeDevice == Types /\ Exchange /\ DeviceNext => Exchange'
<1> SUFFICES ASSUME Types, Exchange, DeviceNext PROVE Exchange'
  OBVIOUS
<1>1. /\ wire \in Seq(Datagram) /\ queue \in Seq(Datagram) /\ asked \in Seq(Commands)
      /\ holder \in Threads \cup {None}
  BY DEF Types, TypeOK
<1>2. ASSUME NEW d, Answer(d), asked # <<>>,
             d = Reply(Head(asked)) \/ d = Refusal(Head(asked))
      PROVE  Exchange'
  <2>1. /\ d \in Datagram /\ ~IsScan(d) /\ d.id = Head(asked).id
        /\ wire' = Append(wire, d) /\ asked' = Tail(asked)
        /\ UNCHANGED <<queue, holder, confused, late, cmd>>
    <3>1. Head(asked) \in Commands
      BY <1>1, <1>2, HeadTailProperties
    <3>2. Reply(Head(asked)) \in Datagram /\ Refusal(Head(asked)) \in Datagram
      BY <3>1 DEF Reply, Refusal, Datagram, Commands, Keywords
    <3>3. d \in Datagram /\ ~IsScan(d) /\ d.id = Head(asked).id
      BY <1>2, <3>2 DEF Reply, Refusal, IsScan
    <3> QED BY <1>2, <3>3 DEF Answer, history
  <2>2. ASSUME ~late, holder = None PROVE FALSE
    BY <1>2, <2>2 DEF Exchange, Nothing
  <2>3. ASSUME ~late, NEW t \in Threads, holder = t
        PROVE  Owed(asked', wire', queue', cmd[t])
    <3>1. Owed(asked, wire, queue, cmd[t])
      BY <2>3 DEF Exchange
    <3>2. asked = <<cmd[t]>>
      BY <1>2, <3>1 DEF Owed
    <3>3. Head(asked) = cmd[t] /\ Tail(asked) = <<>>
      BY <3>2
    <3> QED BY <1>1, <1>2, <2>1, <3>1, <3>3, OwedAnswer
  <2> QED BY <2>1, <2>2, <2>3 DEF Exchange
<1>3. CASE DeviceScans
  <2>1. /\ Scan(scans') \in Datagram /\ IsScan(Scan(scans'))
        /\ wire' = Append(wire, Scan(scans'))
        /\ UNCHANGED <<asked, queue, holder, confused, late, cmd>>
    BY <1>3 DEF DeviceScans, Scan, Datagram, IsScan, Types, TypeOK, device, history
  <2> QED BY <1>1, <2>1, OwedScan DEF Exchange
<1>4. CASE LinkBreaks
  <2>1. /\ wire' \in {wire, <<>>} /\ asked' = <<>>
        /\ UNCHANGED <<queue, holder, confused, late, cmd>>
    BY <1>4 DEF LinkBreaks, Breaks, history
  <2> QED BY <2>1, OwedBreak DEF Exchange
<1> QED BY <1>2, <1>3, <1>4 DEF DeviceNext, DeviceAnswers, DeviceRefuses

\* The read thread moves a datagram, or drops it.
LEMMA ExchangeReader == Types /\ Exchange /\ ReaderNext => Exchange'
<1> SUFFICES ASSUME Types, Exchange, ReaderNext PROVE Exchange'
  OBVIOUS
<1>1. CASE ReaderPushes
  <2>1. wire \in Seq(Datagram) /\ queue \in Seq(Datagram)
    BY DEF Types, TypeOK
  <2>2. /\ wire # <<>> /\ wire' = Tail(wire)
        /\ queue' \in {queue, Append(queue, Head(wire))}
        /\ UNCHANGED <<asked, holder, confused, late, cmd>>
    BY <1>1 DEF ReaderPushes, device, history
  <2> QED BY <2>1, <2>2, OwedPush DEF Exchange
<1>2. CASE ReaderCloses \/ ReaderEnds
  BY <1>2, ExchangeKept DEF ReaderCloses, ReaderEnds, device, history
<1> QED BY <1>1, <1>2 DEF ReaderNext

\* A command is sent, and its answer is taken.
LEMMA ExchangeCommand ==
  ASSUME Types, Mutex, Exchange, NEW t \in Threads, CommandNext(t)
  PROVE  Exchange'
<1>1. /\ wire \in Seq(Datagram) /\ queue \in Seq(Datagram)
      /\ holder \in Threads \cup {None}
  BY DEF Types, TypeOK
<1>2. CASE Send(t)
  <2>1. CASE link = "closed"
    BY <1>2, <2>1, ExchangeKept DEF Send, tcp, history
  <2>2. CASE link # "closed"
    <3>1. /\ holder = None /\ holder' = t
          /\ UNCHANGED <<wire, queue, confused, late>>
          /\ asked' = IF link = "open" THEN Append(asked, cmd'[t]) ELSE asked
      BY <1>2, <2>2 DEF Send, tcp, history
    <3>2. ASSUME ~late PROVE Owed(asked', wire, queue, cmd'[t])
      <4>1. Nothing(asked, wire, queue)
        BY <3>1, <3>2 DEF Exchange
      <4>2. asked' \in {<<>>, <<cmd'[t]>>}
        BY <3>1, <4>1 DEF Nothing
      <4> QED BY <4>1, <4>2, OwedSend
    <3> QED BY <3>1, <3>2 DEF Exchange
  <2> QED BY <2>1, <2>2
<1>3. CASE Finds(t)
  BY <1>3, ExchangeKept DEF Finds, tcp, device
<1>4. CASE TimesOut(t) \/ GivesUp(t)
  BY <1>4 DEF TimesOut, GivesUp, Exchange
<1>5. CASE Pops(t)
  <2>1. /\ First(t) \in 1 .. Len(queue) /\ queue' = RemoveAt(queue, First(t))
        /\ holder = t
        /\ UNCHANGED <<asked, wire, cmd, late>>
    BY <1>1, <1>5, FirstMatches DEF Pops, Mutex, tcp, device
  <2>2. ASSUME ~late
        PROVE  /\ Owed(asked, wire, queue', cmd[t])
               /\ ~IsScan(queue[First(t)]) =>
                    queue[First(t)].id = cmd[t].id /\ Nothing(asked, wire, queue')
    <3>1. Owed(asked, wire, queue, cmd[t])
      BY <2>1, <2>2 DEF Exchange
    <3>2. First(t) \in 1 .. Len(queue) /\ queue' = RemoveAt(queue, First(t))
      BY <2>1
    <3> QED BY <1>1, <3>1, <3>2, OwedTake
  <2>3. CASE UNCHANGED <<holder, confused>>
    <3>1. UNCHANGED <<holder, confused>>
      BY <2>3
    <3> QED BY <2>1, <2>2, <3>1 DEF Exchange
  <2>4. CASE ~(UNCHANGED <<holder, confused>>)
    <3>1. /\ holder' = None /\ queue[First(t)].kind # "scan"
          /\ \/ confused' = confused
             \/ confused' = (confused \/ queue[First(t)].id # cmd[t].id)
      BY <1>5, <2>4 DEF Pops, IsAnswer
    <3>2. ~late => ~confused'
      BY <2>2, <3>1 DEF Exchange, IsScan
    <3> QED BY <2>1, <2>2, <3>1, <3>2 DEF Exchange, IsScan
  <2> QED BY <2>3, <2>4
<1> QED BY <1>2, <1>3, <1>4, <1>5 DEF CommandNext

\* The laser thread takes scans, and answers left for nobody.
LEMMA ExchangeLaser == Types /\ Mutex /\ Exchange /\ LaserNext => Exchange'
<1> SUFFICES ASSUME Types, Mutex, Exchange, LaserNext PROVE Exchange'
  OBVIOUS
<1>1. /\ wire \in Seq(Datagram) /\ queue \in Seq(Datagram)
      /\ holder \in Threads \cup {None} /\ cmd \in [Threads -> Commands]
  BY DEF Types, TypeOK
<1>2. ASSUME NEW c, cmd' = [cmd EXCEPT ![Laser] = c], at[Laser] \notin {"wait", "pop"}
      PROVE  \A t \in Threads : holder = t => cmd'[t] = cmd[t]
  BY <1>1, <1>2 DEF Mutex
<1>3. CASE Connect
  BY <1>2, <1>3, ExchangeKept DEF Connect, device, history
<1>4. CASE StartScan
  BY <1>2, <1>4, ExchangeKept DEF StartScan, tcp, device, history
<1>5. CASE FindsScan \/ ScanTimesOut
  BY <1>5, ExchangeKept DEF FindsScan, ScanTimesOut, tcp, device, history
<1>6. CASE TakesScan
  <2>1. /\ First(Laser) \in 1 .. Len(queue) /\ queue' = RemoveAt(queue, First(Laser))
        /\ UNCHANGED <<asked, wire, cmd, late, holder, confused>>
    BY <1>1, <1>6, FirstMatches DEF TakesScan, tcp, device
  <2> QED BY <1>1, <2>1, OwedTake DEF Exchange
<1>7. CASE Close
  <2>1. /\ wire' = <<>> /\ asked' = <<>> /\ queue' \in {queue, <<>>}
        /\ UNCHANGED <<holder, confused, late, cmd>>
    BY <1>7 DEF Close, history
  <2> QED BY <2>1, OwedBreak, OwedAnew DEF Exchange
<1> QED BY <1>3, <1>4, <1>5, <1>6, <1>7 DEF LaserNext

\* What is under way stays so in every step.
LEMMA ExchangeNext == Types /\ Mutex /\ Exchange /\ [Next]_vars => Exchange'
<1> SUFFICES ASSUME Types, Mutex, Exchange, [Next]_vars PROVE Exchange'
  OBVIOUS
<1>1. ASSUME NEW name \in Services, ServiceCall(name) PROVE Exchange'
  <2>1. \A t \in Threads : holder = t => cmd'[t] = cmd[t]
    BY <1>1 DEF ServiceCall, Mutex, Types, TypeOK
  <2> QED BY <1>1, <2>1, ExchangeKept DEF ServiceCall, tcp, device
<1>2. CASE UNCHANGED vars
  BY <1>2, ExchangeKept DEF vars, tcp, device, history
<1> QED BY <1>1, <1>2, ExchangeDevice, ExchangeReader, ExchangeCommand, ExchangeLaser
           DEF Next

\* Whatever the threads do, the mutex is held by the one that waits, and unless a
\* command timed out there is one command under way at most.
THEOREM OneCommandAtATime == Spec => []OneAtATime
<1> DEFINE Inv == Types /\ Mutex /\ Exchange
<1>1. Init => Inv
  BY TypesInit, MutexInit, ExchangeInit
<1>2. Inv /\ [Next]_vars => Inv'
  BY TypesNext, MutexNext, ExchangeNext
<1>3. Inv => OneAtATime
  <2> SUFFICES ASSUME Inv PROVE OneAtATime
    OBVIOUS
  <2>1. ASSUME ~late PROVE Len(asked) <= 1
    <3>1. CASE holder = None
      BY <2>1, <3>1 DEF Exchange, Nothing
    <3>2. CASE holder # None
      <4>1. holder \in Threads
        BY <3>2 DEF Types, TypeOK
      <4>2. Owed(asked, wire, queue, cmd[holder])
        BY <2>1, <4>1 DEF Exchange
      <4>3. asked \in Seq(Commands) /\ cmd[holder] \in Commands
        BY <4>1 DEF Types, TypeOK
      <4>4. CASE asked = <<>>
        BY <4>4
      <4>5. CASE asked = <<cmd[holder]>>
        BY <4>3, <4>5
      <4> QED BY <4>2, <4>4, <4>5 DEF Owed
    <3> QED BY <3>1, <3>2
  <2> QED BY <2>1 DEF OneAtATime, Mutex
<1> HIDE DEF Inv
<1> QED BY <1>1, <1>2, <1>3, PTL DEF Spec

\* Unless a command timed out no thread takes the answer to another command.
THEOREM AnswersAreMatched == Spec => []AnswersMatch
<1> DEFINE Inv == Types /\ Mutex /\ Exchange
<1>1. Init => Inv
  BY TypesInit, MutexInit, ExchangeInit
<1>2. Inv /\ [Next]_vars => Inv'
  BY TypesNext, MutexNext, ExchangeNext
<1>3. Inv => AnswersMatch
  BY DEF Exchange, AnswersMatch
<1> HIDE DEF Inv
<1> QED BY <1>1, <1>2, <1>3, PTL DEF Spec

-----------------------------------------------------------------------------
(* Scans *)

\* The scans published, in the queue and on the wire are in one line.
Ordered == Line(published, queue, wire, scans)

\* A new scan goes to the end of the line, an answer changes nothing.
LEMMA LineAppend ==
  ASSUME NEW p \in Seq(Nat), NEW q \in Seq(Datagram), NEW w \in Seq(Datagram),
         NEW n \in Nat, Line(p, q, w, n), NEW m \in Nat, NEW d \in Datagram,
         n <= m, IsScan(d) => n < d.id /\ d.id <= m
  PROVE  Line(p, q, Append(w, d), m)
<1> DEFINE r == Append(w, d)
<1>1. /\ Len(r) = Len(w) + 1 /\ Len(w) \in Nat
      /\ \A i \in 1 .. Len(r) : r[i] = IF i = Len(w) + 1 THEN d ELSE w[i]
      /\ \A i \in 1 .. Len(r) : i # Len(w) + 1 => i \in 1 .. Len(w)
  BY AppendElements
<1> HIDE DEF r
<1>0. /\ d.id \in Nat
      /\ \A i \in Int : i \in 1 .. n => i \in 1 .. m
      /\ \A i \in 1 .. n : IsScan(d) => i < d.id
  BY DEF Datagram
<1>2. SortedIds(p, m) /\ Sorted(q, m)
  <2>0. \A i \in 1 .. n : i \in 1 .. m
    OBVIOUS
  <2>1. SortedIds(p, n) /\ Sorted(q, n)
    BY DEF Line
  <2>2. ASSUME NEW i \in 1 .. Len(p) PROVE p[i] \in 1 .. m
    <3>1. p[i] \in 1 .. n
      BY <2>1 DEF SortedIds
    <3> QED BY <2>0, <3>1
  <2>3. ASSUME NEW i \in 1 .. Len(q), IsScan(q[i]) PROVE q[i].id \in 1 .. m
    <3>1. q[i].id \in 1 .. n
      BY <2>1, <2>3 DEF Sorted
    <3> QED BY <2>0, <3>1
  <2>4. SortedIds(p, m)
    BY <2>1, <2>2 DEF SortedIds
  <2>5. Sorted(q, m)
    <3>1. \A i, j \in 1 .. Len(q) :
            i < j /\ IsScan(q[i]) /\ IsScan(q[j]) => q[i].id < q[j].id
      BY <2>1 DEF Sorted
    <3> QED BY <2>3, <3>1 DEF Sorted
  <2> QED BY <2>4, <2>5
<1>3. Sorted(r, m)
  <2>0. Sorted(w, n)
    BY DEF Line
  <2>1. ASSUME NEW i \in 1 .. Len(r), IsScan(r[i]) PROVE r[i].id \in 1 .. m
    <3>1. CASE i = Len(w) + 1
      <4>1. r[i] = d
        BY <1>1, <3>1
      <4> QED BY <1>0, <2>1, <4>1
    <3>2. CASE i # Len(w) + 1
      <4>1. i \in 1 .. Len(w) /\ r[i] = w[i]
        BY <1>1, <3>2
      <4>2. r[i].id \in 1 .. n
        BY <2>0, <2>1, <4>1 DEF Sorted
      <4> QED BY <1>0, <4>2
    <3> QED BY <3>1, <3>2
  <2>2. ASSUME NEW i \in 1 .. Len(r), NEW j \in 1 .. Len(r), i < j,
               IsScan(r[i]), IsScan(r[j])
        PROVE  r[i].id < r[j].id
    <3>1. i \in 1 .. Len(w) /\ r[i] = w[i] /\ w[i].id \in 1 .. n
      BY <1>1, <2>2 DEF Line, Sorted
    <3>2. CASE j = Len(w) + 1
      BY <1>0, <1>1, <2>2, <3>1, <3>2
    <3>3. CASE j # Len(w) + 1
      BY <1>1, <2>2, <3>1, <3>3 DEF Line, Sorted
    <3> QED BY <3>2, <3>3
  <2> QED BY <2>1, <2>2 DEF Sorted
<1>4. IdsBefore(p, r)
  BY <1>0, <1>1 DEF Line, IdsBefore, SortedIds
<1>5. Before(q, r)
  BY <1>0, <1>1 DEF Line, Before, Sorted
<1> QED BY <1>2, <1>3, <1>4, <1>5 DEF Line, r

\* The first datagram on the wire goes to the queue, or is dropped.
LEMMA LinePush ==
  ASSUME NEW p \in Seq(Nat), NEW q \in Seq(Datagram), NEW w \in Seq(Datagram),
         NEW n \in Nat, Line(p, q, w, n), w # <<>>
  PROVE  Line(p, q, Tail(w), n) /\ Line(p, Append(q, Head(w)), Tail(w), n)
<1> DEFINE d == Head(w)
           r == Append(q, d)
           v == Tail(w)
<1>1. /\ d = w[1] /\ d \in Datagram /\ 1 \in 1 .. Len(w) /\ Len(v) \in Nat
      /\ \A i \in 1 .. Len(v) : v[i] = w[i + 1] /\ i + 1 \in 1 .. Len(w) /\ 1 < i + 1
  BY TailElements
<1>2. /\ Len(r) = Len(q) + 1 /\ Len(q) \in Nat
      /\ \A i \in 1 .. Len(r) : r[i] = IF i = Len(q) + 1 THEN d ELSE q[i]
      /\ \A i \in 1 .. Len(r) : i # Len(q) + 1 => i \in 1 .. Len(q)
  BY <1>1, AppendElements
<1> HIDE DEF d, r, v
<1>3. Sorted(v, n)
  <2>1. \A i, j \in 1 .. Len(v) : i < j => i + 1 < j + 1
    OBVIOUS
  <2> QED BY <1>1, <2>1 DEF Line, Sorted
<1>4. IdsBefore(p, v) /\ Before(q, v)
  BY <1>1 DEF Line, IdsBefore, Before
<1>5. Line(p, q, v, n)
  BY <1>3, <1>4 DEF Line
<1>6. Sorted(r, n)
  <2>1. ASSUME NEW i \in 1 .. Len(r), IsScan(r[i]) PROVE r[i].id \in 1 .. n
    BY <1>1, <1>2, <2>1 DEF Line, Sorted
  <2>2. ASSUME NEW i \in 1 .. Len(r), NEW j \in 1 .. Len(r), i < j,
               IsScan(r[i]), IsScan(r[j])
        PROVE  r[i].id < r[j].id
    <3>1. i \in 1 .. Len(q) /\ r[i] = q[i]
      BY <1>2, <2>2
    <3>2. CASE j = Len(q) + 1
      BY <1>1, <1>2, <2>2, <3>1, <3>2 DEF Line, Before
    <3>3. CASE j # Len(q) + 1
      BY <1>2, <2>2, <3>1, <3>3 DEF Line, Sorted
    <3> QED BY <3>2, <3>3
  <2> QED BY <2>1, <2>2 DEF Sorted
<1>7. IdsBefore(p, r)
  BY <1>1, <1>2 DEF Line, IdsBefore
<1>8. Before(r, v)
  <2>1. ASSUME NEW i \in 1 .. Len(r), NEW j \in 1 .. Len(v), IsScan(r[i]), IsScan(v[j])
        PROVE  r[i].id < v[j].id
    <3>1. CASE i = Len(q) + 1
      BY <1>1, <1>2, <2>1, <3>1 DEF Line, Sorted
    <3>2. CASE i # Len(q) + 1
      BY <1>1, <1>2, <1>4, <2>1, <3>2 DEF Before
    <3> QED BY <3>1, <3>2
  <2> QED BY <2>1 DEF Before
<1>9. Line(p, r, v, n)
  BY <1>3, <1>4, <1>6, <1>7, <1>8 DEF Line
<1> QED BY <1>5, <1>9 DEF d, r, v

\* A datagram is taken from the queue.
LEMMA LineTake ==
  ASSUME NEW p \in Seq(Nat), NEW q \in Seq(Datagram), NEW w \in Seq(Datagram),
         NEW n \in Nat, Line(p, q, w, n), NEW k \in 1 .. Len(q)
  PROVE  Line(p, RemoveAt(q, k), w, n)
<1> DEFINE r == RemoveAt(q, k)
           from(i) == IF i < k THEN i ELSE i + 1
<1>1. /\ Len(r) = Len(q) - 1 /\ Len(q) \in Nat
      /\ \A i \in 1 .. Len(r) : r[i] = q[from(i)]
  BY RemoveElements
<1>2. /\ \A i \in 1 .. Len(r) : from(i) \in 1 .. Len(q)
      /\ \A i, j \in 1 .. Len(r) : i < j => from(i) < from(j)
  BY <1>1
<1> HIDE DEF r, from
<1>3. Sorted(r, n)
  BY <1>1, <1>2 DEF Line, Sorted
<1>4. IdsBefore(p, r) /\ Before(r, w)
  BY <1>1, <1>2 DEF Line, IdsBefore, Before
<1> QED BY <1>3, <1>4 DEF Line, r

\* The oldest scan in the queue is taken and published.
LEMMA LineDeliver ==
  ASSUME NEW p \in Seq(Nat), NEW q \in Seq(Datagram), NEW w \in Seq(Datagram),
         NEW n \in Nat, Line(p, q, w, n), NEW k \in 1 .. Len(q), IsScan(q[k]),
         \A j \in 1 .. Len(q) : IsScan(q[j]) => k <= j
  PROVE  /\ Line(Append(p, q[k].id), RemoveAt(q, k), w, n)
         /\ q[k].id \in 1 .. n
         /\ p # <<>> => p[Len(p)] < q[k].id
<1> DEFINE r == RemoveAt(q, k)
           from(i) == IF i < k THEN i ELSE i + 1
           x == q[k].id
           s == Append(p, x)
<1>1. x \in 1 .. n /\ x \in Nat
  BY DEF Line, Sorted
<1>2. /\ Len(s) = Len(p) + 1 /\ Len(p) \in Nat
      /\ \A i \in 1 .. Len(s) : s[i] = IF i = Len(p) + 1 THEN x ELSE p[i]
      /\ \A i \in 1 .. Len(s) : i # Len(p) + 1 => i \in 1 .. Len(p)
  <2> HIDE DEF x
  <2>1. /\ Len(s) = Len(p) + 1 /\ Len(p) \in Nat
        /\ \A i \in 1 .. Len(p) : s[i] = p[i]
        /\ s[Len(p) + 1] = x
    BY <1>1, AppendProperties
  <2> HIDE DEF s
  <2>2. \A i \in 1 .. Len(s) : i # Len(p) + 1 => i \in 1 .. Len(p)
    BY <2>1
  <2> QED BY <2>1, <2>2
<1>3. Line(p, r, w, n)
  BY LineTake
<1>4. \A i \in 1 .. Len(p) : p[i] < x
  BY DEF Line, IdsBefore
<1>5. \A j \in 1 .. Len(w) : IsScan(w[j]) => x < w[j].id
  BY DEF Line, Before
<1>6. \A j \in 1 .. Len(r) : IsScan(r[j]) => x < r[j].id
  <2>1. /\ Len(r) = Len(q) - 1 /\ Len(q) \in Nat
        /\ \A i \in 1 .. Len(r) : r[i] = q[from(i)]
    BY RemoveElements
  <2>2. \A i \in 1 .. Len(r) : from(i) \in 1 .. Len(q) /\ from(i) # k
    BY <2>1
  <2> HIDE DEF r, from
  <2>3. ASSUME NEW j \in 1 .. Len(r), IsScan(r[j]) PROVE k < from(j)
    BY <2>1, <2>2, <2>3
  <2> QED BY <2>1, <2>2, <2>3 DEF Line, Sorted
<1> HIDE DEF r, x, s
<1>7. SortedIds(s, n)
  <2>1. \A i \in 1 .. Len(s) : s[i] \in 1 .. n
    BY <1>1, <1>2 DEF Line, SortedIds
  <2>2. ASSUME NEW i \in 1 .. Len(s), NEW j \in 1 .. Len(s), i < j PROVE s[i] < s[j]
    <3>1. i \in 1 .. Len(p) /\ s[i] = p[i]
      BY <1>2, <2>2
    <3> QED BY <1>2, <1>4, <2>2, <3>1 DEF Line, SortedIds
  <2> QED BY <2>1, <2>2 DEF SortedIds
<1>8. IdsBefore(s, r) /\ IdsBefore(s, w)
  BY <1>2, <1>3, <1>5, <1>6 DEF Line, IdsBefore
<1>9. Line(s, r, w, n)
  BY <1>3, <1>7, <1>8 DEF Line
<1>10. p # <<>> => p[Len(p)] < x
  BY <1>2, <1>4
<1> QED BY <1>1, <1>9, <1>10 DEF r, x, s

\* A connection takes what is on the wire with it, a scanner object its queue.
LEMMA LineBreak ==
  ASSUME NEW p, NEW q, NEW w, NEW n, Line(p, q, w, n)
  PROVE  Line(p, q, <<>>, n) /\ Line(p, <<>>, <<>>, n)
BY DEF Line, Sorted, Before, IdsBefore

\* What a step of the abstract relay is.
RelayStep == [Relayed!Next]_<<scans, published>>

\* No scan was made yet.
LEMMA OrderedInit == Init => Ordered /\ Relayed!Init
BY DEF Init, Ordered, Line, SortedIds, Sorted, IdsBefore, Before, Relayed!Init

\* The laser thread publishes the oldest scan there is, or none.
LEMMA TakesScanRelays ==
  ASSUME Types, Ordered, TakesScan
  PROVE  Ordered' /\ RelayStep
<1> DEFINE k == First(Laser)
<1>1. /\ published \in Seq(Nat) /\ queue \in Seq(Datagram) /\ wire \in Seq(Datagram)
      /\ scans \in Nat
  BY DEF Types, TypeOK
<1>2. k \in 1 .. Len(queue) /\ queue[k] \in Datagram
  BY <1>1, FirstMatches DEF TakesScan
<1>3. /\ queue' = RemoveAt(queue, k) /\ UNCHANGED <<wire, scans>>
      /\ published' = IF queue[k].kind = "scan" THEN Append(published, queue[k].id)
                       ELSE published
  BY DEF TakesScan, tcp, counters
<1>4. \A j \in 1 .. Len(queue) : IsScan(queue[j]) => k <= j
  BY <1>1, OldestFirst
<1> HIDE DEF k
<1>5. CASE IsScan(queue[k])
  <2>1. /\ Line(Append(published, queue[k].id), RemoveAt(queue, k), wire, scans)
        /\ queue[k].id \in 1 .. scans
        /\ published # <<>> => published[Len(published)] < queue[k].id
    BY <1>1, <1>2, <1>4, <1>5, LineDeliver DEF Ordered
  <2>2. published' = Append(published, queue[k].id)
    BY <1>3, <1>5 DEF IsScan
  <2>3. Ordered'
    BY <1>3, <2>1, <2>2 DEF Ordered
  <2>4. Relayed!Deliver(queue[k].id)
    BY <1>3, <2>1, <2>2 DEF Relayed!Deliver
  <2> QED BY <2>1, <2>3, <2>4 DEF RelayStep, Relayed!Next
<1>6. CASE ~IsScan(queue[k])
  <2>1. UNCHANGED <<scans, published>>
    BY <1>3, <1>6 DEF IsScan
  <2> QED BY <1>1, <1>2, <1>3, <2>1, LineTake DEF Ordered, RelayStep
<1> QED BY <1>5, <1>6

\* Every step keeps the line, and is a step of the relay or changes none of its
\* variables.
LEMMA OrderedNext == Types /\ Ordered /\ [Next]_vars => Ordered' /\ RelayStep
<1> SUFFICES ASSUME Types, Ordered, [Next]_vars PROVE Ordered' /\ RelayStep
  OBVIOUS
<1>1. /\ published \in Seq(Nat) /\ queue \in Seq(Datagram) /\ wire \in Seq(Datagram)
      /\ asked \in Seq(Commands) /\ scans \in Nat
  BY DEF Types, TypeOK
<1>2. ASSUME UNCHANGED <<scans, published>>, Line(published, queue', wire', scans)
      PROVE  Ordered' /\ RelayStep
  BY <1>2 DEF Ordered, RelayStep
<1>3. ASSUME UNCHANGED <<scans, published, queue, wire>> PROVE Ordered' /\ RelayStep
  BY <1>2, <1>3 DEF Ordered
<1>4. ASSUME NEW d, Answer(d), asked # <<>>,
             d = Reply(Head(asked)) \/ d = Refusal(Head(asked))
      PROVE  Ordered' /\ RelayStep
  <2>1. Head(asked) \in Commands
    BY <1>1, <1>4, HeadTailProperties
  <2>2. d \in Datagram /\ ~IsScan(d)
    BY <1>4, <2>1 DEF Reply, Refusal, Datagram, Commands, Keywords, IsScan
  <2>3. wire' = Append(wire, d) /\ UNCHANGED <<scans, published, queue>>
    BY <1>4 DEF Answer, counters, history
  <2> QED BY <1>1, <1>2, <2>2, <2>3, LineAppend DEF Ordered
<1>5. CASE DeviceScans
  <2>1. /\ scans' = scans + 1 /\ wire' = Append(wire, Scan(scans'))
        /\ UNCHANGED <<published, queue>>
    BY <1>5 DEF DeviceScans, history
  <2>2. /\ Scan(scans') \in Datagram /\ IsScan(Scan(scans')) /\ Scan(scans').id = scans'
        /\ scans' \in Nat
    BY <1>1, <2>1 DEF Scan, Datagram, IsScan
  <2>3. Ordered'
    <3>1. ASSUME NEW d \in Datagram, IsScan(d), d.id = scans + 1
          PROVE  Line(published, queue, Append(wire, d), scans + 1)
      <4>1. scans + 1 \in Nat /\ scans <= scans + 1 /\ scans < d.id /\ d.id <= scans + 1
        BY <1>1, <3>1
      <4> QED BY <1>1, <4>1, LineAppend DEF Ordered
    <3>2. Line(published, queue, Append(wire, Scan(scans')), scans + 1)
      BY <2>1, <2>2, <3>1
    <3> QED BY <2>1, <3>2 DEF Ordered
  <2>4. Relayed!Put
    BY <2>1 DEF Relayed!Put
  <2> QED BY <2>3, <2>4 DEF RelayStep, Relayed!Next
<1>6. CASE LinkBreaks
  <2>1. wire' \in {wire, <<>>} /\ UNCHANGED <<scans, published, queue>>
    BY <1>6 DEF LinkBreaks, Breaks, history, counters
  <2> QED BY <1>2, <2>1, LineBreak DEF Ordered
<1>7. CASE ReaderPushes
  <2>1. /\ wire # <<>> /\ wire' = Tail(wire)
        /\ queue' \in {queue, Append(queue, Head(wire))}
        /\ UNCHANGED <<scans, published>>
    BY <1>7 DEF ReaderPushes, history, counters
  <2> QED BY <1>1, <1>2, <2>1, LinePush DEF Ordered
<1>8. CASE ReaderCloses \/ ReaderEnds
  BY <1>3, <1>8 DEF ReaderCloses, ReaderEnds, history, counters
<1>9. ASSUME NEW t \in Threads, CommandNext(t) PROVE Ordered' /\ RelayStep
  <2>1. CASE Pops(t)
    <3>1. /\ First(t) \in 1 .. Len(queue) /\ queue' = RemoveAt(queue, First(t))
          /\ UNCHANGED <<wire, scans, published>>
      BY <1>1, <2>1, FirstMatches DEF Pops, tcp, counters
    <3> QED BY <1>1, <1>2, <3>1, LineTake DEF Ordered
  <2>2. CASE Send(t) \/ Finds(t) \/ TimesOut(t) \/ GivesUp(t)
    BY <1>3, <2>2 DEF Send, Finds, TimesOut, GivesUp, tcp, history, counters
  <2> QED BY <1>9, <2>1, <2>2 DEF CommandNext
<1>10. CASE Connect \/ StartScan \/ FindsScan \/ ScanTimesOut
  BY <1>3, <1>10 DEF Connect, StartScan, FindsScan, ScanTimesOut, tcp, history, counters
<1>11. CASE Close
  <2>1. wire' = <<>> /\ queue' \in {queue, <<>>} /\ UNCHANGED <<scans, published>>
    BY <1>11 DEF Close, history, counters
  <2> QED BY <1>2, <2>1, LineBreak DEF Ordered
<1>12. ASSUME NEW name \in Services, ServiceCall(name) PROVE Ordered' /\ RelayStep
  BY <1>3, <1>12 DEF ServiceCall, tcp
<1>13. CASE UNCHANGED vars
  BY <1>3, <1>13 DEF vars, tcp, history, counters
<1> QED BY <1>4, <1>5, <1>6, <1>7, <1>8, <1>9, <1>10, <1>11, <1>12, <1>13, TakesScanRelays
           DEF Next, DeviceNext, DeviceAnswers, DeviceRefuses, ReaderNext, LaserNext

\* The clouds published are the lidar's scans in the order they were made in, each
\* once, over any number of connections, timeouts and commands.
THEOREM ScansAreRelayed == Spec => ImplementsRelay
<1> DEFINE Inv == Types /\ Ordered
<1>1. Init => Inv /\ Relayed!Init
  BY TypesInit, OrderedInit
<1>2. Inv /\ [Next]_vars => Inv' /\ [Relayed!Next]_<<scans, published>>
  BY TypesNext, OrderedNext DEF RelayStep
<1> HIDE DEF Inv
<1> QED BY <1>1, <1>2, PTL DEF Spec, ImplementsRelay, Relayed!Spec, Relayed!relayVars

-----------------------------------------------------------------------------
(* The scans among datagrams *)

\* A set that holds 0, and with each number the next, holds all of them.
LEMMA CountingUp ==
  ASSUME NEW S \in SUBSET Nat, 0 \in S, \A n \in S : n + 1 \in S
  PROVE  Nat \subseteq S
<1> SUFFICES ASSUME Nat \ S # {} PROVE FALSE
  OBVIOUS
<1>1. PICK m \in Nat \ S : \A j \in Nat \ S : m <= j
  BY LeastNumber
<1>2. m - 1 \in Nat /\ m - 1 \in S
  <2>1. m # 0
    BY <1>1
  <2>2. m - 1 \in Nat
    BY <2>1
  <2> QED BY <1>1, <2>2
<1>3. m - 1 + 1 \in S
  BY <1>2
<1> QED BY <1>1, <1>3

\* f[i] are the numbers of the scans among the first i datagrams of q.
Selects(f, q, n) ==
  f = [i \in 0 .. n |->
         IF i = 0 THEN <<>>
         ELSE IF q[i].kind = "scan" THEN Append(f[i - 1], q[i].id) ELSE f[i - 1]]

\* What it is at one of them.
LEMMA SelectionAt ==
  ASSUME NEW f, NEW q, NEW n \in Nat, Selects(f, q, n), NEW i \in 0 .. n
  PROVE  f[i] = IF i = 0 THEN <<>>
                ELSE IF q[i].kind = "scan" THEN Append(f[i - 1], q[i].id) ELSE f[i - 1]
BY DEF Selects

\* There is such a function, whatever q is.
LEMMA SelectionExists ==
  ASSUME NEW q
  PROVE  \A n \in Nat : \E f : Selects(f, q, n)
<1> DEFINE S == {n \in Nat : \E f : Selects(f, q, n)}
<1>1. 0 \in S
  <2> DEFINE f == [i \in 0 .. 0 |-> <<>>]
  <2>1. Selects(f, q, 0)
    BY DEF Selects
  <2> QED BY <2>1
<1>2. ASSUME NEW n \in S PROVE n + 1 \in S
  <2>1. PICK f : Selects(f, q, n)
    OBVIOUS
  <2> DEFINE m == n + 1
             new == IF q[m].kind = "scan" THEN Append(f[n], q[m].id) ELSE f[n]
             g == [i \in 0 .. m |-> IF i = m THEN new ELSE f[i]]
  <2>2. n \in Nat /\ m \in Nat /\ m - 1 = n /\ m # n /\ m # 0
    OBVIOUS
  <2>3. ASSUME NEW i \in 0 .. m
        PROVE  g[i] = IF i = 0 THEN <<>>
                      ELSE IF q[i].kind = "scan" THEN Append(g[i - 1], q[i].id)
                      ELSE g[i - 1]
    <3>1. CASE i = m
      <4>1. g[i] = new /\ g[i - 1] = f[n]
        BY <2>2, <3>1
      <4> QED BY <2>2, <3>1, <4>1
    <3>2. CASE i # m
      <4>1. i \in 0 .. n /\ (i # 0 => i - 1 \in 0 .. m /\ i - 1 # m)
        BY <2>2, <3>2
      <4>2. f[i] = IF i = 0 THEN <<>>
                   ELSE IF q[i].kind = "scan" THEN Append(f[i - 1], q[i].id)
                   ELSE f[i - 1]
        BY <2>1, <2>2, <4>1, SelectionAt
      <4>3. g[i] = f[i] /\ (i # 0 => g[i - 1] = f[i - 1])
        BY <3>2, <4>1
      <4> HIDE DEF g
      <4> QED BY <4>2, <4>3
    <3> QED BY <3>1, <3>2
  <2>4. Selects(g, q, m)
    <3>1. g = [i \in 0 .. m |-> g[i]]
      OBVIOUS
    <3> HIDE DEF g
    <3> QED BY <2>3, <3>1 DEF Selects
  <2> HIDE DEF g
  <2> QED BY <2>2, <2>4
<1>3. S \in SUBSET Nat
  OBVIOUS
<1> HIDE DEF S
<1>4. Nat \subseteq S
  BY <1>1, <1>2, <1>3, CountingUp
<1> QED BY <1>4 DEF S

\* Two queues, or two functions, that begin alike.
Alike(q, r, n) == \A i \in 1 .. n : q[i] = r[i]
AlikeFrom0(f, g, n) == \A i \in 0 .. n : f[i] = g[i]

\* Queues that begin alike have the same scans, as far as they do.
LEMMA SelectionsAgree ==
  ASSUME NEW q, NEW r, NEW n \in Nat, NEW k \in Nat, NEW f, NEW g,
         Selects(f, q, n), Selects(g, r, k), n <= k, Alike(q, r, n)
  PROVE  AlikeFrom0(f, g, n)
<1> USE DEF Alike, AlikeFrom0
<1> SUFFICES ASSUME \E i \in 0 .. n : f[i] # g[i] PROVE FALSE
  OBVIOUS
<1> DEFINE S == {i \in 0 .. n : f[i] # g[i]}
<1>1. PICK i \in S : \A j \in S : i <= j
  <2>1. S \in SUBSET Nat /\ S # {}
    OBVIOUS
  <2> HIDE DEF S
  <2> QED BY <2>1, LeastNumber
<1>2. /\ i \in 0 .. n /\ i \in 0 .. k /\ (i # 0 => q[i] = r[i])
      /\ i # 0 => i - 1 \in 0 .. n /\ ~(i <= i - 1)
  BY <1>1
<1>3. i # 0 => f[i - 1] = g[i - 1]
  BY <1>1, <1>2
<1>4. f[i] = IF i = 0 THEN <<>>
             ELSE IF q[i].kind = "scan" THEN Append(f[i - 1], q[i].id) ELSE f[i - 1]
  BY <1>2, SelectionAt
<1>5. g[i] = IF i = 0 THEN <<>>
             ELSE IF r[i].kind = "scan" THEN Append(g[i - 1], r[i].id) ELSE g[i - 1]
  BY <1>2, SelectionAt
<1>6. f[i] = g[i]
  BY <1>2, <1>3, <1>4, <1>5
<1> QED BY <1>1, <1>6

\* ScansIn is its last value.
LEMMA ScansInDef ==
  ASSUME NEW q \in Seq(Datagram)
  PROVE  \E f : Selects(f, q, Len(q)) /\ ScansIn(q) = f[Len(q)]
<1> DEFINE F == CHOOSE f : f = [i \in 0 .. Len(q) |->
              IF i = 0 THEN <<>>
              ELSE IF q[i].kind = "scan" THEN Append(f[i - 1], q[i].id) ELSE f[i - 1]]
<1>1. Len(q) \in Nat
  OBVIOUS
<1>2. \E f : Selects(f, q, Len(q))
  BY <1>1, SelectionExists
<1>3. ScansIn(q) = F[Len(q)]
  BY Zenon DEF ScansIn
<1>4. Selects(F, q, Len(q))
  BY <1>2, Zenon DEF Selects
<1> QED BY <1>3, <1>4

\* Where there is no datagram there is no scan.
LEMMA ScansInEmpty == ScansIn(<<>>) = <<>>
<1>1. <<>> \in Seq(Datagram) /\ Len(<<>>) = 0 /\ 0 \in 0 .. 0
  OBVIOUS
<1>2. PICK f : Selects(f, <<>>, 0) /\ ScansIn(<<>>) = f[0]
  BY <1>1, ScansInDef
<1>3. f[0] = <<>>
  BY <1>1, <1>2 DEF Selects
<1> QED BY <1>2, <1>3

\* The number of d, if it is a scan.
Told(d) == IF IsScan(d) THEN <<d.id>> ELSE <<>>

\* A scan at the end of a queue is told last.
LEMMA ScansInAppend ==
  ASSUME NEW q \in Seq(Datagram), NEW d \in Datagram, ScansIn(q) \in Seq(Nat)
  PROVE  ScansIn(Append(q, d)) = ScansIn(q) \o Told(d)
<1> DEFINE n == Len(q)
           m == n + 1
           r == Append(q, d)
<1>1. /\ n \in Nat /\ m \in Nat /\ m = n + 1 /\ r \in Seq(Datagram) /\ Len(r) = m
      /\ r[m] = d /\ \A i \in 1 .. n : q[i] = r[i]
  OBVIOUS
<1>2. d.id \in Nat
  BY DEF Datagram
<1> HIDE DEF n, m, r
<1>3. PICK f : Selects(f, q, n) /\ ScansIn(q) = f[n]
  BY ScansInDef DEF n
<1>4. PICK g : Selects(g, r, m) /\ ScansIn(r) = g[m]
  BY <1>1, ScansInDef
<1>5. f[n] = g[n]
  <2>1. n <= m /\ Alike(q, r, n) /\ n \in 0 .. n
    BY <1>1 DEF Alike
  <2>2. AlikeFrom0(f, g, n)
    BY <1>1, <1>3, <1>4, <2>1, SelectionsAgree
  <2> QED BY <2>1, <2>2 DEF AlikeFrom0
<1>6. g[m] = IF IsScan(d) THEN Append(g[n], d.id) ELSE g[n]
  <2>1. m \in 0 .. m /\ m # 0 /\ m - 1 = n
    BY <1>1
  <2>2. g[m] = IF m = 0 THEN <<>>
               ELSE IF r[m].kind = "scan" THEN Append(g[m - 1], r[m].id) ELSE g[m - 1]
    BY <1>1, <1>4, <2>1, SelectionAt
  <2> QED BY <1>1, <2>1, <2>2 DEF IsScan
<1> DEFINE s == ScansIn(q)
<1>7. ScansIn(r) = IF IsScan(d) THEN Append(s, d.id) ELSE s
  BY <1>3, <1>4, <1>5, <1>6
<1> HIDE DEF s
<1>8. s \in Seq(Nat)
  BY DEF s
<1>9. Append(s, d.id) = s \o <<d.id>> /\ s \o <<>> = s
  BY <1>2, <1>8
<1>10. s \o Told(d) = IF IsScan(d) THEN Append(s, d.id) ELSE s
  BY <1>9 DEF Told
<1> QED BY <1>7, <1>10 DEF r, s

\* Two equations by name, as the provers look for the sets of the sequences in an
\* equation and do not find them.
Associates(a, b, c) == (a \o b) \o c = a \o (b \o c)
GoesToSecond(s, t, x) == Append(s \o t, x) = s \o Append(t, x)

\* Sequences are put together in any order.
LEMMA ConcatAssociates == \A Y : \A a, b, c \in Seq(Y) : Associates(a, b, c)
BY ConcatAssociative DEF Associates

\* What is added to two sequences is added to the second.
LEMMA AppendToSecond == \A Y : \A s, t \in Seq(Y) : \A x \in Y : GoesToSecond(s, t, x)
<1> SUFFICES ASSUME NEW Y, NEW s \in Seq(Y), NEW t \in Seq(Y), NEW x \in Y
             PROVE  Append(s \o t, x) = s \o Append(t, x)
  BY DEF GoesToSecond
<1> QED OBVIOUS

\* A queue with a datagram has a last one.
LEMMA LastDatagram ==
  ASSUME NEW q \in Seq(Datagram), NEW n \in Nat, Len(q) = n + 1
  PROVE  \E r \in Seq(Datagram), d \in Datagram : Len(r) = n /\ q = Append(r, d)
<1>1. /\ SubSeq(q, 1, n) \in Seq(Datagram) /\ Len(SubSeq(q, 1, n)) = n
      /\ q[n + 1] \in Datagram
  OBVIOUS
<1>2. q = Append(SubSeq(q, 1, n), q[n + 1])
  OBVIOUS
<1> QED BY <1>1, <1>2

\* The numbers of scans are numbers.
LEMMA ScansInNumbers == \A q \in Seq(Datagram) : ScansIn(q) \in Seq(Nat)
<1> DEFINE S == {n \in Nat : \A q \in Seq(Datagram) : Len(q) = n => ScansIn(q) \in Seq(Nat)}
<1>1. S \in SUBSET Nat /\ 0 \in S
  <2>1. \A q \in Seq(Datagram) : Len(q) = 0 => q = <<>>
    OBVIOUS
  <2>2. <<>> \in Seq(Nat)
    OBVIOUS
  <2> QED BY <2>1, <2>2, ScansInEmpty
<1>2. ASSUME NEW n \in S PROVE n + 1 \in S
  <2>1. n \in Nat /\ n + 1 \in Nat
    OBVIOUS
  <2>2. ASSUME NEW q \in Seq(Datagram), Len(q) = n + 1 PROVE ScansIn(q) \in Seq(Nat)
    <3>1. PICK r \in Seq(Datagram), d \in Datagram : Len(r) = n /\ q = Append(r, d)
      BY <2>1, <2>2, LastDatagram
    <3>2. ScansIn(r) \in Seq(Nat)
      BY <3>1
    <3>3. ScansIn(q) = ScansIn(r) \o Told(d)
      BY <3>1, <3>2, ScansInAppend
    <3>4. Told(d) \in Seq(Nat)
      BY DEF Told, Datagram
    <3> QED BY <3>2, <3>3, <3>4
  <2> QED BY <2>1, <2>2
<1> SUFFICES ASSUME NEW q \in Seq(Datagram) PROVE ScansIn(q) \in Seq(Nat)
  OBVIOUS
<1>3. Nat \subseteq S
  <2> HIDE DEF S
  <2> QED BY <1>1, <1>2, CountingUp
<1>4. Len(q) \in Nat
  OBVIOUS
<1> QED BY <1>3, <1>4

\* The scans of two queues one after the other.
LEMMA ScansInConcat ==
  \A q, r \in Seq(Datagram) : ScansIn(q \o r) = ScansIn(q) \o ScansIn(r)
<1> SUFFICES ASSUME NEW q \in Seq(Datagram), NEW v \in Seq(Datagram)
             PROVE  ScansIn(q \o v) = ScansIn(q) \o ScansIn(v)
  OBVIOUS
<1> DEFINE S == {n \in Nat : \A r \in Seq(Datagram) :
                     Len(r) = n => ScansIn(q \o r) = ScansIn(q) \o ScansIn(r)}
<1>1. S \in SUBSET Nat /\ 0 \in S
  <2>1. \A r \in Seq(Datagram) : Len(r) = 0 => r = <<>> /\ q \o r = q
    OBVIOUS
  <2>2. ScansIn(q) \o <<>> = ScansIn(q)
    BY ScansInNumbers
  <2> QED BY <2>1, <2>2, ScansInEmpty
<1>2. ASSUME NEW n \in S PROVE n + 1 \in S
  <2>1. n \in Nat /\ n + 1 \in Nat
    OBVIOUS
  <2>2. ASSUME NEW w \in Seq(Datagram), Len(w) = n + 1
        PROVE  ScansIn(q \o w) = ScansIn(q) \o ScansIn(w)
    <3>1. PICK r \in Seq(Datagram), d \in Datagram : Len(r) = n /\ w = Append(r, d)
      BY <2>1, <2>2, LastDatagram
    <3>2. q \o w = Append(q \o r, d)
      <4>1. GoesToSecond(q, r, d)
        BY AppendToSecond, Zenon
      <4> QED BY <3>1, <4>1 DEF GoesToSecond
    <3>3. /\ q \o r \in Seq(Datagram)
          /\ ScansIn(q \o r) \in Seq(Nat) /\ ScansIn(q) \in Seq(Nat)
          /\ ScansIn(r) \in Seq(Nat)
      <4>1. q \o r \in Seq(Datagram)
        OBVIOUS
      <4> QED BY <4>1, ScansInNumbers
    <3>4. Told(d) \in Seq(Nat)
      BY DEF Told, Datagram
    <3>5. /\ ScansIn(q \o w) = ScansIn(q \o r) \o Told(d)
          /\ ScansIn(w) = ScansIn(r) \o Told(d)
      BY <3>1, <3>2, <3>3, ScansInAppend
    <3>6. ScansIn(q \o r) = ScansIn(q) \o ScansIn(r)
      BY <3>1
    <3>7. Associates(ScansIn(q), ScansIn(r), Told(d))
      BY <3>3, <3>4, ConcatAssociates, Zenon
    <3> QED BY <3>5, <3>6, <3>7 DEF Associates
  <2> QED BY <2>1, <2>2
<1>3. Nat \subseteq S
  <2> HIDE DEF S
  <2> QED BY <1>1, <1>2, CountingUp
<1>4. Len(v) \in Nat
  OBVIOUS
<1> QED BY <1>3, <1>4

\* No scan in s.
Scanless(s) == \A i \in 1 .. Len(s) : ~IsScan(s[i])

\* Where there is no scan there is no number.
LEMMA ScansInScanless == \A s \in Seq(Datagram) : Scanless(s) => ScansIn(s) = <<>>
<1> DEFINE S == {n \in Nat : \A s \in Seq(Datagram) :
                     Len(s) = n /\ Scanless(s) => ScansIn(s) = <<>>}
<1>1. S \in SUBSET Nat /\ 0 \in S
  <2>1. \A s \in Seq(Datagram) : Len(s) = 0 => s = <<>>
    OBVIOUS
  <2> QED BY <2>1, ScansInEmpty
<1>2. ASSUME NEW n \in S PROVE n + 1 \in S
  <2>1. n \in Nat /\ n + 1 \in Nat
    OBVIOUS
  <2>2. ASSUME NEW s \in Seq(Datagram), Len(s) = n + 1, Scanless(s)
        PROVE  ScansIn(s) = <<>>
    <3>1. PICK r \in Seq(Datagram), d \in Datagram : Len(r) = n /\ s = Append(r, d)
      BY <2>1, <2>2, LastDatagram
    <3>2. /\ \A i \in 1 .. n : i \in 1 .. n + 1 /\ s[i] = r[i]
          /\ s[n + 1] = d /\ n + 1 \in 1 .. n + 1
      BY <2>1, <3>1, AppendProperties
    <3>3. Scanless(r) /\ ~IsScan(d)
      BY <2>2, <3>1, <3>2 DEF Scanless
    <3>4. ScansIn(r) = <<>>
      BY <3>1, <3>3
    <3>5. <<>> \in Seq(Nat)
      OBVIOUS
    <3>6. ScansIn(s) = <<>> \o Told(d)
      BY <3>1, <3>4, <3>5, ScansInAppend
    <3>7. Told(d) = <<>>
      BY <3>3 DEF Told
    <3> QED BY <3>6, <3>7
  <2> QED BY <2>1, <2>2
<1> SUFFICES ASSUME NEW s \in Seq(Datagram), Scanless(s) PROVE ScansIn(s) = <<>>
  OBVIOUS
<1>3. Nat \subseteq S
  <2> HIDE DEF S
  <2> QED BY <1>1, <1>2, CountingUp
<1>4. Len(s) \in Nat
  OBVIOUS
<1> QED BY <1>3, <1>4

\* The scans of a single datagram.
LEMMA ScansInOne == \A d \in Datagram : ScansIn(<<d>>) = Told(d) /\ Told(d) \in Seq(Nat)
<1> SUFFICES ASSUME NEW d \in Datagram
             PROVE  ScansIn(<<d>>) = Told(d) /\ Told(d) \in Seq(Nat)
  OBVIOUS
<1>1. <<>> \in Seq(Datagram) /\ <<>> \in Seq(Nat) /\ Append(<<>>, d) = <<d>>
  OBVIOUS
<1>2. ScansIn(<<d>>) = <<>> \o Told(d)
  BY <1>1, ScansInEmpty, ScansInAppend
<1>3. Told(d) \in Seq(Nat)
  BY DEF Told, Datagram
<1> QED BY <1>2, <1>3

\* What is in front of a datagram of a queue, and what is behind it.
LEMMA Around ==
  ASSUME NEW q \in Seq(Datagram), NEW k \in 1 .. Len(q)
  PROVE  \E s, r \in Seq(Datagram) :
           /\ q = s \o (<<q[k]>> \o r) /\ RemoveAt(q, k) = s \o r
           /\ \A i \in 1 .. Len(s) : i \in 1 .. Len(q) /\ i < k /\ s[i] = q[i]
<1> DEFINE s == SubSeq(q, 1, k - 1)
           r == SubSeq(q, k + 1, Len(q))
<1>1. /\ s \in Seq(Datagram) /\ r \in Seq(Datagram) /\ RemoveAt(q, k) = s \o r
      /\ Len(s) = k - 1
      /\ \A i \in 1 .. k - 1 : i \in 1 .. Len(q) /\ i < k /\ s[i] = q[i]
  BY DEF RemoveAt
<1> DEFINE m == <<q[k]>>
<1>2. /\ m \in Seq(Datagram) /\ Len(m) = 1 /\ m[1] = q[k]
      /\ Len(r) = Len(q) - k /\ Len(q) \in Nat
      /\ \A i \in 1 .. Len(q) - k : r[i] = q[k + i]
  BY SubSeqProperties
<1> HIDE DEF s, r, m
<1>3. /\ m \o r \in Seq(Datagram) /\ Len(m \o r) = Len(q) - k + 1
      /\ \A i \in 1 .. Len(q) - k + 1 :
           (m \o r)[i] = IF i <= 1 THEN m[i] ELSE r[i - 1]
  <2>1. /\ m \o r \in Seq(Datagram) /\ Len(m \o r) = Len(m) + Len(r)
        /\ \A i \in 1 .. Len(m) + Len(r) :
             (m \o r)[i] = IF i <= Len(m) THEN m[i] ELSE r[i - Len(m)]
    BY <1>1, <1>2, ConcatProperties
  <2>2. Len(m) + Len(r) = Len(q) - k + 1
    BY <1>2
  <2> DEFINE b == m \o r
  <2> HIDE DEF b
  <2> QED BY <1>2, <2>1, <2>2 DEF b
<1>4. ASSUME NEW i \in 1 .. Len(q) - k + 1 PROVE (m \o r)[i] = q[k - 1 + i]
  <2>1. CASE i = 1
    BY <1>2, <1>3, <2>1
  <2>2. CASE i # 1
    <3>1. i - 1 \in 1 .. Len(q) - k /\ ~(i <= 1) /\ k + (i - 1) = k - 1 + i
      BY <2>2
    <3> QED BY <1>2, <1>3, <3>1
  <2> QED BY <2>1, <2>2
<1> DEFINE b == m \o r
<1> HIDE DEF b
<1>5. /\ s \o b \in Seq(Datagram) /\ Len(s \o b) = Len(q)
      /\ \A i \in 1 .. Len(q) :
           (s \o b)[i] = IF i <= Len(s) THEN s[i] ELSE b[i - Len(s)]
  <2>1. b \in Seq(Datagram) /\ Len(b) = Len(q) - k + 1
    BY <1>3 DEF b
  <2>2. Len(s) + Len(b) = Len(q)
    BY <1>1, <1>2, <2>1
  <2> QED BY <1>1, <2>1, <2>2, ConcatProperties
<1>6. ASSUME NEW i \in 1 .. Len(q) PROVE (s \o b)[i] = q[i]
  <2>1. CASE i < k
    BY <1>1, <1>2, <1>5, <2>1
  <2>2. CASE ~(i < k)
    <3>1. i - (k - 1) \in 1 .. Len(q) - k + 1 /\ k - 1 + (i - (k - 1)) = i
      BY <1>2, <2>2
    <3>2. b[i - (k - 1)] = q[i]
      BY <1>4, <3>1 DEF b
    <3> QED BY <1>1, <1>2, <1>5, <2>2, <3>2
  <2> QED BY <2>1, <2>2
<1>7. s \o b = q
  BY <1>5, <1>6, SeqEqual
<1> QED BY <1>1, <1>7 DEF b, m

\* Only a scan that is taken from a queue is missed there.
LEMMA ScansInRemove ==
  ASSUME NEW q \in Seq(Datagram), NEW k \in 1 .. Len(q)
  PROVE  /\ ~IsScan(q[k]) => ScansIn(RemoveAt(q, k)) = ScansIn(q)
         /\ IsScan(q[k]) /\ (\A i \in 1 .. Len(q) : IsScan(q[i]) => k <= i) =>
              ScansIn(q) = <<q[k].id>> \o ScansIn(RemoveAt(q, k))
<1> DEFINE d == q[k]
<1>1. PICK s \in Seq(Datagram), r \in Seq(Datagram) :
        /\ q = s \o (<<d>> \o r) /\ RemoveAt(q, k) = s \o r
        /\ \A i \in 1 .. Len(s) : i \in 1 .. Len(q) /\ i < k /\ s[i] = q[i]
  BY Around
<1>2. d \in Datagram /\ <<d>> \in Seq(Datagram)
  OBVIOUS
<1>3. k \in Nat /\ \A i \in 1 .. Len(q) : i < k => ~(k <= i)
  OBVIOUS
<1> HIDE DEF d
<1>4. /\ ScansIn(q) = ScansIn(s) \o (Told(d) \o ScansIn(r))
      /\ ScansIn(RemoveAt(q, k)) = ScansIn(s) \o ScansIn(r)
      /\ ScansIn(s) \in Seq(Nat) /\ ScansIn(r) \in Seq(Nat) /\ Told(d) \in Seq(Nat)
  <2>1. <<d>> \o r \in Seq(Datagram)
    BY <1>2, ConcatProperties
  <2>2. ScansIn(<<d>> \o r) = Told(d) \o ScansIn(r) /\ Told(d) \in Seq(Nat)
    <3>1. ScansIn(<<d>>) = Told(d) /\ Told(d) \in Seq(Nat)
      BY <1>2, ScansInOne, Zenon
    <3>2. ScansIn(<<d>> \o r) = ScansIn(<<d>>) \o ScansIn(r)
      BY <1>2, ScansInConcat, Zenon
    <3> QED BY <3>1, <3>2
  <2>3. ScansIn(s \o (<<d>> \o r)) = ScansIn(s) \o ScansIn(<<d>> \o r)
    BY <2>1, ScansInConcat, Zenon
  <2>4. ScansIn(s \o r) = ScansIn(s) \o ScansIn(r)
    BY ScansInConcat, Zenon
  <2>5. ScansIn(s) \in Seq(Nat) /\ ScansIn(r) \in Seq(Nat)
    BY ScansInNumbers, Zenon
  <2> QED BY <1>1, <2>2, <2>3, <2>4, <2>5
<1>5. ~IsScan(d) => ScansIn(RemoveAt(q, k)) = ScansIn(q)
  BY <1>4 DEF Told
<1>6. ASSUME IsScan(d), \A i \in 1 .. Len(q) : IsScan(q[i]) => k <= i
      PROVE  ScansIn(q) = <<d.id>> \o ScansIn(RemoveAt(q, k))
  <2>1. Scanless(s)
    BY <1>1, <1>3, <1>6 DEF Scanless
  <2>2. ScansIn(s) = <<>>
    BY <2>1, ScansInScanless
  <2>3. Told(d) = <<d.id>>
    BY <1>6 DEF Told
  <2>4. /\ <<>> \o (Told(d) \o ScansIn(r)) = Told(d) \o ScansIn(r)
        /\ <<>> \o ScansIn(r) = ScansIn(r)
    BY <1>4, ConcatEmptySeq, ConcatProperties
  <2> QED BY <1>4, <2>2, <2>3, <2>4
<1> QED BY <1>5, <1>6 DEF d

\* The scans published, queued and on the wire are the n that were made, in order.
Whole(p, q, w, n) == p \o (ScansIn(q) \o ScansIn(w)) = [i \in 1 .. n |-> i]

\* A new datagram on the wire.
LEMMA WholeAppend ==
  ASSUME NEW p \in Seq(Nat), NEW q \in Seq(Datagram), NEW w \in Seq(Datagram),
         NEW n \in Nat, Whole(p, q, w, n), NEW d \in Datagram
  PROVE  /\ ~IsScan(d) => Whole(p, q, Append(w, d), n)
         /\ IsScan(d) /\ d.id = n + 1 => Whole(p, q, Append(w, d), n + 1)
<1> DEFINE a == ScansIn(q)
           b == ScansIn(w)
           c == Told(d)
<1>1. a \in Seq(Nat) /\ b \in Seq(Nat) /\ c \in Seq(Nat)
  BY ScansInNumbers, ScansInOne
<1>2. ScansIn(Append(w, d)) = b \o c
  BY <1>1, ScansInAppend
<1> HIDE DEF a, b, c
<1>3. a \o b \in Seq(Nat)
  BY <1>1, ConcatProperties
<1>4. p \o (a \o (b \o c)) = (p \o (a \o b)) \o c
  <2>1. Associates(a, b, c) /\ Associates(p, a \o b, c)
    BY <1>1, <1>3, ConcatAssociates, Zenon
  <2> QED BY <2>1 DEF Associates
<1>5. p \o (a \o b) = [i \in 1 .. n |-> i]
  BY DEF Whole, a, b
<1>6. p \o (a \o ScansIn(Append(w, d))) = [i \in 1 .. n |-> i] \o c
  BY <1>2, <1>4, <1>5
<1>7. ASSUME ~IsScan(d) PROVE Whole(p, q, Append(w, d), n)
  <2>1. c = <<>>
    BY <1>7 DEF c, Told
  <2>2. [i \in 1 .. n |-> i] \o <<>> = [i \in 1 .. n |-> i]
    OBVIOUS
  <2> QED BY <1>6, <2>1, <2>2 DEF Whole, a
<1>8. ASSUME IsScan(d), d.id = n + 1 PROVE Whole(p, q, Append(w, d), n + 1)
  <2>1. c = <<n + 1>>
    BY <1>8 DEF c, Told
  <2>2. [i \in 1 .. n |-> i] \o <<n + 1>> = [i \in 1 .. n + 1 |-> i]
    OBVIOUS
  <2> QED BY <1>6, <2>1, <2>2 DEF Whole, a
<1> QED BY <1>7, <1>8

\* A datagram goes from the wire to the queue.
LEMMA WholePush ==
  ASSUME NEW p, NEW q \in Seq(Datagram), NEW w \in Seq(Datagram),
         NEW n, Whole(p, q, w, n), w # <<>>
  PROVE  Whole(p, Append(q, Head(w)), Tail(w), n)
<1> DEFINE d == Head(w)
           v == Tail(w)
<1>1. /\ d \in Datagram /\ v \in Seq(Datagram) /\ <<d>> \in Seq(Datagram)
      /\ w = <<d>> \o v
  OBVIOUS
<1> HIDE DEF d, v
<1> DEFINE a == ScansIn(q)
           b == ScansIn(v)
           c == Told(d)
<1>2. a \in Seq(Nat) /\ b \in Seq(Nat) /\ c \in Seq(Nat)
  BY <1>1, ScansInNumbers, ScansInOne
<1>3. ScansIn(Append(q, d)) = a \o c
  BY <1>1, <1>2, ScansInAppend
<1>4. ScansIn(w) = c \o b
  BY <1>1, ScansInOne, ScansInConcat
<1> HIDE DEF a, b, c
<1>5. (a \o c) \o b = a \o (c \o b)
  <2>1. Associates(a, c, b)
    BY <1>2, ConcatAssociates, Zenon
  <2> QED BY <2>1 DEF Associates
<1> QED BY <1>3, <1>4, <1>5 DEF Whole, a, b, d, v

\* What is no scan is taken, or the first scan is taken and published.
LEMMA WholeTake ==
  ASSUME NEW p \in Seq(Nat), NEW q \in Seq(Datagram), NEW w \in Seq(Datagram),
         NEW n, Whole(p, q, w, n), NEW k \in 1 .. Len(q)
  PROVE  /\ ~IsScan(q[k]) => Whole(p, RemoveAt(q, k), w, n)
         /\ IsScan(q[k]) /\ (\A i \in 1 .. Len(q) : IsScan(q[i]) => k <= i) =>
              Whole(Append(p, q[k].id), RemoveAt(q, k), w, n)
<1>1. ~IsScan(q[k]) => Whole(p, RemoveAt(q, k), w, n)
  BY ScansInRemove DEF Whole
<1>2. ASSUME IsScan(q[k]), \A i \in 1 .. Len(q) : IsScan(q[i]) => k <= i
      PROVE  Whole(Append(p, q[k].id), RemoveAt(q, k), w, n)
  <2> DEFINE x == q[k].id
             a == ScansIn(RemoveAt(q, k))
             b == ScansIn(w)
  <2>1. x \in Nat
    <3>1. q[k] \in Datagram
      OBVIOUS
    <3> QED BY <3>1 DEF Datagram
  <2>2. a \in Seq(Nat) /\ b \in Seq(Nat)
    BY RemoveElements, ScansInNumbers
  <2>3. ScansIn(q) = <<x>> \o a
    BY <1>2, ScansInRemove
  <2> HIDE DEF x, a, b
  <2>4. <<x>> \in Seq(Nat) /\ a \o b \in Seq(Nat) /\ Append(p, x) = p \o <<x>>
    BY <2>1, <2>2
  <2>5. /\ (<<x>> \o a) \o b = <<x>> \o (a \o b)
        /\ (p \o <<x>>) \o (a \o b) = p \o (<<x>> \o (a \o b))
    <3>1. Associates(<<x>>, a, b) /\ Associates(p, <<x>>, a \o b)
      BY <2>2, <2>4, ConcatAssociates, Zenon
    <3> QED BY <3>1 DEF Associates
  <2> QED BY <2>3, <2>4, <2>5 DEF Whole, x, a, b
<1> QED BY <1>1, <1>2

\* Nothing was made yet.
LEMMA WholeNone == Whole(<<>>, <<>>, <<>>, 0)
<1>1. <<>> \o (<<>> \o <<>>) = <<>> /\ [i \in 1 .. 0 |-> i] = <<>>
  OBVIOUS
<1> QED BY <1>1, ScansInEmpty DEF Whole

-----------------------------------------------------------------------------
(* The first connection *)

\* The laser thread connects where the last connection is closed, and no service is
\* called before it starts the scan.
Alone ==
    /\ at[Laser] = "connect" => link = "closed"
    /\ ~initialized => at[Main] = "idle"

\* Nothing is sent or received before there is a connection.
Unconnected ==
    connections = 0 =>
        /\ link = "closed" /\ wire = <<>> /\ queue = <<>> /\ asked = <<>>
        /\ published = <<>> /\ scans = 0
        /\ ~stale /\ ~late /\ ~streaming /\ ~initialized
        /\ at[Laser] \in {"connect", "send", "close"}
        /\ at[Laser] = "send" => cmd[Laser].name = "state"

\* The laser thread sends its two commands.
Opening == at[Laser] \in {"send", "wait", "pop", "next"}

AnswersTo(c) == {Reply(c), Refusal(c)}

\* The first datagram of the queue, or of the wire behind it, answers c.
AnswerFirst(q, w, c) ==
    \/ q # <<>> /\ q[1] \in AnswersTo(c)
    \/ q = <<>> /\ w # <<>> /\ w[1] \in AnswersTo(c)

\* There is no scan yet, or the answer to the start is in front of all of them.
AnswerBeforeScans ==
    \/ ~streaming /\ scans = 0
    \/ /\ at[Laser] \in {"wait", "pop"} /\ cmd[Laser].name = "start"
       /\ AnswerFirst(queue, wire, cmd[Laser])

\* A service asked for datagrams that the scans are among.
Competed == sent \cap {"LMDscandata", Empty} # {}

\* On the first connection all scans are there, in order, unless a service asked for
\* them, and while the laser thread sends its commands no scan can be taken for an
\* answer: the start of the scan is answered before the first of them.
FirstConnection ==
    connections = 1 /\ link = "open" =>
        /\ ~stale
        /\ ~Competed => Whole(published, queue, wire, scans)
        /\ Opening => ~initialized /\ ~late /\ AnswerBeforeScans

\* A thread is where it went, and the other where it was.
LEMMA Gone ==
  ASSUME Types, NEW t \in Threads, NEW place, Goto(t, place)
  PROVE  at'[t] = place /\ \A u \in Threads \ {t} : at'[u] = at[u]
BY DEF Types, TypeOK, Goto

\* The threads stay out of each other's way in every step.
LEMMA AloneNext == Types /\ Alone /\ [Next]_vars => Alone'
<1> SUFFICES ASSUME Types, Alone, [Next]_vars PROVE Alone'
  OBVIOUS
<1>1. ASSUME UNCHANGED <<at, initialized>>, link' = link \/ link' = "closed" \/ link = "open"
      PROVE  Alone'
  BY <1>1 DEF Alone
<1>2. CASE DeviceNext
  BY <1>1, <1>2 DEF DeviceNext, DeviceAnswers, DeviceRefuses, DeviceScans, LinkBreaks, Answer,
                    Breaks
<1>3. CASE ReaderNext
  BY <1>1, <1>3 DEF ReaderNext, ReaderPushes, ReaderCloses, ReaderEnds
<1>4. ASSUME NEW t \in Threads, CommandNext(t) PROVE Alone'
  <2>1. /\ \E place : Goto(t, place) /\ place # "connect"
        /\ at[t] # "idle" /\ link' = link /\ (initialized => initialized')
    <3>1. AfterFailure(t) # "connect"
      BY AfterPlaces
    <3>2. AfterAnswer(t) # "connect" /\ AfterRefusal(t) # "connect"
      BY AfterPlaces
    <3>3. CASE Pops(t)
      <4>1. \E place \in {AfterAnswer(t), AfterRefusal(t), "wait"} : Goto(t, place)
        BY <3>3 DEF Pops
      <4>2. at[t] = "pop" /\ link' = link
        BY <3>3 DEF Pops, tcp
      <4>3. initialized => initialized'
        BY <3>3, Zenon DEF Pops
      <4> QED BY <3>1, <3>2, <4>1, <4>2, <4>3
    <3>4. CASE Send(t) \/ Finds(t) \/ TimesOut(t) \/ GivesUp(t)
      BY <3>1, <3>4 DEF Send, Finds, TimesOut, GivesUp, tcp
    <3> QED BY <1>4, <3>3, <3>4 DEF CommandNext
  <2>2. CASE t = Main
    BY <2>1, <2>2, Gone DEF Alone
  <2>3. CASE t = Laser
    BY <2>1, <2>3, Gone DEF Alone
  <2> QED BY <2>2, <2>3
<1>5. CASE LaserNext
  <2>1. /\ \E place : Goto(Laser, place) /\ (place = "connect" => link' = "closed")
        /\ UNCHANGED initialized
    BY <1>5 DEF LaserNext, Connect, StartScan, FindsScan, TakesScan, ScanTimesOut, Close
  <2> QED BY <2>1, Gone DEF Alone
<1>6. ASSUME NEW name \in Services, ServiceCall(name) PROVE Alone'
  <2>1. initialized /\ Goto(Main, "send") /\ UNCHANGED <<link, initialized>>
    BY <1>6 DEF ServiceCall, tcp
  <2> QED BY <2>1, Gone DEF Alone
<1>7. CASE UNCHANGED vars
  BY <1>1, <1>7 DEF vars, tcp
<1> QED BY <1>2, <1>3, <1>4, <1>5, <1>6, <1>7 DEF Next

\* Nothing happens before the first connection.
LEMMA UnconnectedNext == Types /\ Alone /\ Unconnected /\ [Next]_vars => Unconnected'
<1> SUFFICES ASSUME Types, Alone, Unconnected, [Next]_vars, connections' = 0
             PROVE  Unconnected'
  BY DEF Unconnected
<1>1. connections = 0
  <2>1. connections \in Nat
    BY DEF Types, TypeOK
  <2>2. connections' = connections \/ connections' = connections + 1
    BY DEF Next, DeviceNext, DeviceAnswers, DeviceRefuses, DeviceScans, LinkBreaks, Answer,
           Breaks, ReaderNext, ReaderPushes, ReaderCloses, ReaderEnds, CommandNext, Send,
           Finds, TimesOut, GivesUp, Pops, LaserNext, Connect, StartScan, FindsScan,
           TakesScan, ScanTimesOut, Close, ServiceCall, vars, counters
  <2> QED BY <2>1, <2>2
<1>2. /\ link = "closed" /\ wire = <<>> /\ queue = <<>> /\ asked = <<>>
      /\ published = <<>> /\ scans = 0
      /\ ~stale /\ ~late /\ ~streaming /\ ~initialized
      /\ at[Laser] \in {"connect", "send", "close"} /\ at[Main] = "idle"
      /\ at[Laser] = "send" => cmd[Laser].name = "state"
  BY <1>1 DEF Unconnected, Alone
<1>3. ASSUME UNCHANGED <<link, wire, queue, asked, published, scans, stale, late, streaming,
                         initialized, at, cmd>>
      PROVE  Unconnected'
  BY <1>2, <1>3 DEF Unconnected
<1>4. ~DeviceNext /\ ~ReaderPushes /\ ~ReaderCloses /\ \A name : ~ServiceCall(name)
  BY <1>2 DEF DeviceNext, DeviceAnswers, DeviceRefuses, DeviceScans, LinkBreaks, Answer,
              Breaks, ReaderPushes, ReaderCloses, ServiceCall
<1>5. CASE ReaderEnds
  BY <1>3, <1>5 DEF ReaderEnds, device, history, counters
<1>6. ASSUME NEW t \in Threads, CommandNext(t) PROVE Unconnected'
  <2>1. t = Laser /\ Send(t)
    BY <1>2, <1>6 DEF CommandNext, Send, Finds, TimesOut, GivesUp, Pops
  <2>2. /\ Goto(Laser, "close")
        /\ UNCHANGED <<link, wire, queue, asked, published, scans, stale, late, streaming,
                       initialized>>
    BY <1>2, <2>1 DEF Send, AfterFailure, tcp, history
  <2>3. at'[Laser] = "close"
    BY <2>2, Gone
  <2> QED BY <1>2, <2>2, <2>3 DEF Unconnected
<1>7. CASE LaserNext
  <2>1. CASE Connect
    <3>1. /\ Goto(Laser, "send") /\ cmd' = [cmd EXCEPT ![Laser] = Command("state")]
          /\ UNCHANGED <<link, wire, queue, asked, published, scans, stale, late, streaming,
                         initialized>>
      BY <1>1, <2>1 DEF Connect, device, history
    <3>2. at'[Laser] = "send" /\ cmd'[Laser].name = "state"
      BY <3>1, Gone DEF Types, TypeOK, Command
    <3> QED BY <1>2, <3>1, <3>2 DEF Unconnected
  <2>2. CASE Close
    <3>1. /\ Goto(Laser, "connect")
          /\ link' = "closed" /\ wire' = <<>> /\ queue' = <<>> /\ asked' = <<>>
          /\ ~stale' /\ ~streaming'
          /\ UNCHANGED <<published, scans, late, initialized>>
      BY <1>2, <2>2 DEF Close, history, counters
    <3>2. at'[Laser] = "connect"
      BY <3>1, Gone
    <3> QED BY <1>2, <3>1, <3>2 DEF Unconnected
  <2>3. CASE StartScan \/ FindsScan \/ TakesScan \/ ScanTimesOut
    BY <1>2, <2>3 DEF StartScan, FindsScan, TakesScan, ScanTimesOut
  <2> QED BY <1>7, <2>1, <2>2, <2>3 DEF LaserNext
<1>8. CASE UNCHANGED vars
  BY <1>3, <1>8 DEF vars, tcp, device, history, counters
<1> QED BY <1>4, <1>5, <1>6, <1>7, <1>8 DEF Next, ReaderNext

\* Where no scan was made none is in the queue or on the wire.
LEMMA NoneBeforeFirst ==
  ASSUME NEW q \in Seq(Datagram), Sorted(q, 0)
  PROVE  Scanless(q) /\ (Quiet(q) => q = <<>>)
<1>1. Scanless(q)
  <2>1. \A n : n \notin 1 .. 0
    OBVIOUS
  <2> QED BY <2>1 DEF Sorted, Scanless
<1>2. ASSUME Quiet(q) PROVE q = <<>>
  <2>1. Len(q) \in Nat /\ (Len(q) # 0 => 1 \in 1 .. Len(q)) /\ (Len(q) = 0 => q = <<>>)
    OBVIOUS
  <2> QED BY <1>1, <1>2, <2>1 DEF Scanless, Quiet
<1> QED BY <1>1, <1>2

\* The answer in front stays there when a datagram comes, or goes to the queue.
LEMMA AnswerStays ==
  ASSUME NEW q \in Seq(Datagram), NEW w \in Seq(Datagram), NEW c, AnswerFirst(q, w, c)
  PROVE  /\ \A d \in Datagram : AnswerFirst(q, Append(w, d), c)
         /\ w # <<>> => AnswerFirst(Append(q, Head(w)), Tail(w), c)
<1>1. ASSUME NEW d \in Datagram
      PROVE  AnswerFirst(q, Append(w, d), c)
  <2>1. w # <<>> => Append(w, d)[1] = w[1]
    OBVIOUS
  <2>2. Append(w, d) # <<>>
    OBVIOUS
  <2> QED BY <2>1, <2>2 DEF AnswerFirst
<1>2. ASSUME w # <<>> PROVE AnswerFirst(Append(q, Head(w)), Tail(w), c)
  <2>1. Head(w) = w[1] /\ Head(w) \in Datagram
    BY <1>2
  <2>2. /\ q # <<>> => Append(q, Head(w))[1] = q[1]
        /\ q = <<>> => Append(q, Head(w))[1] = Head(w)
    BY <2>1
  <2>3. Append(q, Head(w)) # <<>>
    <3>1. \A d \in Datagram : Append(q, d) # <<>>
      OBVIOUS
    <3> QED BY <2>1, <3>1
  <2> QED BY <2>1, <2>2, <2>3 DEF AnswerFirst
<1> QED BY <1>1, <1>2

\* The lidar answers behind what is there, and starts its scans behind its answer.
LEMMA FirstDevice ==
  ASSUME Types, Mutex, Exchange, Ordered, Alone, FirstConnection, DeviceNext,
         connections' = 1, link' = "open"
  PROVE  FirstConnection'
<1>1. /\ wire \in Seq(Datagram) /\ queue \in Seq(Datagram) /\ asked \in Seq(Commands)
      /\ published \in Seq(Nat) /\ scans \in Nat /\ holder \in Threads \cup {None}
      /\ cmd \in [Threads -> Commands]
  BY DEF Types, TypeOK
<1>2. ASSUME NEW d, Answer(d), asked # <<>>, d \in AnswersTo(Head(asked)),
             Head(asked).name = "state" => streaming' = streaming
      PROVE  FirstConnection'
  <2>1. /\ link = "open" /\ connections = 1 /\ wire' = Append(wire, d)
        /\ UNCHANGED <<stale, queue, at, cmd, initialized, published, late, sent, scans>>
    BY <1>2 DEF Answer, history, counters
  <2>2. ~stale /\ (~Competed => Whole(published, queue, wire, scans))
    BY <2>1 DEF FirstConnection
  <2>3. Head(asked) \in Commands
    BY <1>1, <1>2, HeadTailProperties
  <2>4. d \in Datagram /\ ~IsScan(d)
    BY <1>2, <2>3 DEF AnswersTo, Reply, Refusal, Datagram, Commands, Keywords, IsScan
  <2>5. ~Competed => Whole(published, queue, wire', scans)
    BY <1>1, <2>1, <2>2, <2>4, WholeAppend
  <2>6. ASSUME Opening PROVE ~initialized /\ ~late /\ AnswerBeforeScans'
    <3>1. ~initialized /\ ~late /\ AnswerBeforeScans /\ at[Main] = "idle"
      BY <2>1, <2>6 DEF FirstConnection, Alone
    <3>2. holder = Laser
      BY <1>1, <1>2, <3>1 DEF Mutex, Exchange, Nothing
    <3>3. /\ Owed(asked, wire, queue, cmd[Laser]) /\ at[Laser] \in {"wait", "pop"}
          /\ cmd[Laser].name \in {"state", "start"}
      BY <3>1, <3>2 DEF Exchange, Mutex, Types, Named
    <3>4. /\ Quiet(wire) /\ Quiet(queue)
          /\ asked = <<cmd[Laser]>>
      BY <1>2, <3>3 DEF Owed
    <3>5. Head(asked) = cmd[Laser]
      BY <3>4
    <3>6. CASE scans = 0
      <4>1. queue = <<>> /\ wire = <<>>
        BY <1>1, <3>4, <3>6, NoneBeforeFirst DEF Ordered, Line
      <4>2. wire' # <<>> /\ wire'[1] = d
        BY <2>1, <2>4, <4>1
      <4>3. AnswerFirst(queue', wire', cmd'[Laser])
        BY <1>2, <2>1, <3>5, <4>1, <4>2 DEF AnswerFirst
      <4>4. CASE cmd[Laser].name = "start"
        BY <2>1, <3>1, <3>3, <4>3, <4>4 DEF AnswerBeforeScans
      <4>5. CASE cmd[Laser].name = "state"
        <5>1. streaming' = streaming
          BY <1>2, <3>5, <4>5
        <5>2. ~streaming
          BY <3>1, <4>5 DEF AnswerBeforeScans
        <5> QED BY <2>1, <3>1, <3>6, <5>1, <5>2 DEF AnswerBeforeScans
      <4> QED BY <3>3, <4>4, <4>5
    <3>7. CASE scans # 0
      <4>1. /\ cmd[Laser].name = "start" /\ AnswerFirst(queue, wire, cmd[Laser])
        BY <3>1, <3>7 DEF AnswerBeforeScans
      <4>2. AnswerFirst(queue', wire', cmd'[Laser])
        BY <1>1, <2>1, <2>4, <4>1, AnswerStays
      <4> QED BY <2>1, <3>1, <3>3, <4>1, <4>2 DEF AnswerBeforeScans
    <3> QED BY <3>6, <3>7
  <2> QED BY <2>1, <2>2, <2>5, <2>6 DEF FirstConnection, Opening, Competed
<1>3. CASE DeviceScans
  <2>1. /\ link = "open" /\ connections = 1 /\ streaming
        /\ scans' = scans + 1 /\ wire' = Append(wire, Scan(scans'))
        /\ UNCHANGED <<stale, queue, at, cmd, initialized, published, late, sent>>
    BY <1>3 DEF DeviceScans, history
  <2>2. ~stale /\ (~Competed => Whole(published, queue, wire, scans))
    BY <2>1 DEF FirstConnection
  <2>3. Scan(scans') \in Datagram /\ IsScan(Scan(scans')) /\ Scan(scans').id = scans + 1
    BY <1>1, <2>1 DEF Scan, Datagram, IsScan
  <2>4. ~Competed => Whole(published, queue, wire', scans')
    BY <1>1, <2>1, <2>2, <2>3, WholeAppend
  <2>5. ASSUME Opening PROVE ~initialized /\ ~late /\ AnswerBeforeScans'
    <3>1. /\ ~initialized /\ ~late
          /\ at[Laser] \in {"wait", "pop"} /\ cmd[Laser].name = "start"
          /\ AnswerFirst(queue, wire, cmd[Laser])
      BY <2>1, <2>5 DEF FirstConnection, AnswerBeforeScans
    <3>2. AnswerFirst(queue', wire', cmd'[Laser])
      BY <1>1, <2>1, <2>3, <3>1, AnswerStays
    <3> QED BY <2>1, <3>1, <3>2 DEF AnswerBeforeScans
  <2> QED BY <2>1, <2>2, <2>4, <2>5 DEF FirstConnection, Opening, Competed
<1>4. ~LinkBreaks
  BY DEF LinkBreaks, Breaks
<1>5. DeviceAnswers => (Head(asked).name = "state" => streaming' = streaming)
  BY DEF DeviceAnswers, Keyword
<1> QED BY <1>2, <1>3, <1>4, <1>5 DEF DeviceNext, DeviceAnswers, DeviceRefuses, AnswersTo

\* The read thread keeps the order.
LEMMA FirstReader ==
  ASSUME Types, FirstConnection, ReaderNext, connections' = 1, link' = "open"
  PROVE  FirstConnection'
<1>1. wire \in Seq(Datagram) /\ queue \in Seq(Datagram)
  BY DEF Types, TypeOK
<1>2. CASE ReaderPushes
  <2>1. /\ link = "open" /\ connections = 1 /\ wire # <<>> /\ wire' = Tail(wire)
        /\ stale \/ (queue' = Append(queue, Head(wire)) /\ UNCHANGED stale)
        /\ UNCHANGED <<streaming, at, cmd, initialized, published, late, sent, scans>>
    BY <1>2 DEF ReaderPushes, device, history, counters
  <2>2. /\ ~stale /\ (~Competed => Whole(published, queue, wire, scans))
        /\ Opening => ~initialized /\ ~late /\ AnswerBeforeScans
    BY <2>1 DEF FirstConnection
  <2>3. ~Competed => Whole(published, queue', wire', scans)
    BY <1>1, <2>1, <2>2, WholePush
  <2>4. AnswerFirst(queue, wire, cmd[Laser]) => AnswerFirst(queue', wire', cmd'[Laser])
    BY <1>1, <2>1, <2>2, AnswerStays
  <2> QED BY <2>1, <2>2, <2>3, <2>4
          DEF FirstConnection, Opening, AnswerBeforeScans, Competed
<1>3. CASE ReaderEnds
  BY <1>3 DEF ReaderEnds, FirstConnection, Opening, AnswerBeforeScans, Competed, device,
              history, counters
<1>4. ~ReaderCloses
  BY DEF ReaderCloses
<1> QED BY <1>2, <1>3, <1>4 DEF ReaderNext

\* The datagram a command takes is no scan, unless a service asked for scans.
LEMMA FirstPop ==
  ASSUME Types, Mutex, Ordered, Alone, FirstConnection, connections = 1, link = "open",
         NEW t \in Threads, Pops(t), t = Main => ~Competed
  PROVE  ~IsScan(queue[First(t)])
<1>1. /\ queue \in Seq(Datagram) /\ at[t] = "pop" /\ Matching(t) # {}
      /\ wire \in Seq(Datagram)
  BY DEF Types, TypeOK, Pops
<1>2. /\ First(t) \in 1 .. Len(queue) /\ First(t) \in Matching(t)
      /\ queue[First(t)] \in Datagram
      /\ \A j \in Matching(t) : First(t) <= j
  BY <1>1, FirstMatches
<1>3. queue[First(t)].kind = "sFA" \/ queue[First(t)].keyword = Keyword(cmd[t].name)
      \/ Empty = Keyword(cmd[t].name)
  BY <1>1, <1>2 DEF Matching, Fits, Wanted
<1>4. CASE t = Main \/ cmd[t].name # "start"
  <2>1. Keyword(cmd[t].name) \notin {"LMDscandata", Empty}
    <3>1. CASE t = Main
      BY <1>1, <3>1 DEF Competed, Types, Named
    <3>2. CASE t = Laser
      <4>1. cmd[t].name = "state"
        BY <1>1, <1>4, <3>2 DEF Types, Named
      <4> QED BY <4>1 DEF Keyword
    <3> QED BY <3>1, <3>2
  <2> QED BY <1>2, <1>3, <2>1 DEF Datagram, IsScan
<1>5. CASE t = Laser /\ cmd[t].name = "start"
  <2>1. t = Laser
    BY <1>5
  <2>2. AnswerBeforeScans
    BY <1>1, <2>1 DEF FirstConnection, Opening
  <2>3. CASE scans = 0
    BY <1>1, <1>2, <2>3, NoneBeforeFirst DEF Ordered, Line, Scanless
  <2>4. CASE scans # 0
    <3>1. queue # <<>> /\ queue[1] \in AnswersTo(cmd[Laser]) /\ 1 \in 1 .. Len(queue)
      <4>1. Len(queue) \in Nat /\ (Len(queue) # 0 => queue # <<>> /\ 1 \in 1 .. Len(queue))
        BY <1>1
      <4>2. First(t) \in 1 .. Len(queue)
        BY <1>2
      <4>3. Len(queue) # 0
        BY <4>1, <4>2
      <4> QED BY <2>2, <2>4, <4>1, <4>3 DEF AnswerBeforeScans, AnswerFirst
    <3>2. queue[1].kind \in {"reply", "sFA"}
          /\ (queue[1].kind = "sFA" \/ queue[1].keyword = Keyword(cmd[t].name))
      BY <2>1, <3>1 DEF AnswersTo, Reply, Refusal
    <3>3. 1 \in Matching(t)
      BY <1>1, <3>1, <3>2 DEF Matching, Fits, Wanted
    <3>4. First(t) = 1
      BY <1>2, <3>3
    <3> QED BY <3>2, <3>4 DEF IsScan
  <2> QED BY <2>3, <2>4
<1> QED BY <1>4, <1>5

\* A command takes its answer and leaves the scans.
LEMMA FirstCommand ==
  ASSUME Types, Mutex, Ordered, Alone, FirstConnection, NEW t \in Threads, CommandNext(t),
         connections' = 1, link' = "open"
  PROVE  FirstConnection'
<1>1. /\ wire \in Seq(Datagram) /\ queue \in Seq(Datagram) /\ published \in Seq(Nat)
      /\ cmd \in [Threads -> Commands]
  BY DEF Types, TypeOK
<1>2. /\ link = "open" /\ connections = 1
      /\ UNCHANGED <<stale, wire, published, scans, streaming, sent>>
  <2>1. CASE Send(t) \/ Finds(t) \/ TimesOut(t)
    BY <2>1 DEF Send, Finds, TimesOut, tcp, device, history, counters
  <2>2. CASE GivesUp(t) \/ Pops(t)
    BY <2>2 DEF GivesUp, Pops, tcp, device, history, counters
  <2> QED BY <2>1, <2>2 DEF CommandNext
<1>3. /\ ~stale /\ (~Competed => Whole(published, queue, wire, scans))
      /\ Opening => ~initialized /\ ~late /\ AnswerBeforeScans
  BY <1>2 DEF FirstConnection
<1>4. ~Competed' => Whole(published', queue', wire', scans')
  <2> SUFFICES ASSUME ~Competed, Whole(published, queue, wire, scans)
               PROVE  Whole(published', queue', wire', scans')
    BY <1>2, <1>3 DEF Competed
  <2>1. CASE Pops(t)
    <3>1. First(t) \in 1 .. Len(queue) /\ queue' = RemoveAt(queue, First(t))
      BY <1>1, <2>1, FirstMatches DEF Pops
    <3>2. ~IsScan(queue[First(t)])
      BY <1>2, <2>1, FirstPop
    <3> QED BY <1>1, <1>2, <1>3, <3>1, <3>2, WholeTake
  <2>2. CASE Send(t) \/ Finds(t) \/ TimesOut(t) \/ GivesUp(t)
    BY <1>2, <1>3, <2>2 DEF Send, Finds, TimesOut, GivesUp, tcp
  <2> QED BY <2>1, <2>2 DEF CommandNext
<1>5. CASE t = Main
  <2>1. at[Main] # "idle"
    BY <1>5 DEF CommandNext, Send, Finds, TimesOut, GivesUp, Pops
  <2>2. ~Opening
    BY <1>3, <2>1 DEF Alone
  <2>3. at'[Laser] = at[Laser]
    <3>1. \E place : Goto(Main, place)
      BY <1>5 DEF CommandNext, Send, Finds, TimesOut, GivesUp, Pops
    <3> QED BY <3>1, Gone
  <2> QED BY <1>2, <1>3, <1>4, <2>2, <2>3 DEF FirstConnection, Opening
<1>6. CASE t = Laser
  <2>1. /\ Opening /\ ~initialized /\ ~late /\ AnswerBeforeScans
    BY <1>3, <1>6 DEF Opening, CommandNext, Send, Finds, TimesOut, GivesUp, Pops
  <2>2. CASE Send(Laser)
    <3>1. /\ Goto(Laser, "wait") /\ at[Laser] = "send"
          /\ UNCHANGED <<queue, initialized, late>>
      BY <1>2, <2>2 DEF Send, tcp, history
    <3>2. at'[Laser] = "wait" /\ ~streaming /\ scans = 0
      BY <2>1, <3>1, Gone DEF AnswerBeforeScans
    <3> QED BY <1>2, <1>3, <1>4, <2>1, <3>1, <3>2
            DEF FirstConnection, Opening, AnswerBeforeScans
  <2>3. CASE Finds(Laser)
    <3>1. /\ Goto(Laser, "pop") /\ UNCHANGED <<queue, cmd, initialized, late>>
      BY <2>3 DEF Finds, tcp, history
    <3>2. at'[Laser] = "pop"
      BY <3>1, Gone
    <3> QED BY <1>2, <1>3, <1>4, <2>1, <3>1, <3>2
            DEF FirstConnection, Opening, AnswerBeforeScans
  <2>4. CASE TimesOut(Laser) \/ GivesUp(Laser)
    <3>1. Goto(Laser, "close")
      BY <2>4 DEF TimesOut, GivesUp, AfterFailure
    <3>2. at'[Laser] = "close"
      BY <3>1, Gone
    <3> QED BY <1>2, <1>3, <1>4, <3>2 DEF FirstConnection, Opening
  <2>5. CASE Pops(Laser)
    <3>1. ~IsScan(queue[First(Laser)])
      BY <1>2, <2>5, FirstPop
    <3>0. /\ at[Laser] = "pop" /\ cmd[Laser].name \in {"state", "start"}
          /\ queue[First(Laser)] \in Datagram
          /\ First(Laser) \in Matching(Laser)
      BY <1>1, <2>5, FirstMatches DEF Pops, Types, Named
    <3>5. queue[First(Laser)].kind = "sFA" \/ IsAnswer(queue[First(Laser)], Laser)
      <4>1. Keyword(cmd[Laser].name) # Empty
        BY <3>0 DEF Keyword
      <4> QED BY <3>0, <3>1, <4>1 DEF Matching, Fits, Wanted, IsAnswer, Datagram, IsScan
    <3>2. /\ at[Laser] = "pop" /\ UNCHANGED late
          /\ initialized' = (initialized \/ at'[Laser] = "scan")
          /\ at'[Laser] \in {AfterAnswer(Laser), AfterRefusal(Laser)}
      BY <2>5, <3>5, Gone DEF Pops
    <3>3. CASE cmd[Laser].name = "start"
      <4>1. at'[Laser] = "scan"
        BY <3>2, <3>3, AfterPlaces
      <4> QED BY <1>2, <1>3, <1>4, <4>1 DEF FirstConnection, Opening
    <3>4. CASE cmd[Laser].name # "start"
      <4>1. ~streaming /\ scans = 0
        BY <2>1, <3>4 DEF AnswerBeforeScans
      <4>2. ~initialized'
        BY <2>1, <3>0, <3>2, <3>4, AfterPlaces
      <4> QED BY <1>2, <1>3, <1>4, <2>1, <3>2, <4>1, <4>2
              DEF FirstConnection, AnswerBeforeScans
    <3> QED BY <3>3, <3>4
  <2> QED BY <1>6, <2>2, <2>3, <2>4, <2>5 DEF CommandNext
<1> QED BY <1>5, <1>6

\* The laser thread makes the connection, and publishes the oldest scan.
LEMMA FirstLaser ==
  ASSUME Types, Alone, Unconnected, FirstConnection, LaserNext,
         connections' = 1, link' = "open"
  PROVE  FirstConnection'
<1>1. /\ wire \in Seq(Datagram) /\ queue \in Seq(Datagram) /\ published \in Seq(Nat)
      /\ connections \in Nat
  BY DEF Types, TypeOK
<1>2. CASE Connect
  <2>1. ~(link = "open" /\ at[Laser] = "connect")
    BY DEF Alone
  <2>2. /\ Goto(Laser, "send") /\ connections' = connections + 1
        /\ UNCHANGED <<stale, wire, queue, published, scans, streaming, initialized, late>>
    BY <1>2, <2>1 DEF Connect, device, history
  <2>3. connections = 0
    BY <1>1, <2>2
  <2>4. /\ ~stale /\ wire = <<>> /\ queue = <<>> /\ published = <<>> /\ scans = 0
        /\ ~streaming /\ ~initialized /\ ~late
    BY <2>3 DEF Unconnected
  <2>5. Whole(published', queue', wire', scans')
    BY <2>2, <2>4, WholeNone
  <2> QED BY <2>2, <2>4, <2>5 DEF FirstConnection, AnswerBeforeScans
<1>3. CASE StartScan
  <2>1. /\ link = "open" /\ connections = 1 /\ at[Laser] = "next"
        /\ UNCHANGED <<stale, wire, queue, published, scans, streaming, initialized, late,
                       sent>>
    BY <1>3 DEF StartScan, tcp, device, history, counters
  <2>2. /\ ~stale /\ (~Competed => Whole(published, queue, wire, scans))
        /\ ~initialized /\ ~late /\ ~streaming /\ scans = 0
    BY <2>1 DEF FirstConnection, Opening, AnswerBeforeScans
  <2> QED BY <2>1, <2>2 DEF FirstConnection, AnswerBeforeScans, Competed
<1>4. ASSUME NEW place \in {"scan", "take", "close"}, Goto(Laser, place),
             UNCHANGED <<link, connections, stale, sent>>,
             link = "open" /\ connections = 1 /\ ~Competed
               => Whole(published', queue', wire', scans')
      PROVE  FirstConnection'
  <2>1. at'[Laser] = place
    BY <1>4, Gone
  <2> QED BY <1>4, <2>1 DEF FirstConnection, Opening, Competed
<1>5. CASE FindsScan \/ ScanTimesOut
  <2>1. /\ \E place \in {"take", "close"} : Goto(Laser, place)
        /\ UNCHANGED <<link, connections, stale, published, queue, wire, scans, sent>>
    BY <1>5 DEF FindsScan, ScanTimesOut, tcp, device, history, counters
  <2> QED BY <1>4, <2>1 DEF FirstConnection
<1>6. CASE TakesScan
  <2>1. /\ Goto(Laser, "scan") /\ UNCHANGED <<link, connections, stale, wire, scans, sent>>
    BY <1>6 DEF TakesScan, tcp, counters
  <2>2. Whole(published, queue, wire, scans) => Whole(published', queue', wire', scans')
    <3> DEFINE k == First(Laser)
    <3>1. /\ k \in 1 .. Len(queue) /\ queue' = RemoveAt(queue, k)
          /\ published' = IF queue[k].kind = "scan" THEN Append(published, queue[k].id)
                          ELSE published
      BY <1>1, <1>6, FirstMatches DEF TakesScan
    <3>2. \A j \in 1 .. Len(queue) : IsScan(queue[j]) => k <= j
      BY <1>1, <1>6, OldestFirst
    <3> HIDE DEF k
    <3> QED BY <1>1, <2>1, <3>1, <3>2, WholeTake DEF IsScan
  <2> QED BY <1>4, <2>1, <2>2 DEF FirstConnection
<1>7. ~Close
  BY DEF Close
<1> QED BY <1>2, <1>3, <1>4, <1>5, <1>6, <1>7 DEF LaserNext

\* The inductive invariant of NoScanLost.
FirstInv == Types /\ Mutex /\ Exchange /\ Ordered /\ Alone /\ Unconnected /\ FirstConnection

\* It is kept by every step.
LEMMA FirstNext == FirstInv /\ [Next]_vars => FirstInv'
<1> SUFFICES ASSUME FirstInv, [Next]_vars PROVE FirstInv'
  OBVIOUS
<1>1. Types /\ Mutex /\ Exchange /\ Ordered /\ Alone /\ Unconnected /\ FirstConnection
  BY DEF FirstInv
<1>2. FirstConnection'
  <2> SUFFICES ASSUME connections' = 1, link' = "open" PROVE FirstConnection'
    BY DEF FirstConnection
  <2>1. ASSUME NEW name \in Services, ServiceCall(name) PROVE FirstConnection'
    <3>1. /\ initialized /\ Goto(Main, "send") /\ sent \subseteq sent'
          /\ UNCHANGED <<link, connections, stale, published, queue, wire, scans,
                         initialized>>
      BY <2>1 DEF ServiceCall, tcp, device
    <3>2. at'[Laser] = at[Laser]
      BY <1>1, <3>1, Gone
    <3>3. Competed => Competed'
      BY <3>1 DEF Competed
    <3> QED BY <1>1, <3>1, <3>2, <3>3 DEF FirstConnection, Opening
  <2>2. CASE UNCHANGED vars
    BY <1>1, <2>2 DEF FirstConnection, Opening, AnswerBeforeScans, Competed, vars, tcp, device,
                      history, counters
  <2> QED BY <1>1, <2>1, <2>2, FirstDevice, FirstReader, FirstCommand, FirstLaser DEF Next
<1> QED BY <1>1, <1>2, TypesNext, MutexNext, ExchangeNext, OrderedNext, AloneNext,
           UnconnectedNext DEF FirstInv

\* It holds at the start.
LEMMA FirstInit == Init => FirstInv
<1> SUFFICES ASSUME Init PROVE FirstInv
  OBVIOUS
<1>1. Alone /\ Unconnected /\ FirstConnection
  BY DEF Init, Alone, Unconnected, FirstConnection
<1> QED BY <1>1, TypesInit, MutexInit, ExchangeInit, OrderedInit DEF FirstInv

\* On the first connection, for any number of scans and service calls, each scan is
\* published, queued or on the wire, in the order they were made in, unless a service
\* sent a command whose keyword the scans match.
THEOREM NoScanIsLost == Spec => []NoScanLost
<1>1. FirstInv => NoScanLost
  <2> SUFFICES ASSUME FirstInv, connections = 1, link = "open", ~Competed
               PROVE  published \o ScansIn(queue \o wire) = [n \in 1 .. scans |-> n]
    BY DEF NoScanLost, Competed
  <2>1. Whole(published, queue, wire, scans)
    BY DEF FirstInv, FirstConnection
  <2>2. ScansIn(queue \o wire) = ScansIn(queue) \o ScansIn(wire)
    BY ScansInConcat DEF FirstInv, Types, TypeOK
  <2> QED BY <2>1, <2>2 DEF Whole
<1> QED BY <1>1, FirstInit, FirstNext, PTL DEF Spec

-----------------------------------------------------------------------------
(* A thread that has found a datagram *)

\* findFirstByKeyword, for a list of keywords.
Serves(d, keywords) == d.kind = "sFA" \/ d.keyword \in keywords \/ Empty \in keywords

\* Datagram i of q is the first that findFirstByKeyword finds.
FoundAt(q, keywords, i) ==
    /\ i \in 1 .. Len(q) /\ Serves(q[i], keywords)
    /\ \A j \in 1 .. Len(q) : Serves(q[j], keywords) => i <= j

\* It is not the refusal of somebody else's command.
Own(d, n) == d.kind = "sFA" => d.id = n

\* The datagram a thread has found, and is about to pop, is still there.
StillThere(t) == \E i \in 1 .. Len(queue) : FoundAt(queue, Wanted(t), i) /\ Own(queue[i], cmd[t].id)

Popping(t) == at[t] \in {"pop", "take"}

\* A service asked for datagrams that the laser thread waits for, too.
Overlapped == sent \cap (LoopKeywords \cup {Empty}) # {}

Ready == ~strayed /\ ~Overlapped => \A t \in Threads : Popping(t) => StillThere(t)

\* A command that is under way has a number, and not that of the other thread's.
Numbered ==
    /\ \A t \in Threads : cmd[t].id <= ids
    /\ at[Main] \in {"wait", "pop"} => cmd[Main].id > 0 /\ cmd[Main].id # cmd[Laser].id

\* The wait of pop has no timeout: unless a refusal was found by a thread it was not
\* for, or a service sent a command whose keyword is one of loopOnce's or none, no
\* thread is in it for a datagram that is not there.
PopFinds ==
    Starved => strayed \/ sent \cap {"LMDscandata", "LIDoutputstate", Empty} # {}

\* What comes behind does not change which datagram is found.
LEMMA FoundBefore ==
  ASSUME NEW q \in Seq(Datagram), NEW d \in Datagram, NEW keywords, NEW i,
         FoundAt(q, keywords, i)
  PROVE  FoundAt(Append(q, d), keywords, i) /\ Append(q, d)[i] = q[i]
<1> DEFINE r == Append(q, d)
<1>1. /\ Len(q) \in Nat /\ Len(r) = Len(q) + 1 /\ i \in 1 .. Len(q)
      /\ \A j \in 1 .. Len(q) + 1 : r[j] = IF j = Len(q) + 1 THEN d ELSE q[j]
  BY AppendElements DEF FoundAt
<1> HIDE DEF r
<1>2. r[i] = q[i]
  BY <1>1
<1>3. ASSUME NEW j \in 1 .. Len(r), Serves(r[j], keywords) PROVE i <= j
  <2>1. CASE j = Len(q) + 1
    BY <1>1, <2>1
  <2>2. CASE j # Len(q) + 1
    <3>1. j \in 1 .. Len(q) /\ r[j] = q[j]
      BY <1>1, <2>2
    <3> QED BY <1>3, <3>1 DEF FoundAt
  <2> QED BY <2>1, <2>2
<1>4. i \in 1 .. Len(r) /\ Serves(r[i], keywords)
  BY <1>1, <1>2 DEF FoundAt
<1> QED BY <1>2, <1>3, <1>4 DEF r, FoundAt

\* Nor does it when another datagram is taken out.
LEMMA FoundBeside ==
  ASSUME NEW q \in Seq(Datagram), NEW k \in 1 .. Len(q), NEW keywords, NEW i,
         FoundAt(q, keywords, i), i # k
  PROVE  \E l \in 1 .. Len(RemoveAt(q, k)) :
           FoundAt(RemoveAt(q, k), keywords, l) /\ RemoveAt(q, k)[l] = q[i]
<1> DEFINE r == RemoveAt(q, k)
           l == IF i < k THEN i ELSE i - 1
<1>1. /\ Len(q) \in Nat /\ Len(r) = Len(q) - 1 /\ i \in 1 .. Len(q)
      /\ \A j \in 1 .. Len(q) - 1 : r[j] = q[IF j < k THEN j ELSE j + 1]
  BY RemoveElements DEF FoundAt
<1> HIDE DEF r
<1>2. l \in 1 .. Len(r) /\ r[l] = q[i]
  <2>1. l \in 1 .. Len(q) - 1 /\ (IF l < k THEN l ELSE l + 1) = i
    BY <1>1
  <2> QED BY <1>1, <2>1
<1>3. ASSUME NEW j \in 1 .. Len(r), Serves(r[j], keywords) PROVE l <= j
  <2> DEFINE m == IF j < k THEN j ELSE j + 1
  <2>1. m \in 1 .. Len(q) /\ r[j] = q[m]
    BY <1>1
  <2>2. i <= m
    <3> HIDE DEF m
    <3> QED BY <1>3, <2>1 DEF FoundAt
  <2> QED BY <1>1, <2>2
<1> HIDE DEF l
<1>4. Serves(r[l], keywords)
  BY <1>2 DEF FoundAt
<1> QED BY <1>2, <1>3, <1>4 DEF r, FoundAt

\* First is the datagram that is found.
LEMMA FirstIsFound ==
  ASSUME Types, NEW t \in Threads, Matching(t) # {}
  PROVE  FoundAt(queue, Wanted(t), First(t)) /\ queue[First(t)] \in Datagram
<1>1. queue \in Seq(Datagram)
  BY DEF Types, TypeOK
<1>2. \A j \in 1 .. Len(queue) : j \in Matching(t) <=> Serves(queue[j], Wanted(t))
  BY <1>1 DEF Matching, Fits, Serves
<1> QED BY <1>1, <1>2, FirstMatches DEF FoundAt

\* A thread that found its datagram keeps it, when others come behind it or go.
LEMMA StaysThere ==
  ASSUME Types, NEW t \in Threads, StillThere(t), cmd'[t] = cmd[t],
         Wanted(t)' = Wanted(t),
         \/ queue' = queue
         \/ \E d \in Datagram : queue' = Append(queue, d)
         \/ \E k \in 1 .. Len(queue) :
              queue' = RemoveAt(queue, k) /\ ~FoundAt(queue, Wanted(t), k)
  PROVE  StillThere(t)'
<1>1. queue \in Seq(Datagram)
  BY DEF Types, TypeOK
<1>2. PICK i \in 1 .. Len(queue) :
        FoundAt(queue, Wanted(t), i) /\ Own(queue[i], cmd[t].id)
  BY DEF StillThere
<1>3. SUFFICES \E l \in 1 .. Len(queue') :
                 FoundAt(queue', Wanted(t), l) /\ queue'[l] = queue[i]
  BY <1>2 DEF StillThere
<1>4. CASE queue' = queue
  BY <1>2, <1>4
<1>5. ASSUME NEW d \in Datagram, queue' = Append(queue, d)
      PROVE  \E l \in 1 .. Len(queue') :
               FoundAt(queue', Wanted(t), l) /\ queue'[l] = queue[i]
  <2>1. FoundAt(queue', Wanted(t), i) /\ queue'[i] = queue[i]
    BY <1>1, <1>2, <1>5, FoundBefore
  <2> QED BY <2>1 DEF FoundAt
<1>6. ASSUME NEW k \in 1 .. Len(queue), queue' = RemoveAt(queue, k),
             ~FoundAt(queue, Wanted(t), k)
      PROVE  \E l \in 1 .. Len(queue') :
               FoundAt(queue', Wanted(t), l) /\ queue'[l] = queue[i]
  <2>1. i # k
    BY <1>2, <1>6
  <2> QED BY <1>1, <1>2, <1>6, <2>1, FoundBeside
<1> QED BY <1>4, <1>5, <1>6

\* The laser thread with a scan in view and the main thread with an answer in view do
\* not have the same datagram in view.
LEMMA NotTheSame ==
  ASSUME Types, Numbered, ~Overlapped, at[Laser] = "take", at[Main] = "pop",
         StillThere(Laser), StillThere(Main), NEW k
  PROVE  ~(FoundAt(queue, Wanted(Laser), k) /\ FoundAt(queue, Wanted(Main), k))
<1> SUFFICES ASSUME FoundAt(queue, Wanted(Laser), k), FoundAt(queue, Wanted(Main), k)
             PROVE  FALSE
  OBVIOUS
<1>1. queue[k] \in Datagram /\ k \in 1 .. Len(queue)
  BY DEF Types, TypeOK, FoundAt
<1>2. /\ Wanted(Laser) = LoopKeywords /\ Empty \notin LoopKeywords
      /\ Wanted(Main) \cap (LoopKeywords \cup {Empty}) = {}
  BY DEF Wanted, Overlapped, LoopKeywords, Types, Named
<1>3. queue[k].kind = "sFA"
  BY <1>2 DEF FoundAt, Fits, Serves
<1>4. ASSUME NEW t \in Threads, StillThere(t), FoundAt(queue, Wanted(t), k)
      PROVE  Own(queue[k], cmd[t].id)
  <2>1. PICK i \in 1 .. Len(queue) :
          FoundAt(queue, Wanted(t), i) /\ Own(queue[i], cmd[t].id)
    BY <1>4 DEF StillThere
  <2>2. i <= k /\ k <= i
    BY <1>1, <1>4, <2>1 DEF FoundAt
  <2>3. i = k
    BY <1>1, <2>2
  <2> QED BY <2>1, <2>3
<1>5. queue[k].id = cmd[Laser].id /\ queue[k].id = cmd[Main].id
  BY <1>3, <1>4 DEF Own, Threads
<1> QED BY <1>5 DEF Numbered

\* Numbers are handed out in order, and only to the thread that takes the mutex.
LEMMA NumberedNext == Types /\ Mutex /\ Numbered /\ [Next]_vars => Numbered'
<1> SUFFICES ASSUME Types, Mutex, Numbered, [Next]_vars PROVE Numbered'
  OBVIOUS
<1>0. /\ ids \in Nat /\ cmd \in [Threads -> Commands] /\ Laser # Main
      /\ \A t \in Threads : cmd[t].id \in Nat
  BY DEF Types, TypeOK, Commands, Laser, Main
<1>1. ASSUME UNCHANGED <<cmd, ids>>, at'[Main] \in {"wait", "pop"} => at[Main] \in {"wait", "pop"}
      PROVE  Numbered'
  BY <1>1 DEF Numbered
<1>2. CASE DeviceNext
  BY <1>1, <1>2 DEF DeviceNext, DeviceAnswers, DeviceRefuses, DeviceScans, LinkBreaks, Answer,
                    Breaks, counters
<1>3. CASE ReaderNext
  BY <1>1, <1>3 DEF ReaderNext, ReaderPushes, ReaderCloses, ReaderEnds, counters
<1>4. ASSUME NEW t \in Threads, CommandNext(t) PROVE Numbered'
  <2>1. ASSUME at[t] \in {"wait", "pop"}, UNCHANGED <<cmd, ids>>,
               NEW place, Goto(t, place)
        PROVE  Numbered'
    BY <1>1, <2>1, Gone DEF Threads
  <2>2. CASE Send(t) /\ link = "closed"
    <3>1. AfterFailure(t) \notin {"wait", "pop"}
      BY AfterPlaces
    <3>2. Goto(t, AfterFailure(t)) /\ UNCHANGED <<cmd, ids>>
      BY <2>2 DEF Send
    <3> QED BY <1>1, <3>1, <3>2, Gone DEF Threads
  <2>3. CASE Send(t) /\ link # "closed"
    <3>1. /\ holder = None /\ ids' = ids + 1 /\ Goto(t, "wait")
          /\ cmd' = [cmd EXCEPT ![t].id = ids']
      BY <2>3 DEF Send
    <3>2. cmd'[t].id = ids + 1 /\ \A u \in Threads \ {t} : cmd'[u] = cmd[u]
      BY <1>0, <3>1 DEF Commands
    <3>3. at[Main] \notin {"wait", "pop"}
      BY <3>1 DEF Mutex, Threads, Main, None
    <3>4. at'[t] = "wait" /\ \A u \in Threads \ {t} : at'[u] = at[u]
      BY <3>1, Gone
    <3>5. \A u \in Threads : cmd'[u].id <= ids'
      BY <1>0, <3>1, <3>2 DEF Numbered
    <3>6. CASE t = Main
      <4>1. cmd'[Main].id = ids + 1 /\ cmd'[Laser].id = cmd[Laser].id /\ cmd[Laser].id <= ids
        BY <1>0, <3>2, <3>6 DEF Numbered, Threads
      <4> QED BY <1>0, <3>5, <4>1 DEF Numbered, Threads
    <3>7. CASE t = Laser
      BY <1>0, <3>3, <3>4, <3>5, <3>7 DEF Numbered, Threads
    <3> QED BY <3>6, <3>7 DEF Threads
  <2>4. CASE Finds(t) \/ TimesOut(t) \/ GivesUp(t)
    BY <2>1, <2>4 DEF Finds, TimesOut, GivesUp, counters
  <2>5. CASE Pops(t)
    BY <2>1, <2>5 DEF Pops, counters
  <2> QED BY <1>4, <2>2, <2>3, <2>4, <2>5 DEF CommandNext
<1>5. ASSUME NEW name, cmd' = [cmd EXCEPT ![Laser] = Command(name)], ids' = ids,
             NEW place, Goto(Laser, place)
      PROVE  Numbered'
  <2>1. cmd'[Laser].id = 0 /\ cmd'[Main] = cmd[Main] /\ at'[Main] = at[Main]
    BY <1>0, <1>5, Gone DEF Command, Threads
  <2> QED BY <1>0, <1>5, <2>1 DEF Numbered, Threads
<1>6. CASE Connect
  BY <1>5, <1>6 DEF Connect
<1>7. CASE StartScan
  BY <1>5, <1>7 DEF StartScan, counters
<1>8. CASE FindsScan \/ TakesScan \/ ScanTimesOut \/ Close
  <2>1. at'[Main] = at[Main]
    BY <1>0, <1>8, Gone DEF FindsScan, TakesScan, ScanTimesOut, Close, Threads
  <2> QED BY <1>1, <1>8, <2>1 DEF FindsScan, TakesScan, ScanTimesOut, Close, counters
<1>9. ASSUME NEW name \in Services, ServiceCall(name) PROVE Numbered'
  <2>1. /\ cmd'[Main].id = 0 /\ cmd'[Laser] = cmd[Laser] /\ ids' = ids
        /\ at'[Main] = "send"
    BY <1>0, <1>9, Gone DEF ServiceCall, Command, Threads
  <2> QED BY <1>0, <2>1 DEF Numbered, Threads
<1>10. CASE UNCHANGED vars
  BY <1>1, <1>10 DEF vars, counters
<1> QED BY <1>2, <1>3, <1>4, <1>6, <1>7, <1>8, <1>9, <1>10 DEF Next, LaserNext

\* A thread that looks for its datagram finds the first, and its own unless it strays.
LEMMA FoundIsThere ==
  ASSUME Types, NEW t \in Threads, Matching(t) # {}, ~IsForeign(queue[First(t)], cmd[t])
  PROVE  StillThere(t)
BY FirstIsFound DEF StillThere, Own, IsForeign, FoundAt

\* What a thread has found stays, in every step.
LEMMA ReadyNext ==
  Types /\ Mutex /\ Alone /\ Numbered /\ Ready /\ [Next]_vars => Ready'
<1> SUFFICES ASSUME Types, Mutex, Alone, Numbered, Ready, [Next]_vars,
                    ~strayed', ~Overlapped'
             PROVE  \A t \in Threads : Popping(t)' => StillThere(t)'
  BY DEF Ready
<1>0. /\ Threads = {Laser, Main} /\ Laser # Main /\ at[Main] # "take"
      /\ queue \in Seq(Datagram) /\ wire \in Seq(Datagram)
  BY DEF Threads, Types, TypeOK, Laser, Main
<1>00. ~Overlapped
  <2>1. sent \subseteq sent'
    BY DEF Next, DeviceNext, DeviceAnswers, DeviceRefuses, DeviceScans, LinkBreaks, Answer,
           Breaks, ReaderNext, ReaderPushes, ReaderCloses, ReaderEnds, CommandNext, Send,
           Finds, TimesOut, GivesUp, Pops, LaserNext, Connect, StartScan, FindsScan,
           TakesScan, ScanTimesOut, Close, ServiceCall, vars, history
  <2> QED BY <2>1 DEF Overlapped
<1>1. ASSUME NEW t \in Threads, Popping(t), ~strayed, cmd'[t] = cmd[t], at'[t] = at[t],
             \/ queue' = queue
             \/ \E d \in Datagram : queue' = Append(queue, d)
             \/ \E k \in 1 .. Len(queue) :
                  queue' = RemoveAt(queue, k) /\ ~FoundAt(queue, Wanted(t), k)
      PROVE  StillThere(t)'
  <2>1. StillThere(t) /\ Wanted(t)' = Wanted(t)
    BY <1>00, <1>1 DEF Ready, Wanted
  <2> QED BY <1>1, <2>1, StaysThere
<1>2. ASSUME UNCHANGED <<at, cmd, strayed>>,
             \/ queue' = queue
             \/ \E d \in Datagram : queue' = Append(queue, d)
      PROVE  \A t \in Threads : Popping(t)' => StillThere(t)'
  BY <1>1, <1>2 DEF Popping
<1>3. ASSUME NEW t \in Threads, NEW place, Goto(t, place), place \notin {"pop", "take"},
             UNCHANGED <<strayed, queue>>, \A u \in Threads \ {t} : cmd'[u] = cmd[u]
      PROVE  \A u \in Threads : Popping(u)' => StillThere(u)'
  <2>1. at'[t] = place /\ \A u \in Threads \ {t} : at'[u] = at[u]
    BY <1>3, Gone
  <2> QED BY <1>1, <1>3, <2>1 DEF Popping
<1>4. ASSUME NEW t \in Threads, NEW place, Goto(t, place), place \in {"pop", "take"},
             Wanted(t)' = Wanted(t), Matching(t) # {},
             strayed' = (strayed \/ IsForeign(queue[First(t)], cmd[t])),
             UNCHANGED <<queue, cmd>>
      PROVE  \A u \in Threads : Popping(u)' => StillThere(u)'
  <2>1. at'[t] = place /\ \A u \in Threads \ {t} : at'[u] = at[u]
    BY <1>4, Gone
  <2>2. ~strayed /\ StillThere(t)
    BY <1>4, FoundIsThere
  <2>3. StillThere(t)'
    BY <1>4, <2>2 DEF StillThere
  <2> QED BY <1>1, <1>4, <2>1, <2>2, <2>3 DEF Popping
<1>5. CASE DeviceNext
  BY <1>2, <1>5 DEF DeviceNext, DeviceAnswers, DeviceRefuses, DeviceScans, LinkBreaks, Answer,
                    Breaks, history
<1>6. CASE ReaderNext
  <2>1. ASSUME ReaderPushes
        PROVE  queue' = queue \/ \E d \in Datagram : queue' = Append(queue, d)
    BY <1>0, <2>1 DEF ReaderPushes
  <2> QED BY <1>2, <1>6, <2>1 DEF ReaderNext, ReaderPushes, ReaderCloses, ReaderEnds, history
<1>7. ASSUME NEW t \in Threads, CommandNext(t)
      PROVE  \A u \in Threads : Popping(u)' => StillThere(u)'
  <2>0. AfterFailure(t) \notin {"pop", "take"}
    BY AfterPlaces
  <2>1. CASE Send(t)
    <3>1. /\ \E place : place \notin {"pop", "take"} /\ Goto(t, place)
          /\ UNCHANGED <<strayed, queue>>
      BY <2>0, <2>1 DEF Send, history
    <3>2. \A u \in Threads \ {t} : cmd'[u] = cmd[u]
      BY <2>1 DEF Send, Types, TypeOK
    <3> QED BY <1>3, <3>1, <3>2
  <2>2. CASE Finds(t)
    <3>1. Wanted(t)' = Wanted(t)
      <4>1. at[t] = "wait" /\ at'[t] = "pop" /\ cmd' = cmd
        BY <2>2, Gone DEF Finds
      <4> QED BY <4>1 DEF Wanted
    <3> QED BY <1>4, <2>2, <3>1 DEF Finds
  <2>3. CASE TimesOut(t) \/ GivesUp(t)
    BY <1>3, <2>0, <2>3 DEF TimesOut, GivesUp, history
  <2>4. CASE Pops(t)
    <3>1. /\ at[t] = "pop" /\ Matching(t) # {} /\ queue' = RemoveAt(queue, First(t))
          /\ UNCHANGED <<cmd, strayed>>
      BY <2>4 DEF Pops
    <3>2. PICK place \in {AfterAnswer(t), AfterRefusal(t), "wait"} : Goto(t, place)
      BY <2>4 DEF Pops
    <3>3. at'[t] \notin {"pop", "take"} /\ \A u \in Threads \ {t} : at'[u] = at[u]
      BY <2>0, <3>1, <3>2, AfterPlaces, Gone
    <3>4. ASSUME NEW u \in Threads, Popping(u)' PROVE StillThere(u)'
      <4>1. u # t /\ at'[u] = at[u] /\ Popping(u)
        BY <3>3, <3>4 DEF Popping
      <4>2. at[u] # "pop"
        BY <3>1, <4>1 DEF Mutex
      <4>3. t = Main /\ u = Laser /\ at[Laser] = "take"
        BY <1>0, <4>1, <4>2 DEF Popping
      <4>4. StillThere(Laser) /\ StillThere(Main)
        BY <1>0, <1>00, <3>1, <4>3 DEF Ready, Popping
      <4>5. FoundAt(queue, Wanted(Main), First(Main))
        BY <3>1, <4>3, FirstIsFound
      <4>6. First(Main) \in 1 .. Len(queue) /\ ~FoundAt(queue, Wanted(Laser), First(Main))
        BY <1>00, <3>1, <4>3, <4>4, <4>5, NotTheSame DEF FoundAt
      <4> QED BY <1>1, <3>1, <4>1, <4>3, <4>6
    <3> QED BY <3>4
  <2> QED BY <1>7, <2>1, <2>2, <2>3, <2>4 DEF CommandNext
<1>8. CASE Connect \/ StartScan
  <2>1. /\ \E place : place \notin {"pop", "take"} /\ Goto(Laser, place)
        /\ UNCHANGED <<strayed, queue>>
    BY <1>8 DEF Connect, StartScan, history
  <2>2. \A u \in Threads \ {Laser} : cmd'[u] = cmd[u]
    BY <1>8 DEF Connect, StartScan, Types, TypeOK
  <2> QED BY <1>0, <1>3, <2>1, <2>2
<1>9. CASE FindsScan
  <2>1. Wanted(Laser)' = Wanted(Laser)
    <3>1. at[Laser] = "scan" /\ at'[Laser] = "take" /\ cmd' = cmd
      BY <1>0, <1>9, Gone DEF FindsScan
    <3> QED BY <3>1 DEF Wanted
  <2> QED BY <1>0, <1>4, <1>9, <2>1 DEF FindsScan
<1>10. CASE TakesScan
  <2>1. /\ at[Laser] = "take" /\ Matching(Laser) # {}
        /\ queue' = RemoveAt(queue, First(Laser)) /\ UNCHANGED <<cmd, strayed>>
        /\ Goto(Laser, "scan")
    BY <1>10 DEF TakesScan
  <2>2. at'[Laser] = "scan" /\ at'[Main] = at[Main]
    BY <1>0, <2>1, Gone
  <2>3. ASSUME NEW u \in Threads, Popping(u)' PROVE StillThere(u)'
    <3>1. u = Main /\ at[Main] = "pop"
      BY <1>0, <2>2, <2>3 DEF Popping
    <3>2. StillThere(Laser) /\ StillThere(Main)
      BY <1>0, <1>00, <2>1, <3>1 DEF Ready, Popping
    <3>3. FoundAt(queue, Wanted(Laser), First(Laser))
      BY <1>0, <2>1, FirstIsFound
    <3>4. First(Laser) \in 1 .. Len(queue) /\ ~FoundAt(queue, Wanted(Main), First(Laser))
      BY <1>00, <2>1, <3>1, <3>2, <3>3, NotTheSame DEF FoundAt
    <3>5. Popping(Main) /\ at'[Main] = at[Main] /\ cmd'[Main] = cmd[Main]
      BY <2>1, <2>2, <3>1 DEF Popping
    <3> QED BY <1>1, <2>1, <3>1, <3>4, <3>5
  <2> QED BY <2>3
<1>11. CASE ScanTimesOut
  BY <1>0, <1>3, <1>11 DEF ScanTimesOut, history
<1>12. CASE Close
  <2>1. at[Laser] = "close" /\ Goto(Laser, "connect") /\ UNCHANGED <<cmd, strayed>>
    BY <1>12 DEF Close, history
  <2>2. CASE initialized
    <3>1. queue' = queue
      BY <1>12, <2>2 DEF Close
    <3> QED BY <1>0, <1>3, <2>1, <3>1
  <2>3. CASE ~initialized
    <3>1. at[Main] = "idle" /\ at'[Main] = at[Main] /\ at'[Laser] = "connect"
      BY <1>0, <2>1, <2>3, Gone DEF Alone
    <3> QED BY <1>0, <3>1 DEF Popping
  <2> QED BY <2>2, <2>3
<1>13. ASSUME NEW name \in Services, ServiceCall(name)
       PROVE  \A t \in Threads : Popping(t)' => StillThere(t)'
  <2>1. Goto(Main, "send") /\ UNCHANGED <<strayed, queue>>
    BY <1>13 DEF ServiceCall
  <2>2. \A u \in Threads \ {Main} : cmd'[u] = cmd[u]
    BY <1>13 DEF ServiceCall, Types, TypeOK
  <2> QED BY <1>0, <1>3, <2>1, <2>2
<1>14. CASE UNCHANGED vars
  BY <1>2, <1>14 DEF vars, history
<1> QED BY <1>5, <1>6, <1>7, <1>8, <1>9, <1>10, <1>11, <1>12, <1>13, <1>14
        DEF Next, LaserNext

\* A thread never waits in pop, where no timeout ends the wait, for a datagram that the
\* other thread took, unless a refusal was found by a thread it was not for, or a
\* service sent a command whose keyword is in loopOnce's list or is empty: the only
\* ways to an endless wait, for any number of connections, scans and calls.  A service
\* that sends commands of other keywords is in danger through refusals only.
THEOREM PopNeverWaits == Spec => []PopFinds
<1> DEFINE Inv == Types /\ Mutex /\ Alone /\ Numbered /\ Ready
<1>1. Init => Inv
  <2> SUFFICES ASSUME Init PROVE Inv
    OBVIOUS
  <2>1. Alone /\ Numbered /\ Ready
    BY DEF Init, Alone, Numbered, Ready, Popping, Command, Threads, Laser, Main
  <2> QED BY <2>1, TypesInit, MutexInit
<1>2. Inv /\ [Next]_vars => Inv'
  BY TypesNext, MutexNext, AloneNext, NumberedNext, ReadyNext
<1>3. Inv => PopFinds
  <2> SUFFICES ASSUME Inv, ~strayed, ~Overlapped, NEW t \in Threads, Popping(t)
               PROVE  Matching(t) # {}
    BY DEF PopFinds, Overlapped, LoopKeywords, Starved, Starves, Popping
  <2>1. PICK i \in 1 .. Len(queue) : FoundAt(queue, Wanted(t), i)
    BY DEF Ready, StillThere
  <2>2. queue \in Seq(Datagram)
    BY DEF Types, TypeOK
  <2>3. i \in Matching(t)
    BY <2>1, <2>2 DEF Matching, FoundAt, Fits, Serves
  <2> QED BY <2>3
<1> QED BY <1>1, <1>2, <1>3, PTL DEF Spec
==============================================================================
