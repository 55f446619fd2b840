------------------------- MODULE VoicePipelineProofs -------------------------
(***************************************************************************)
(* Proofs about VoicePipeline, for every window, memory and bound.         *)
(*                                                                         *)
(* The argument for process_segments: messages arrive in order and each    *)
(* reaches at most Window segments further than the one before (InboxChain); *)
(* the memory holds the last min(LastHeard, MaxRemembered) segments        *)
(* (Memory); so a segment of the window that is not in the memory can only *)
(* be the one after LastHeard (lemma NextInLine).                          *)
(***************************************************************************)
EXTENDS VoicePipeline, SequenceTheorems, TLAPS

\* The types of what the server and the connection thread keep.
RxType ==
    /\ dial \in 0 .. MaxDials
    /\ spoken \in 0 .. MaxSegments
    /\ told \in 0 .. MaxSegments
    /\ inbox \in Seq(0 .. MaxSegments)
    /\ rx \in {"down", "check", "recv", "segments", "done"}
    /\ upto \in 0 .. MaxSegments
    /\ pos \in 1 .. MaxSegments + 1
    /\ processed_keys \in SUBSET Segments
    /\ processed_order \in Seq(Segments)
    /\ rx \notin {"down", "done"} => dial # 0

\* The memory is the run of the last segments heard, as long as it can be.
Memory ==
    /\ LastHeard \in 0 .. MaxSegments
    /\ Len(processed_order) =
         IF LastHeard <= MaxRemembered THEN LastHeard ELSE MaxRemembered
    /\ \A k \in Segments : k \in processed_keys <=>
         LastHeard - Len(processed_order) < k /\ k <= LastHeard
    /\ \A k \in 1 .. Len(processed_order) :
         processed_order[k] = LastHeard - Len(processed_order) + k

\* How far the message being processed has been worked through.
Progress ==
    IF rx = "segments"
      THEN /\ FirstOf(upto) <= pos /\ pos <= upto + 1
           /\ pos <= LastHeard + 1 /\ LastHeard <= upto
      ELSE LastHeard = upto

\* Each message under way reaches at most Window segments further.
InboxChain ==
    /\ Len(inbox) > 0 => upto <= inbox[1] /\ inbox[1] <= upto + Window
    /\ \A k \in 1 .. Len(inbox) - 1 :
         inbox[k] <= inbox[k + 1] /\ inbox[k + 1] <= inbox[k] + Window
    /\ told = IF Len(inbox) = 0 THEN upto ELSE inbox[Len(inbox)]
    /\ told <= spoken /\ spoken <= told + Window

RxInv == RxType /\ Memory /\ Progress /\ InboxChain

USE WindowAssumption, MemoryAssumption, BoundsAssumption

\* A segment that is not remembered is the one after the last one heard.
LEMMA NextInLine ==
  ASSUME RxInv, TranscribeSegment
  PROVE  pos = LastHeard + 1 /\ pos \in Segments /\ dial \in Sessions
<1> USE DEF RxInv, RxType, Segments, Sessions
<1>1. /\ rx = "segments" /\ pos <= upto /\ pos \notin processed_keys
      /\ pos \in Segments /\ dial \in Sessions
  BY DEF TranscribeSegment
<1>2. pos > LastHeard - Len(processed_order)
  BY <1>1 DEF Memory, Progress, FirstOf
<1>3. pos > LastHeard
  <2>1. pos \in Segments /\ LastHeard \in Nat /\ pos \in Nat
    BY <1>1 DEF Memory
  <2> QED BY <1>1, <1>2, <2>1 DEF Memory
<1> QED BY <1>1, <1>3 DEF Progress, Memory

\* Remembering the next segment keeps the memory a run (lines 364-368).
LEMMA RememberKeepsRun ==
  ASSUME RxInv, NEW i \in Segments, i = LastHeard + 1, Remember(i)
  PROVE  /\ Memory' /\ LastHeard' = i
         /\ processed_keys' \in SUBSET Segments
         /\ processed_order' \in Seq(Segments)
<1> DEFINE len == Len(processed_order)
           longer == Append(processed_order, i)
<1>1. /\ processed_order \in Seq(Segments) /\ processed_keys \in SUBSET Segments
      /\ len \in Nat /\ LastHeard \in Nat /\ i \in Nat /\ i \in 0 .. MaxSegments
      /\ MaxRemembered \in Nat /\ MaxRemembered >= 1
      /\ \A k \in Segments : k \in Nat
  BY DEF RxInv, RxType, Memory, Segments
<1>2. /\ len = IF LastHeard <= MaxRemembered THEN LastHeard ELSE MaxRemembered
      /\ \A k \in Segments :
           k \in processed_keys <=> LastHeard - len < k /\ k <= LastHeard
      /\ \A k \in 1 .. len : processed_order[k] = LastHeard - len + k
  BY DEF RxInv, Memory
<1>3. /\ longer \in Seq(Segments) /\ longer # <<>> /\ Len(longer) = len + 1
      /\ longer[len + 1] = i
      /\ \A k \in 1 .. len : longer[k] = processed_order[k]
      /\ Head(longer) = longer[1]
  BY <1>1
<1>4. \A k \in 1 .. len + 1 : longer[k] = LastHeard - len + k
  <2> SUFFICES ASSUME NEW k \in 1 .. len + 1
               PROVE  longer[k] = LastHeard - len + k
    OBVIOUS
  <2>1. CASE k = len + 1  BY <1>1, <1>3, <2>1
  <2>2. CASE k \in 1 .. len  BY <1>2, <1>3, <2>2
  <2> QED BY <1>1, <2>1, <2>2
<1>5. CASE len < MaxRemembered
  <2>1. processed_order' = longer /\ processed_keys' = processed_keys \cup {i}
    BY <1>5 DEF Remember
  <2>2. len = LastHeard
    BY <1>1, <1>2, <1>5
  <2> HIDE DEF len, longer
  <2>3. LastHeard' = i /\ Len(processed_order') = i
    BY <1>1, <1>3, <2>1, <2>2 DEF LastHeard
  <2>4. \A k \in Segments : k \in processed_keys' <=> 0 < k /\ k <= i
    BY <1>1, <1>2, <2>1, <2>2
  <2>5. \A k \in 1 .. i : processed_order'[k] = k
    BY <1>1, <1>4, <2>1, <2>2
  <2>6. Memory'
    BY <1>1, <1>5, <2>2, <2>3, <2>4, <2>5 DEF Memory
  <2> QED BY <1>1, <1>3, <2>1, <2>3, <2>6
<1>6. CASE ~(len < MaxRemembered)
  <2>1. /\ processed_order' = Tail(longer)
        /\ processed_keys' = (processed_keys \cup {i}) \ {Head(longer)}
    BY <1>6 DEF Remember
  <2>2. len = MaxRemembered /\ LastHeard >= len
    BY <1>1, <1>2, <1>6
  <2> HIDE DEF len, longer
  <2>3. /\ processed_order' \in Seq(Segments) /\ Len(processed_order') = len
        /\ \A k \in 1 .. len : processed_order'[k] = longer[k + 1]
    BY <1>1, <1>3, <2>1
  <2>4. \A k \in 1 .. len : processed_order'[k] = i - len + k
    <3> SUFFICES ASSUME NEW k \in 1 .. len
                 PROVE  processed_order'[k] = i - len + k
      OBVIOUS
    <3>1. len \in Nat /\ k + 1 \in 1 .. len + 1
      BY <1>1, <2>2
    <3>2. processed_order'[k] = LastHeard - len + (k + 1)
      BY <1>4, <2>3, <3>1
    <3> QED BY <1>1, <3>1, <3>2
  <2>5. processed_order' # <<>>
    BY <1>1, <2>2, <2>3
  <2>6. LastHeard' = i
    BY <1>1, <2>2, <2>3, <2>4, <2>5 DEF LastHeard
  <2>7. Head(longer) = LastHeard - len + 1
    BY <1>1, <1>3, <1>4
  <2>8. \A k \in Segments : k \in processed_keys' <=> i - len < k /\ k <= i
    BY <1>1, <1>2, <2>1, <2>2, <2>7
  <2>9. Memory'
    BY <1>1, <2>2, <2>3, <2>4, <2>6, <2>8 DEF Memory
  <2> QED BY <1>1, <2>1, <2>3, <2>6, <2>9
<1> QED BY <1>5, <1>6

LEMMA InitRx == Init => RxInv
<1> SUFFICES ASSUME Init PROVE RxInv
  OBVIOUS
<1>1. LastHeard = 0
  BY DEF Init, LastHeard
<1>2. RxType
  BY DEF Init, RxType, Segments
<1>3. Memory /\ Progress
  BY <1>1, Len(<<>>) = 0 DEF Init, Memory, Progress, Segments
<1>4. InboxChain
  BY Len(<<>>) = 0 DEF Init, InboxChain
<1> QED BY <1>2, <1>3, <1>4 DEF RxInv

\* Every step preserves the invariant of the connection thread.
LEMMA NextRx == RxInv /\ [Next]_vars => RxInv'
<1> SUFFICES ASSUME RxInv, [Next]_vars
             PROVE  RxInv'
  OBVIOUS
<1> USE DEF RxInv, server, rxVars
<1>1. CASE SegmentCompletes
  BY <1>1 DEF SegmentCompletes, RxType, Memory, LastHeard, Progress, InboxChain
<1>2. CASE ServerSends
  <2>1. RxType' /\ Memory' /\ Progress'
    BY <1>2 DEF ServerSends, RxType, Memory, LastHeard, Progress
  <2>2. /\ inbox' = Append(inbox, spoken) /\ told' = spoken
        /\ Len(inbox) \in Nat /\ Len(inbox') = Len(inbox) + 1
        /\ inbox'[Len(inbox) + 1] = spoken
        /\ \A k \in 1 .. Len(inbox) : inbox'[k] = inbox[k]
        /\ UNCHANGED <<upto, spoken>>
    BY <1>2 DEF ServerSends, RxType
  <2>3. /\ spoken \in Nat /\ upto \in Nat /\ told \in Nat /\ Window \in Nat
        /\ told <= spoken /\ spoken <= told + Window
        /\ spoken <= spoken /\ spoken <= spoken + Window
    BY DEF RxType, InboxChain
  <2>4. CASE Len(inbox) = 0
    <3>1. upto <= inbox'[1] /\ inbox'[1] <= upto + Window
      BY <2>2, <2>4, <2>3 DEF InboxChain
    <3>2. told' = inbox'[Len(inbox')] /\ 1 .. Len(inbox') - 1 = {}
      BY <2>2, <2>4
    <3> QED BY <2>1, <2>2, <2>4, <2>3, <3>1, <3>2 DEF InboxChain
  <2>5. CASE Len(inbox) > 0
    <3>1. inbox'[1] = inbox[1] /\ told = inbox[Len(inbox)]
      BY <2>2, <2>5 DEF InboxChain
    <3>2. ASSUME NEW k \in 1 .. Len(inbox') - 1
          PROVE  inbox'[k] <= inbox'[k + 1] /\ inbox'[k + 1] <= inbox'[k] + Window
      <4>1. CASE k = Len(inbox)
        BY <2>2, <3>1, <4>1 DEF InboxChain
      <4>2. CASE k \in 1 .. Len(inbox) - 1
        BY <2>2, <4>2 DEF InboxChain
      <4> QED BY <2>2, <4>1, <4>2
    <3>3. upto <= inbox'[1] /\ inbox'[1] <= upto + Window
      BY <2>5, <3>1 DEF InboxChain
    <3>4. told' = inbox'[Len(inbox')]
      BY <2>2
    <3>5. upto' <= inbox'[1] /\ inbox'[1] <= upto' + Window
      BY <2>2, <3>3
    <3>6. told' <= spoken' /\ spoken' <= told' + Window /\ Len(inbox') # 0
      BY <2>2, <2>3
    <3> HIDE DEF RxInv
    <3>7. InboxChain'
      BY <3>2, <3>4, <3>5, <3>6 DEF InboxChain
    <3> QED BY <2>1, <3>7 DEF RxInv
  <2> QED BY <2>2, <2>4, <2>5
<1>3. CASE Connect
  <2>1. LastHeard' = 0
    BY <1>3 DEF Connect, ResetSegmentState, LastHeard
  <2>2. RxType'
    BY <1>3 DEF Connect, ResetSegmentState, RxType, Segments
  <2>3. Memory' /\ Progress'
    BY <1>3, <2>1, Len(<<>>) = 0
    DEF Connect, ResetSegmentState, Memory, Progress, Segments
  <2>4. InboxChain'
    BY <1>3, Len(<<>>) = 0 DEF Connect, InboxChain
  <2> QED BY <2>2, <2>3, <2>4
<1>4. CASE ReceiveCheck \/ ConnectionEnds \/ ConnectionLoopEnds
  BY <1>4 DEF ReceiveCheck, ConnectionEnds, ConnectionLoopEnds, RxType,
              Memory, LastHeard, Progress, InboxChain
<1>5. CASE Receive
  <2>1. /\ inbox # <<>> /\ Len(inbox) >= 1 /\ Head(inbox) = inbox[1]
        /\ upto' = inbox[1] /\ inbox' = Tail(inbox)
        /\ inbox' \in Seq(0 .. MaxSegments) /\ Len(inbox') = Len(inbox) - 1
        /\ \A k \in 1 .. Len(inbox') : inbox'[k] = inbox[k + 1]
        /\ inbox[1] \in 0 .. MaxSegments
    BY <1>5 DEF Receive, RxType
  <2>2. upto <= inbox[1] /\ inbox[1] <= upto + Window
    BY <2>1 DEF InboxChain, RxType
  <2>3. LastHeard = upto /\ LastHeard' = LastHeard
    BY <1>5 DEF Receive, Progress, LastHeard
  <2>4. RxType'
    BY <1>5, <2>1 DEF Receive, RxType, FirstOf
  <2>5. Memory'
    BY <1>5, <2>3 DEF Receive, Memory
  <2>6. Progress'
    BY <1>5, <2>1, <2>2, <2>3 DEF Receive, RxType, Progress, FirstOf
  <2>7. InboxChain'
    <3>1. UNCHANGED <<told, spoken>> /\ Len(inbox) \in Nat
      BY <1>5 DEF Receive, RxType
    <3>2. CASE Len(inbox) = 1
      BY <2>1, <3>1, <3>2 DEF InboxChain
    <3>3. CASE Len(inbox) > 1
      <4>1. /\ inbox'[1] = inbox[2] /\ inbox'[Len(inbox')] = inbox[Len(inbox)]
            /\ inbox[1] <= inbox[2] /\ inbox[2] <= inbox[1] + Window
        BY <2>1, <3>1, <3>3 DEF InboxChain
      <4>2. ASSUME NEW k \in 1 .. Len(inbox') - 1
            PROVE  inbox'[k] <= inbox'[k + 1] /\ inbox'[k + 1] <= inbox'[k] + Window
        <5>1. inbox'[k] = inbox[k + 1] /\ inbox'[k + 1] = inbox[(k + 1) + 1]
          BY <2>1, <3>1
        <5>2. k + 1 \in 1 .. Len(inbox) - 1
          BY <2>1, <3>1
        <5> QED BY <5>1, <5>2 DEF InboxChain
      <4>3. told' = inbox'[Len(inbox')]
        BY <3>1, <3>3, <4>1 DEF InboxChain
      <4>4. told' <= spoken' /\ spoken' <= told' + Window
        BY <3>1 DEF InboxChain
      <4>5. upto' <= inbox'[1] /\ inbox'[1] <= upto' + Window
        BY <2>1, <4>1
      <4>6. Len(inbox') # 0
        BY <2>1, <3>1, <3>3
      <4> HIDE DEF RxInv
      <4> QED BY <4>2, <4>3, <4>4, <4>5, <4>6 DEF InboxChain
    <3> QED BY <2>1, <3>1, <3>2, <3>3
  <2> QED BY <2>4, <2>5, <2>6, <2>7
<1>6. CASE SkipSegment
  <2>1. /\ pos' = pos + 1 /\ pos <= upto /\ rx = "segments" /\ rx' = rx
        /\ pos \in processed_keys
        /\ UNCHANGED <<dial, spoken, told, inbox, upto, processed_keys,
                       processed_order>>
    BY <1>6 DEF SkipSegment
  <2>2. pos <= LastHeard
    BY <2>1 DEF RxType, Memory
  <2>3. RxType'
    BY <2>1 DEF RxType
  <2> QED BY <2>1, <2>2, <2>3 DEF RxType, Memory, LastHeard, Progress,
                                  InboxChain, FirstOf
<1>7. CASE TranscribeSegment
  <2>1. /\ pos = LastHeard + 1 /\ pos \in Segments /\ Remember(pos)
        /\ pos <= upto /\ rx = "segments" /\ pos' = pos + 1
        /\ UNCHANGED <<spoken, told, dial, inbox, rx, upto>>
    BY <1>7, NextInLine DEF TranscribeSegment
  <2>2. /\ Memory' /\ LastHeard' = pos
        /\ processed_keys' \in SUBSET Segments
        /\ processed_order' \in Seq(Segments)
    BY <2>1, RememberKeepsRun
  <2>3. RxType'
    BY <2>1, <2>2 DEF RxType, Segments
  <2>4. Progress' /\ InboxChain'
    BY <2>1, <2>2 DEF RxType, Progress, InboxChain, FirstOf
  <2> QED BY <2>2, <2>3, <2>4
<1>8. CASE SegmentsDone
  BY <1>8 DEF SegmentsDone, RxType, Memory, LastHeard, Progress, InboxChain
<1>9. CASE WorkerStep \/ Stop \/ UNCHANGED vars
  <2>1. UNCHANGED <<server, rxVars>>
    BY <1>9 DEF WorkerStep, WorkerTop, WorkerGets, WorkerTimesOut, Classify,
                ClassifyFails, PublishCommand, PublishConfidence,
                PublishClassification, Stop, vars
  <2> QED BY <2>1 DEF RxType, Memory, LastHeard, Progress, InboxChain
<1> QED
  BY <1>1, <1>2, <1>3, <1>4, <1>5, <1>6, <1>7, <1>8, <1>9
  DEF Next, ConnectionStep

\* The invariant of the connection thread holds in every reachable state.
THEOREM RxInvariance == Spec => []RxInv
  BY InitRx, NextRx, PTL DEF Spec
\* The memory of keys never loses a segment the server may repeat.
THEOREM MemoryCovers == Spec => []MemoryCoversWindow
<1>1. RxInv => MemoryCoversWindow
  <2> SUFFICES ASSUME RxInv PROVE MemoryCoversWindow
    OBVIOUS
  <2>1. processed_keys =
          {k \in Segments : LastHeard - Len(processed_order) < k /\ k <= LastHeard}
    BY DEF RxInv, RxType, Memory
  <2> QED BY <2>1 DEF RxInv, Memory, MemoryCoversWindow
<1> QED BY RxInvariance, <1>1, PTL

-----------------------------------------------------------------------------
(* What was transcribed, and what became of it. *)

\* The transcriptions end with what the current connection heard last.
Recorded ==
    /\ transcribed \in Seq(Items)
    /\ IF LastHeard = 0
         THEN \A k \in 1 .. Len(transcribed) : transcribed[k][1] # dial
         ELSE /\ Len(transcribed) > 0
              /\ transcribed[Len(transcribed)] = <<dial, LastHeard>>
    /\ \A k \in 1 .. Len(transcribed) : transcribed[k][1] <= dial

\* The worker's types.
WorkerType ==
    /\ stop \in BOOLEAN
    /\ queue \in Seq(Items)
    /\ worker \in {"top", "get", "classify", "command", "confidence",
                   "classification", "done"}
    /\ item \in Items \cup {<<>>}
    /\ outcome \in Commands
    /\ commands \in Seq(Items \X Commands)
    /\ confidences \in Seq(Items)
    /\ classifications \in Seq(Items \X Commands)

\* How many transcriptions were taken from the queue.
Taken == Len(classifications) +
           IF worker \in {"classify", "command", "confidence", "classification"}
             THEN 1 ELSE 0

\* The transcriptions are those answered, the one in hand and those queued.
InOrder ==
    /\ Len(transcribed) = Taken + Len(queue)
    /\ \A k \in 1 .. Len(classifications) : classifications[k][1] = transcribed[k]
    /\ Taken > Len(classifications) => item = transcribed[Taken]
    /\ \A k \in 1 .. Len(queue) : queue[k] = transcribed[Taken + k]

\* How far the publication of the item in hand has come.
Published ==
    /\ Len(commands) = Len(classifications) +
         IF worker \in {"confidence", "classification"} THEN 1 ELSE 0
    /\ Len(confidences) = Len(classifications) +
         IF worker = "classification" THEN 1 ELSE 0
    /\ \A k \in 1 .. Len(classifications) :
         commands[k] = classifications[k] /\ confidences[k] = classifications[k][1]
    /\ worker \in {"confidence", "classification"} =>
         commands[Len(commands)] = <<item, outcome>>
    /\ worker = "classification" => confidences[Len(confidences)] = item

IInv == RxInv /\ Recorded /\ WorkerType /\ InOrder /\ Published

LEMMA InitIInv == Init => IInv
<1> SUFFICES ASSUME Init PROVE IInv
  OBVIOUS
<1>1. LastHeard = 0 /\ Len(<<>>) = 0
  BY DEF Init, LastHeard
<1>2. Recorded
  BY <1>1 DEF Init, Recorded
<1>3. WorkerType
  <2>1. queue \in Seq(Items) /\ confidences \in Seq(Items)
    BY DEF Init
  <2>2. commands \in Seq(Items \X Commands) /\ classifications \in Seq(Items \X Commands)
    BY DEF Init
  <2> QED BY <2>1, <2>2, Zenon DEF Init, WorkerType, Commands
<1>4. InOrder /\ Published
  BY <1>1 DEF Init, InOrder, Taken, Published
<1> QED BY <1>2, <1>3, <1>4, InitRx DEF IInv

\* Only Connect and TranscribeSegment change what was heard.
LEMMA NextRecorded == RxInv /\ Recorded /\ [Next]_vars => Recorded'
<1> SUFFICES ASSUME RxInv, Recorded, [Next]_vars
             PROVE  Recorded'
  OBVIOUS
<1>1. CASE Connect
  <2>1. LastHeard' = 0 /\ dial' = dial + 1 /\ dial \in Nat
        /\ transcribed' = transcribed
    BY <1>1 DEF Connect, ResetSegmentState, LastHeard, RxInv, RxType
  <2>2. ASSUME NEW k \in 1 .. Len(transcribed)
        PROVE  transcribed[k][1] \in Nat /\ transcribed[k][1] <= dial
    BY DEF Recorded, Items, Sessions
  <2> QED BY <2>1, <2>2 DEF Recorded
<1>2. CASE TranscribeSegment
  <2>1. /\ transcribed' = Append(transcribed, <<dial, pos>>)
        /\ Remember(pos) /\ dial' = dial
        /\ pos = LastHeard + 1 /\ <<dial, pos>> \in Items /\ dial \in Nat
        /\ pos \in Nat /\ pos # 0 /\ pos \in Segments
    BY <1>2, NextInLine DEF TranscribeSegment, Items, Segments, Sessions
  <2>2. LastHeard' = pos
    BY <2>1, RememberKeepsRun
  <2> QED BY <2>1, <2>2 DEF Recorded
<1>3. CASE ~Connect /\ ~TranscribeSegment
  <2>1. UNCHANGED <<dial, transcribed, processed_order>>
    BY <1>3 DEF Next, SegmentCompletes, ServerSends, ConnectionStep,
       ReceiveCheck, ConnectionEnds, ConnectionLoopEnds, Receive, SkipSegment,
       SegmentsDone, WorkerStep, WorkerTop, WorkerGets, WorkerTimesOut,
       Classify, ClassifyFails, PublishCommand, PublishConfidence,
       PublishClassification, Stop, rxVars, vars
  <2> QED BY <2>1 DEF Recorded, LastHeard
<1> QED BY <1>1, <1>2, <1>3

\* The queue and the worker keep the order of the transcriptions.
LEMMA NextInOrder ==
  ASSUME IInv, [Next]_vars
  PROVE  WorkerType' /\ InOrder' /\ Published'
<1> USE DEF WorkerType
<1>0. /\ transcribed \in Seq(Items)
      /\ WorkerType /\ InOrder /\ Published /\ RxInv
  BY DEF IInv, Recorded
<1>1. CASE TranscribeSegment
  <2>1. /\ <<dial, pos>> \in Items
        /\ transcribed' = Append(transcribed, <<dial, pos>>)
        /\ queue' = Append(queue, <<dial, pos>>)
        /\ UNCHANGED <<stop, workerVars>>
    BY <1>0, <1>1, NextInLine DEF TranscribeSegment, Items
  <2>2. WorkerType' /\ Published'
    BY <1>0, <2>1 DEF workerVars, topics, Published
  <2>3. /\ Taken \in Nat /\ Taken' = Taken /\ Taken + Len(queue) = Len(transcribed)
        /\ UNCHANGED <<item, classifications>>
        /\ Len(classifications) <= Taken
    BY <1>0, <2>1 DEF workerVars, topics, InOrder, Taken
  <2>4. /\ Len(queue) \in Nat /\ Len(transcribed) \in Nat
        /\ Len(queue') = Len(queue) + 1
        /\ Len(transcribed') = Len(transcribed) + 1
        /\ queue'[Len(queue) + 1] = transcribed'[Len(transcribed) + 1]
    BY <1>0, <2>1
  <2>5. ASSUME NEW k \in 1 .. Len(queue')
        PROVE  queue'[k] = transcribed'[Taken + k]
    <3>1. CASE k = Len(queue) + 1
      BY <2>3, <2>4, <3>1
    <3>2. CASE k \in 1 .. Len(queue)
      <4>1. queue'[k] = queue[k] /\ transcribed'[Taken + k] = transcribed[Taken + k]
        BY <1>0, <2>1, <2>3, <3>2
      <4> QED BY <1>0, <3>2, <4>1 DEF InOrder
    <3> QED BY <2>4, <3>1, <3>2
  <2>6. \A k \in 1 .. Len(transcribed) : transcribed'[k] = transcribed[k]
    BY <1>0, <2>1
  <2>7. Len(transcribed') = Taken' + Len(queue')
    BY <2>3, <2>4
  <2>8. InOrder'
    BY <1>0, <2>3, <2>5, <2>6, <2>7 DEF InOrder
  <2> QED BY <2>2, <2>8
<1>2. CASE WorkerGets
  <2>1. /\ queue # <<>> /\ worker = "get" /\ worker' = "classify"
        /\ item' = queue[1] /\ queue' = Tail(queue) /\ item' \in Items
        /\ UNCHANGED <<stop, transcribed, outcome, topics>>
    BY <1>0, <1>2 DEF WorkerGets, rxVars
  <2>2. WorkerType' /\ Published'
    BY <1>0, <2>1 DEF topics, Published
  <2>3. InOrder'
    BY <1>0, <2>1 DEF topics, InOrder, Taken
  <2> QED BY <2>2, <2>3
<1>3. CASE WorkerTop \/ WorkerTimesOut
  BY <1>0, <1>3 DEF WorkerTop, WorkerTimesOut, rxVars, topics, InOrder, Taken,
                    Published
<1>4. CASE Classify \/ ClassifyFails
  BY <1>0, <1>4 DEF Classify, ClassifyFails, rxVars, topics, InOrder, Taken,
                    Published, Commands
<1>5. CASE PublishCommand
  <2>1. item \in Items
    BY <1>0, <1>5 DEF PublishCommand, InOrder, Taken
  <2>2. InOrder'
    BY <1>0, <1>5 DEF PublishCommand, rxVars, InOrder, Taken
  <2>3. /\ commands' = Append(commands, <<item, outcome>>)
        /\ worker = "command" /\ worker' = "confidence"
        /\ UNCHANGED <<item, outcome, confidences, classifications>>
        /\ Len(commands) = Len(classifications)
        /\ Len(confidences) = Len(classifications)
    BY <1>0, <1>5 DEF PublishCommand, Published
  <2>4. /\ Len(commands') = Len(classifications') + 1
        /\ commands'[Len(commands')] = <<item', outcome'>>
        /\ \A k \in 1 .. Len(classifications) : commands'[k] = commands[k]
    BY <1>0, <2>1, <2>3
  <2>5. Published'
    BY <1>0, <2>3, <2>4 DEF Published
  <2>6. WorkerType'
    <3>1. commands' \in Seq(Items \X Commands)
      BY <1>0, <2>1, <2>3
    <3> QED BY <1>0, <1>5, <3>1, Zenon DEF PublishCommand
  <2> QED BY <2>2, <2>5, <2>6
<1>6. CASE PublishConfidence
  <2>1. item \in Items
    BY <1>0, <1>6 DEF PublishConfidence, InOrder, Taken
  <2> QED BY <1>0, <1>6, <2>1 DEF PublishConfidence, rxVars, InOrder, Taken,
                                  Published
<1>7. CASE PublishClassification
  <2>1. item \in Items
    BY <1>0, <1>7 DEF PublishClassification, InOrder, Taken
  <2>2. InOrder'
    BY <1>0, <1>7, <2>1 DEF PublishClassification, rxVars, InOrder, Taken
  <2>3. Published' /\ WorkerType'
    BY <1>0, <1>7, <2>1 DEF PublishClassification, Published
  <2> QED BY <2>2, <2>3
<1>8. CASE Stop
  BY <1>0, <1>8 DEF Stop, rxVars, workerVars, topics, InOrder, Taken, Published
<1>9. CASE \/ SegmentCompletes \/ ServerSends \/ Connect \/ ReceiveCheck
           \/ ConnectionEnds \/ ConnectionLoopEnds \/ Receive \/ SkipSegment
           \/ SegmentsDone \/ UNCHANGED vars
  <2>1. UNCHANGED <<stop, transcribed, queue, workerVars>>
    BY <1>9 DEF SegmentCompletes, ServerSends, Connect, ReceiveCheck,
       ConnectionEnds, ConnectionLoopEnds, Receive, SkipSegment, SegmentsDone,
       rxVars, vars
  <2> QED BY <1>0, <2>1 DEF workerVars, topics, InOrder, Taken, Published
<1> QED
  BY <1>1, <1>2, <1>3, <1>4, <1>5, <1>6, <1>7, <1>8, <1>9
  DEF Next, ConnectionStep, WorkerStep

\* The inductive invariant holds in every reachable state.
THEOREM Invariance == Spec => []IInv
<1>1. IInv /\ [Next]_vars => IInv'
  BY NextRx, NextRecorded, NextInOrder DEF IInv
<1> QED BY InitIInv, <1>1, PTL DEF Spec

\* Type correctness of both threads and the topics.
THEOREM TypeCorrect == Spec => []TypeOK
<1>1. IInv => TypeOK
  BY DEF IInv, RxInv, RxType, Recorded, WorkerType, TypeOK
<1> QED BY Invariance, <1>1, PTL

\* The three topics tell the same story.
THEOREM OneStory == Spec => []TopicsAgree
<1>1. IInv => TopicsAgree
  BY DEF IInv, WorkerType, Published, TopicsAgree
<1> QED BY Invariance, <1>1, PTL
\* The equation of InOrder, written with concatenations.
LEMMA InOrderIsNothingLost == IInv => NothingLost
<1> SUFFICES ASSUME IInv PROVE NothingLost
  OBVIOUS
<1>1. /\ transcribed \in Seq(Items) /\ WorkerType /\ InOrder
  BY DEF IInv, Recorded
<1>2. /\ InHand \in Seq(Items)
      /\ Len(InHand) = Taken - Len(classifications)
      /\ InHand # <<>> => InHand[1] = transcribed[Taken]
      /\ Len(InHand) \in {0, 1}
  BY <1>1 DEF InHand, InOrder, Taken, WorkerType
<1>3. /\ Answered \in Seq(Items) /\ Len(Answered) = Len(classifications)
      /\ \A k \in 1 .. Len(Answered) : Answered[k] = transcribed[k]
  BY <1>1 DEF Answered, InOrder, WorkerType
<1> DEFINE taken == Answered \o InHand
           all == taken \o queue
<1>4. queue \in Seq(Items) /\ Len(queue) \in Nat /\ Len(classifications) \in Nat
      /\ Len(transcribed) = Taken + Len(queue)
      /\ \A k \in 1 .. Len(queue) : queue[k] = transcribed[Taken + k]
  BY <1>1 DEF WorkerType, InOrder
<1>5. /\ taken \in Seq(Items) /\ Len(taken) = Len(Answered) + Len(InHand)
      /\ \A k \in 1 .. Len(taken) :
           taken[k] = IF k <= Len(Answered) THEN Answered[k]
                                            ELSE InHand[k - Len(Answered)]
  BY <1>2, <1>3, ConcatProperties
<1>6. Len(taken) = Taken /\ Taken \in Nat
  BY <1>2, <1>3, <1>4, <1>5 DEF Taken
<1>7. \A k \in 1 .. Taken : taken[k] = transcribed[k]
  BY <1>2, <1>3, <1>4, <1>5, <1>6
<1> HIDE DEF taken
<1>8. /\ all \in Seq(Items) /\ Len(all) = Len(transcribed)
      /\ \A k \in 1 .. Len(all) : all[k] = IF k <= Taken THEN taken[k]
                                                       ELSE queue[k - Taken]
  BY <1>4, <1>5, <1>6, ConcatProperties
<1> HIDE DEF all
<1>9. ASSUME NEW k \in 1 .. Len(transcribed)
      PROVE  all[k] = transcribed[k]
  <2>1. CASE k <= Taken
    BY <1>8, <1>6, <1>7, <2>1
  <2>2. CASE ~(k <= Taken)
    <3>1. k - Taken \in 1 .. Len(queue) /\ Taken + (k - Taken) = k
      BY <1>4, <1>6, <2>2
    <3> QED BY <1>8, <1>4, <2>2, <3>1
  <2> QED BY <2>1, <2>2
<1>10. transcribed = all
  BY <1>1, <1>8, <1>9, SeqEqual
<1> QED BY <1>10 DEF all, taken, NothingLost

\* No transcription is lost, repeated or overtaken on its way to a classification.
THEOREM NoLoss == Spec => []NothingLost
  BY Invariance, InOrderIsNothingLost, PTL

-----------------------------------------------------------------------------
(* The pipeline implements Transcript. *)

\* What was not classified was not answered.
LEMMA SameAnswers ==
  ASSUME UNCHANGED classifications PROVE Answered' = Answered
  BY DEF Answered

\* Every step is a step of Transcript or a stutter.
LEMMA StepRefines == IInv /\ [Next]_vars => [Promise!Next]_<<transcribed, Answered>>
<1> SUFFICES ASSUME IInv, [Next]_vars
             PROVE  [Promise!Next]_<<transcribed, Answered>>
  OBVIOUS
<1>1. CASE TranscribeSegment
  <2>1. /\ pos = LastHeard + 1 /\ pos \in Segments /\ dial \in Sessions
        /\ LastHeard \in Nat /\ transcribed \in Seq(Items) /\ Recorded
        /\ transcribed' = Append(transcribed, <<dial, pos>>)
        /\ UNCHANGED classifications
    BY <1>1, NextInLine
    DEF IInv, RxInv, Memory, Recorded, TranscribeSegment, workerVars, topics
  <2>2. Promise!Continues(dial, pos)
    BY <2>1 DEF Recorded, Promise!Continues
  <2> QED BY <2>1, <2>2, SameAnswers DEF Promise!Hear, Promise!Next
<1>2. CASE PublishClassification
  <2>1. /\ classifications' = Append(classifications, <<item, outcome>>)
        /\ UNCHANGED transcribed /\ classifications \in Seq(Items \X Commands)
        /\ item = transcribed[Len(classifications) + 1]
        /\ Len(classifications) < Len(transcribed)
        /\ transcribed \in Seq(Items) /\ outcome \in Commands
    BY <1>2 DEF PublishClassification, rxVars, IInv, Recorded, WorkerType,
                InOrder, Taken
  <2>2. /\ Answered \in Seq(Items) /\ Answered' \in Seq(Items)
        /\ Len(Answered) = Len(classifications)
        /\ Answered' = Append(Answered, item)
    BY <2>1 DEF Answered
  <2> QED BY <2>1, <2>2 DEF Promise!Answer, Promise!Next
<1>3. CASE ~TranscribeSegment /\ ~PublishClassification
  <2>1. UNCHANGED <<transcribed, classifications>>
    BY <1>3 DEF Next, SegmentCompletes, ServerSends, ConnectionStep, Connect,
       ReceiveCheck, ConnectionEnds, ConnectionLoopEnds, Receive, SkipSegment,
       SegmentsDone, WorkerStep, WorkerTop, WorkerGets, WorkerTimesOut,
       Classify, ClassifyFails, PublishCommand, PublishConfidence, Stop,
       rxVars, workerVars, topics, vars
  <2> QED BY <2>1, SameAnswers
<1> QED BY <1>1, <1>2, <1>3

\* Each session is transcribed once, in order, without a gap, and answered.
THEOREM Refinement == Spec => ImplementsTranscript
<1>1. Init => Promise!Init
  BY DEF Init, Promise!Init, Answered
<1>2. Spec => Promise!Spec
  BY <1>1, StepRefines, Invariance, PTL
  DEF Spec, Promise!Spec, Promise!transcriptVars
<1> QED BY <1>2 DEF ImplementsTranscript
=============================================================================
