---------------------------- MODULE VoicePipeline ----------------------------
(***************************************************************************)
(* voice_command_node.py: from the server's segments to the classified     *)
(* commands.                                                               *)
(*                                                                         *)
(* The server (external) repeats its last send_last_n_segments completed   *)
(* segments in every message; process_segments recognises the ones it has  *)
(* handled by a bounded memory of keys, transcribes the others and queues  *)
(* them; classification_worker takes them from the queue one by one.       *)
(* A segment's key (its start time and text) is its number in the          *)
(* transcript of the connection, which starts over with every connection.  *)
(* The partial segment at the end of a message only feeds a print.         *)
(***************************************************************************)
EXTENDS Naturals, Sequences, FiniteSets

CONSTANTS
    Window,        \* send_last_n_segments: 10
    MaxRemembered, \* size of the memory of keys: 500
    Outcomes,      \* the commands Ollama's answer may be normalised to
    Unknown,       \* the command published when the classification fails
    MaxDials,      \* bound: connections established
    MaxSegments,   \* bound: segments completed on a connection
    MaxInFlight    \* bound: messages between the server and the node

ASSUME WindowAssumption == Window \in Nat \ {0}
ASSUME MemoryAssumption == MaxRemembered \in Nat /\ MaxRemembered >= Window
ASSUME BoundsAssumption ==
    MaxDials \in Nat /\ MaxSegments \in Nat /\ MaxInFlight \in Nat

Segments == 1 .. MaxSegments
Sessions == 1 .. MaxDials
Commands == Outcomes \cup {Unknown}
Items == Sessions \X Segments

VARIABLES
    stop,            \* stop_event
    dial,            \* the current connection
    spoken,          \* segments the server completed on it
    told,            \* the last of them in the latest message it sent
    inbox,           \* its messages under way, each by its last segment
    rx,              \* where the connection thread is
    upto,            \* the last segment of the message being processed
    pos,             \* the next segment process_segments looks at
    processed_keys,
    processed_order,
    transcribed,     \* what was published on /voice/transcription
    queue,           \* classification_queue
    worker,          \* where classification_worker is
    item,            \* the transcription it works on
    outcome,         \* its local command
    commands,        \* what was published on /voice/command
    confidences,     \* ... on /voice/confidence, by the item it was for
    classifications  \* ... on /voice/classification

server == <<spoken, told>>
rxVars == <<dial, inbox, rx, upto, pos, processed_keys, processed_order,
            transcribed>>
topics == <<commands, confidences, classifications>>
workerVars == <<worker, item, outcome, topics>>
vars == <<stop, server, rxVars, queue, workerVars>>

Init ==
    /\ stop = FALSE
    /\ dial = 0
    /\ spoken = 0 /\ told = 0
    /\ inbox = <<>>
    /\ rx = "down"
    /\ upto = 0 /\ pos = 1
    /\ processed_keys = {}
    /\ processed_order = <<>>
    /\ transcribed = <<>>
    /\ queue = <<>>
    /\ worker = "top"
    /\ item = <<>>
    /\ outcome = Unknown
    /\ commands = <<>> /\ confidences = <<>> /\ classifications = <<>>

-----------------------------------------------------------------------------
(* The WhisperLive server *)

\* A segment is completed.  The transcript grows by less than the window
\* between two messages, or segments would be lost before they are sent.
SegmentCompletes ==
    /\ rx # "down" /\ rx # "done"
    /\ spoken < MaxSegments
    /\ spoken < told + Window
    /\ spoken' = spoken + 1
    /\ UNCHANGED <<stop, told, rxVars, queue, workerVars>>

\* A message with the last segments, also sent when only the partial changed.
ServerSends ==
    /\ rx # "down" /\ rx # "done"
    /\ Len(inbox) < MaxInFlight
    /\ told' = spoken
    /\ inbox' = Append(inbox, spoken)
    /\ UNCHANGED <<stop, spoken, dial, rx, upto, pos, processed_keys,
                   processed_order, transcribed, queue, workerVars>>

-----------------------------------------------------------------------------
(* connection_loop and receive_loop *)

\* Fault: the memory of keys outlives the connection.
ResetForgotten == UNCHANGED <<processed_keys, processed_order>>

\* reset_segment_state
ResetSegmentState ==
    /\ processed_keys' = {}
    /\ processed_order' = <<>>

\* A new connection, with a new transcript on the server's side.
Connect ==
    /\ rx = "down"
    /\ ~stop
    /\ dial < MaxDials
    /\ dial' = dial + 1
    /\ spoken' = 0 /\ told' = 0
    /\ inbox' = <<>>
    /\ upto' = 0 /\ pos' = 1
    /\ ResetSegmentState
    /\ rx' = "check"
    /\ UNCHANGED <<stop, transcribed, queue, workerVars>>

ReceiveCheck ==
    /\ rx = "check"
    /\ rx' = IF stop THEN "down" ELSE "recv"
    /\ UNCHANGED <<stop, server, dial, inbox, upto, pos, processed_keys,
                   processed_order, transcribed, queue, workerVars>>

\* recv raised or the server ended the connection: what is under way is lost.
ConnectionEnds ==
    /\ rx = "recv"
    /\ rx' = "down"
    /\ UNCHANGED <<stop, server, dial, inbox, upto, pos, processed_keys,
                   processed_order, transcribed, queue, workerVars>>

ConnectionLoopEnds ==
    /\ rx = "down"
    /\ stop
    /\ rx' = "done"
    /\ UNCHANGED <<stop, server, dial, inbox, upto, pos, processed_keys,
                   processed_order, transcribed, queue, workerVars>>

\* The first of the last Window segments up to n.
FirstOf(n) == IF n > Window THEN n - Window + 1 ELSE 1

Receive ==
    /\ rx = "recv"
    /\ inbox # <<>>
    /\ upto' = Head(inbox)
    /\ pos' = FirstOf(Head(inbox))
    /\ inbox' = Tail(inbox)
    /\ rx' = "segments"
    /\ UNCHANGED <<stop, server, dial, processed_keys, processed_order,
                   transcribed, queue, workerVars>>

-----------------------------------------------------------------------------
(* process_segments, one iteration a step *)

\* Fault: the evicted key stays in the set.
RememberKeepsKeys(i) ==
    /\ processed_keys' = processed_keys \cup {i}
    /\ processed_order' =
         IF Len(processed_order) < MaxRemembered
           THEN Append(processed_order, i)
           ELSE Tail(Append(processed_order, i))

\* remember_segment: the loop evicts at most one key, since one was added.
Remember(i) ==
    IF Len(processed_order) < MaxRemembered
      THEN /\ processed_order' = Append(processed_order, i)
           /\ processed_keys' = processed_keys \cup {i}
      ELSE /\ processed_order' = Tail(Append(processed_order, i))
           /\ processed_keys' = (processed_keys \cup {i})
                                  \ {Head(Append(processed_order, i))}

SkipSegment ==
    /\ rx = "segments"
    /\ pos <= upto
    /\ pos \in processed_keys
    /\ pos' = pos + 1
    /\ UNCHANGED <<stop, server, dial, inbox, rx, upto, processed_keys,
                   processed_order, transcribed, queue, workerVars>>

TranscribeSegment ==
    /\ rx = "segments"
    /\ pos <= upto
    /\ pos \notin processed_keys
    /\ Remember(pos)
    /\ transcribed' = Append(transcribed, <<dial, pos>>)
    /\ queue' = Append(queue, <<dial, pos>>)
    /\ pos' = pos + 1
    /\ UNCHANGED <<stop, server, dial, inbox, rx, upto, workerVars>>

SegmentsDone ==
    /\ rx = "segments"
    /\ pos > upto
    /\ rx' = "check"
    /\ UNCHANGED <<stop, server, dial, inbox, upto, pos, processed_keys,
                   processed_order, transcribed, queue, workerVars>>

-----------------------------------------------------------------------------
(* classification_worker *)

WorkerTop ==
    /\ worker = "top"
    /\ worker' = IF stop THEN "done" ELSE "get"
    /\ UNCHANGED <<stop, server, rxVars, queue, item, outcome, topics>>

\* Fault: the latest transcription is taken first.
WorkerGetsLatest ==
    /\ worker = "get"
    /\ queue # <<>>
    /\ item' = queue[Len(queue)]
    /\ queue' = SubSeq(queue, 1, Len(queue) - 1)
    /\ worker' = "classify"
    /\ UNCHANGED <<stop, server, rxVars, outcome, topics>>

WorkerGets ==
    /\ worker = "get"
    /\ queue # <<>>
    /\ item' = Head(queue)
    /\ queue' = Tail(queue)
    /\ worker' = "classify"
    /\ UNCHANGED <<stop, server, rxVars, outcome, topics>>

\* queue.Empty after 0.2 s
WorkerTimesOut ==
    /\ worker = "get"
    /\ queue = <<>>
    /\ worker' = "top"
    /\ UNCHANGED <<stop, server, rxVars, queue, item, outcome, topics>>

Classify ==
    /\ worker = "classify"
    /\ outcome' \in Outcomes
    /\ worker' = "command"
    /\ UNCHANGED <<stop, server, rxVars, queue, item, topics>>

\* Fault: a transcription that cannot be classified is dropped.
ClassifyFailsSilently ==
    /\ worker = "classify"
    /\ worker' = "top"
    /\ UNCHANGED <<stop, server, rxVars, queue, item, outcome, topics>>

\* Any exception of classify_with_llama, timeouts included.
ClassifyFails ==
    /\ worker = "classify"
    /\ outcome' = Unknown
    /\ worker' = "command"
    /\ UNCHANGED <<stop, server, rxVars, queue, item, topics>>

(* publish_classification *)

PublishCommand ==
    /\ worker = "command"
    /\ commands' = Append(commands, <<item, outcome>>)
    /\ worker' = "confidence"
    /\ UNCHANGED <<stop, server, rxVars, queue, item, outcome, confidences,
                   classifications>>

\* Fault: a command that is Unknown gets no confidence.
PublishConfidenceIfKnown ==
    /\ worker = "confidence"
    /\ confidences' = IF outcome = Unknown THEN confidences
                                           ELSE Append(confidences, item)
    /\ worker' = "classification"
    /\ UNCHANGED <<stop, server, rxVars, queue, item, outcome, commands,
                   classifications>>

PublishConfidence ==
    /\ worker = "confidence"
    /\ confidences' = Append(confidences, item)
    /\ worker' = "classification"
    /\ UNCHANGED <<stop, server, rxVars, queue, item, outcome, commands,
                   classifications>>

PublishClassification ==
    /\ worker = "classification"
    /\ classifications' = Append(classifications, <<item, outcome>>)
    /\ worker' = "top"
    /\ UNCHANGED <<stop, server, rxVars, queue, item, outcome, commands,
                   confidences>>

-----------------------------------------------------------------------------
\* The shutdown hook sets stop_event.
Stop ==
    /\ ~stop
    /\ stop' = TRUE
    /\ UNCHANGED <<server, rxVars, queue, workerVars>>

ConnectionStep ==
    \/ Connect \/ ReceiveCheck \/ ConnectionEnds \/ ConnectionLoopEnds
    \/ Receive \/ SkipSegment \/ TranscribeSegment \/ SegmentsDone

WorkerStep ==
    \/ WorkerTop \/ WorkerGets \/ WorkerTimesOut \/ Classify \/ ClassifyFails
    \/ PublishCommand \/ PublishConfidence \/ PublishClassification

Next ==
    \/ SegmentCompletes \/ ServerSends
    \/ ConnectionStep
    \/ WorkerStep
    \/ Stop

Spec == Init /\ [][Next]_vars

\* The worker runs, and its HTTP request has a timeout.  Whether anything is
\* said, or the connection lasts, is up to the world.
Fairness == WF_vars(WorkerStep)

FairSpec == Spec /\ Fairness

-----------------------------------------------------------------------------
(* Properties *)

\* Every variable keeps its type.
TypeOK ==
    /\ stop \in BOOLEAN
    /\ dial \in 0 .. MaxDials
    /\ spoken \in 0 .. MaxSegments
    /\ told \in 0 .. MaxSegments
    /\ inbox \in Seq(0 .. MaxSegments)
    /\ rx \in {"down", "check", "recv", "segments", "done"}
    /\ upto \in 0 .. MaxSegments
    /\ pos \in 1 .. MaxSegments + 1
    /\ processed_keys \in SUBSET Segments
    /\ processed_order \in Seq(Segments)
    /\ transcribed \in Seq(Items)
    /\ queue \in Seq(Items)
    /\ worker \in {"top", "get", "classify", "command", "confidence",
                   "classification", "done"}
    /\ item \in Items \cup {<<>>}
    /\ outcome \in Commands
    /\ commands \in Seq(Items \X Commands)
    /\ confidences \in Seq(Items)
    /\ classifications \in Seq(Items \X Commands)

\* The segment the connection transcribed last; 0 before the first.
LastHeard ==
    IF processed_order = <<>> THEN 0 ELSE processed_order[Len(processed_order)]

\* The memory of keys is the run of segments transcribed last: deque and set
\* agree, and nothing the server may still repeat was evicted (lines
\* 359-368, against the window of line 272).
MemoryCoversWindow ==
    /\ Len(processed_order) <= MaxRemembered
    /\ processed_keys =
         {k \in Segments : LastHeard - Len(processed_order) < k /\ k <= LastHeard}
    /\ \A k \in 1 .. Len(processed_order) :
         processed_order[k] = LastHeard - Len(processed_order) + k
    /\ LastHeard >= Window => Len(processed_order) >= Window

\* What the worker took and has not published the classification of.
InHand ==
    IF worker \in {"classify", "command", "confidence", "classification"}
      THEN <<item>> ELSE <<>>

Answered == [k \in 1 .. Len(classifications) |-> classifications[k][1]]

\* No transcription is lost, repeated or overtaken between the publication
\* and the classification, whatever fails (lines 388-427).
NothingLost == transcribed = Answered \o InHand \o queue

\* The three topics tell the same story: the n-th command and confidence are
\* those of the n-th classification, and a topic is at most one message ahead
\* (lines 560-575).
TopicsAgree ==
    /\ Len(classifications) <= Len(confidences)
    /\ Len(confidences) <= Len(commands)
    /\ Len(commands) <= Len(classifications) + 1
    /\ \A k \in 1 .. Len(classifications) :
         commands[k] = classifications[k] /\ confidences[k] = classifications[k][1]

\* Every transcription is classified, unless the node is told to stop.
EveryTranscriptionAnswered ==
    \A n \in 1 .. MaxDials * MaxSegments :
        Len(transcribed) >= n ~> stop \/ Len(classifications) >= n

Promise == INSTANCE Transcript WITH heard <- transcribed, answered <- Answered

\* Each session's segments are transcribed once, in order and without a gap,
\* and answered in that order (lines 317-427).
ImplementsTranscript == Promise!Spec
=============================================================================
