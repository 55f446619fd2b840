--------------------------- MODULE VoiceConnection ---------------------------
(***************************************************************************)
(* voice_command_node.py: how the microphone reaches the WhisperLive       *)
(* server.  Three threads share stop_event, server_ready and self.socket:  *)
(*                                                                         *)
(*   - connection_loop dials, sends the options, publishes the socket,     *)
(*     receives until the connection ends, clears up and dials again;      *)
(*   - capture_loop reads the microphone and sends the audio on whatever   *)
(*     socket is published, while the server is ready;                     *)
(*   - shutdown, the rospy hook, sets stop_event, says END_OF_AUDIO and    *)
(*     closes the socket and the microphone.                               *)
(*                                                                         *)
(* Every access to a shared attribute is a step of its own.  A dialled     *)
(* connection is a number, 0 is None.  What a message other than the       *)
(* protocol's does (segments) is module VoicePipeline.                     *)
(* rospy.is_shutdown() is not a variable: it turns true after the hook,    *)
(* which sets stop_event first.                                            *)
(***************************************************************************)
EXTENDS Naturals, FiniteSets

CONSTANTS
    MaxDials       \* bound: how many connections are established

ASSUME DialsAssumption == MaxDials \in Nat

Dials == 1 .. MaxDials
None == 0

VARIABLES
    stop,         \* stop_event
    server_ready, \* the server_ready event
    socket,       \* self.socket
    wire,         \* the state of each established connection
    greeted,      \* the connections on which the options were sent
    readied,      \* the connections whose SERVER_READY was handled
    conn,         \* where connection_loop is
    ws,           \* its local ws: the last connection established
    to_close,     \* its local ws_to_close
    slow,         \* has an iteration of capture_loop outlasted a reconnect_delay (2 s)?
    capture,      \* where capture_loop is
    sending,      \* its local ws
    hook,         \* where shutdown is
    ending,       \* its local ws
    said_end,     \* the connections on which END_OF_AUDIO was sent
    late,         \* number of audio frames sent after END_OF_AUDIO
    mic           \* the microphone stream

shared == <<stop, server_ready, socket, wire>>
connVars == <<conn, ws, to_close, greeted, readied, slow>>
captureVars == <<capture, sending, late>>
hookVars == <<hook, ending, said_end, mic>>
vars == <<shared, connVars, captureVars, hookVars>>

Init ==
    /\ stop = FALSE
    /\ server_ready = FALSE
    /\ socket = None
    /\ wire = [c \in Dials |-> "none"]
    /\ greeted = {}
    /\ readied = {}
    /\ conn = "top"
    /\ ws = None
    /\ to_close = None
    /\ slow = FALSE
    /\ capture = "top"
    /\ sending = None
    /\ hook = "idle"
    /\ ending = None
    /\ said_end = {}
    /\ late = 0
    /\ mic = "open"

\* ws.close() on a socket variable that may be None.
Closed(c) == IF c = None THEN wire ELSE [wire EXCEPT ![c] = "closed"]

-----------------------------------------------------------------------------
(* connection_loop *)

ConnTop ==
    /\ conn = "top"
    /\ conn' = IF stop THEN "done" ELSE "dial"
    /\ UNCHANGED <<shared, ws, to_close, greeted, readied, slow, captureVars, hookVars>>

\* Fault: the socket is published before the options are sent on it.
DialPublishes ==
    /\ conn = "dial"
    /\ ws < MaxDials
    /\ ws' = ws + 1
    /\ socket' = ws + 1
    /\ wire' = [wire EXCEPT ![ws + 1] = "open"]
    /\ conn' = "options"
    /\ UNCHANGED <<stop, server_ready, to_close, greeted, readied,
                   slow, captureVars, hookVars>>

\* create_connection returned.
Dial ==
    /\ conn = "dial"
    /\ ws < MaxDials
    /\ ws' = ws + 1
    /\ wire' = [wire EXCEPT ![ws + 1] = "open"]
    /\ conn' = "options"
    /\ UNCHANGED <<stop, server_ready, socket, to_close, greeted, readied,
                   slow, captureVars, hookVars>>

\* create_connection raised.
DialFails ==
    /\ conn = "dial"
    /\ conn' = "clear"
    /\ UNCHANGED <<shared, ws, to_close, greeted, readied, slow, captureVars, hookVars>>

SendOptions ==
    /\ conn = "options"
    /\ wire[ws] = "open"
    /\ greeted' = greeted \cup {ws}
    /\ conn' = "publish"
    /\ UNCHANGED <<shared, ws, to_close, readied, slow, captureVars, hookVars>>

OptionsFail ==
    /\ conn = "options"
    /\ wire[ws] # "open"
    /\ conn' = "clear"
    /\ UNCHANGED <<shared, ws, to_close, greeted, readied, slow, captureVars, hookVars>>

PublishSocket ==
    /\ conn = "publish"
    /\ socket' = ws
    /\ conn' = "check"
    /\ UNCHANGED <<stop, server_ready, wire, ws, to_close, greeted, readied,
                   slow, captureVars, hookVars>>

\* Fault: the receive loop does not look at stop_event.
ReceiveCheckBlind ==
    /\ conn = "check"
    /\ conn' = "recv"
    /\ UNCHANGED <<shared, ws, to_close, greeted, readied, slow, captureVars, hookVars>>

\* The condition of receive_loop; leaving it runs the finally block.
ReceiveCheck ==
    /\ conn = "check"
    /\ conn' = IF stop THEN "clear" ELSE "recv"
    /\ UNCHANGED <<shared, ws, to_close, greeted, readied, slow, captureVars, hookVars>>

\* The server answers the options with SERVER_READY, once.
RecvReady ==
    /\ conn = "recv"
    /\ wire[ws] \in {"open", "broken"}
    /\ ws \notin readied
    /\ server_ready' = TRUE
    /\ readied' = readied \cup {ws}
    /\ conn' = "check"
    /\ UNCHANGED <<stop, socket, wire, ws, to_close, greeted, slow, captureVars,
                   hookVars>>

\* WAIT, WARNING, segments, or text that is no JSON.
RecvOther ==
    /\ conn = "recv"
    /\ wire[ws] \in {"open", "broken"}
    /\ conn' = "check"
    /\ UNCHANGED <<shared, ws, to_close, greeted, readied, slow, captureVars, hookVars>>

\* DISCONNECT, ERROR, an empty message, or an exception of recv.
RecvEnds ==
    /\ conn = "recv"
    /\ conn' = "clear"
    /\ UNCHANGED <<shared, ws, to_close, greeted, readied, slow, captureVars, hookVars>>

\* Fault: server_ready survives the connection.
ConnClearsNothing ==
    /\ conn = "clear"
    /\ conn' = "take"
    /\ UNCHANGED <<shared, ws, to_close, greeted, readied, slow, captureVars, hookVars>>

\* finally: server_ready.clear()
ConnClears ==
    /\ conn = "clear"
    /\ server_ready' = FALSE
    /\ conn' = "take"
    /\ UNCHANGED <<stop, socket, wire, ws, to_close, greeted, readied,
                   slow, captureVars, hookVars>>

TakeSocket ==
    /\ conn = "take"
    /\ to_close' = socket
    /\ socket' = None
    /\ conn' = "close"
    /\ UNCHANGED <<stop, server_ready, wire, ws, greeted, readied,
                   slow, captureVars, hookVars>>

\* Fault: the socket taken is not closed.
ConnClosesNothing ==
    /\ conn = "close"
    /\ conn' = "wait"
    /\ UNCHANGED <<shared, ws, to_close, greeted, readied, slow, captureVars, hookVars>>

ConnCloses ==
    /\ conn = "close"
    /\ wire' = Closed(to_close)
    /\ conn' = "wait"
    /\ UNCHANGED <<stop, server_ready, socket, ws, to_close, greeted, readied,
                   slow, captureVars, hookVars>>

\* Fault: no delay before the next attempt.
ReconnectDelayDropped ==
    /\ conn = "wait"
    /\ conn' = "top"
    /\ UNCHANGED <<shared, ws, to_close, greeted, readied, slow, captureVars, hookVars>>

\* stop_event.wait(reconnect_delay): the delay is over, or stop_event is set.
\* Unless it is slow capture_loop is back at its loop condition by then, because
\* server_ready was cleared before the delay began.
ReconnectDelay ==
    /\ conn = "wait"
    /\ slow' = (slow \/ (~stop /\ capture \notin {"top", "read", "done"}))
    /\ conn' = "top"
    /\ UNCHANGED <<shared, ws, to_close, greeted, readied, captureVars, hookVars>>

-----------------------------------------------------------------------------
(* capture_loop *)

\* Fault: the loop does not look at stop_event.
CaptureTopBlind ==
    /\ capture = "top"
    /\ capture' = "read"
    /\ UNCHANGED <<shared, connVars, sending, late, hookVars>>

CaptureTop ==
    /\ capture = "top"
    /\ capture' = IF stop THEN "done" ELSE "read"
    /\ UNCHANGED <<shared, connVars, sending, late, hookVars>>

\* A chunk was read; it is dropped unless the server is ready (and whenever
\* the resampler has no sample to give yet).
ReadChunk ==
    /\ capture = "read"
    /\ mic = "open"
    /\ \/ server_ready /\ capture' = "get"
       \/ capture' = "top"
    /\ UNCHANGED <<shared, connVars, sending, late, hookVars>>

\* Fault: a read error during the shutdown is retried.
ReadFailsRetry ==
    /\ capture = "read"
    /\ capture' = "read"
    /\ UNCHANGED <<shared, connVars, sending, late, hookVars>>

\* stream.read raised: over if the node is stopping, else tried again.
ReadFails ==
    /\ capture = "read"
    /\ capture' = IF stop THEN "done" ELSE "top"
    /\ UNCHANGED <<shared, connVars, sending, late, hookVars>>

GetSocket ==
    /\ capture = "get"
    /\ sending' = socket
    /\ capture' = IF socket = None THEN "top" ELSE "send"
    /\ UNCHANGED <<shared, connVars, late, hookVars>>

SendAudio ==
    /\ capture = "send"
    /\ wire[sending] \in {"open", "broken"}
    /\ late' = IF wire[sending] = "open" /\ sending \in said_end
                 THEN late + 1 ELSE late
    /\ capture' = "top"
    /\ UNCHANGED <<shared, connVars, sending, hookVars>>

SendFails ==
    /\ capture = "send"
    /\ wire[sending] # "open"
    /\ capture' = "clear"
    /\ UNCHANGED <<shared, connVars, sending, late, hookVars>>

\* except: server_ready.clear(), whichever connection is current by now.
CaptureClears ==
    /\ capture = "clear"
    /\ server_ready' = FALSE
    /\ capture' = "top"
    /\ UNCHANGED <<stop, socket, wire, connVars, sending, late, hookVars>>

-----------------------------------------------------------------------------
(* shutdown *)

ShutdownStarts ==
    /\ hook = "idle"
    /\ stop' = TRUE
    /\ hook' = "clear"
    /\ UNCHANGED <<server_ready, socket, wire, connVars, captureVars, ending,
                   said_end, mic>>

HookClears ==
    /\ hook = "clear"
    /\ server_ready' = FALSE
    /\ hook' = "get"
    /\ UNCHANGED <<stop, socket, wire, connVars, captureVars, ending,
                   said_end, mic>>

HookGetsSocket ==
    /\ hook = "get"
    /\ ending' = socket
    /\ hook' = IF socket = None THEN "mic" ELSE "end"
    /\ UNCHANGED <<shared, connVars, captureVars, said_end, mic>>

\* ws.send(b"END_OF_AUDIO"); its failure is ignored.
HookSaysEnd ==
    /\ hook = "end"
    /\ said_end' = IF wire[ending] = "open" THEN said_end \cup {ending}
                                            ELSE said_end
    /\ hook' = "close"
    /\ UNCHANGED <<shared, connVars, captureVars, ending, mic>>

HookCloses ==
    /\ hook = "close"
    /\ wire' = Closed(ending)
    /\ hook' = "mic"
    /\ UNCHANGED <<stop, server_ready, socket, connVars, captureVars, ending,
                   said_end, mic>>

HookClosesMic ==
    /\ hook = "mic"
    /\ mic' = "closed"
    /\ hook' = "done"
    /\ UNCHANGED <<shared, connVars, captureVars, ending, said_end>>

-----------------------------------------------------------------------------
\* The server or the network ends an open connection.
Break(c) ==
    /\ wire[c] = "open"
    /\ wire' = [wire EXCEPT ![c] = "broken"]
    /\ UNCHANGED <<stop, server_ready, socket, connVars, captureVars, hookVars>>

ConnLocal ==
    \/ ConnTop \/ Dial \/ DialFails \/ SendOptions \/ OptionsFail
    \/ PublishSocket \/ ReceiveCheck \/ ConnClears \/ TakeSocket \/ ConnCloses
    \/ ReconnectDelay

Receive == RecvReady \/ RecvOther \/ RecvEnds

CaptureStep ==
    \/ CaptureTop \/ ReadChunk \/ ReadFails \/ GetSocket \/ SendAudio
    \/ SendFails \/ CaptureClears

HookStep ==
    \/ HookClears \/ HookGetsSocket \/ HookSaysEnd \/ HookCloses
    \/ HookClosesMic

Next ==
    \/ ConnLocal
    \/ Receive
    \/ CaptureStep
    \/ ShutdownStarts
    \/ HookStep
    \/ \E c \in Dials : Break(c)

Spec == Init /\ [][Next]_vars

\* The threads run.  recv returns for certain only once the socket is closed
\* here; nothing obliges the server to answer or the node to stop.
Fairness ==
    /\ WF_vars(ConnLocal)
    /\ WF_vars(RecvEnds /\ wire[ws] = "closed")
    /\ WF_vars(CaptureStep)
    /\ WF_vars(HookStep)

FairSpec == Spec /\ Fairness

-----------------------------------------------------------------------------
(* Properties *)

\* Every variable keeps its type.
TypeOK ==
    /\ stop \in BOOLEAN
    /\ server_ready \in BOOLEAN
    /\ socket \in 0 .. MaxDials
    /\ wire \in [Dials -> {"none", "open", "broken", "closed"}]
    /\ greeted \in SUBSET Dials
    /\ readied \in SUBSET Dials
    /\ conn \in {"top", "dial", "options", "publish", "check", "recv", "clear",
                 "take", "close", "wait", "done"}
    /\ ws \in 0 .. MaxDials
    /\ to_close \in 0 .. MaxDials
    /\ slow \in BOOLEAN
    /\ capture \in {"top", "read", "get", "send", "clear", "done"}
    /\ sending \in 0 .. MaxDials
    /\ hook \in {"idle", "clear", "get", "end", "close", "mic", "done"}
    /\ ending \in 0 .. MaxDials
    /\ said_end \in SUBSET Dials
    /\ late \in Nat
    /\ mic \in {"open", "closed"}

\* Audio is never sent on a connection that did not get its options: the
\* socket is published after they were sent (lines 291-295), however long
\* ago capture_loop found the server ready (lines 246-255).
AudioAfterOptions == capture = "send" => sending \in greeted

\* The node keeps at most one live connection, the current one, and none
\* between two attempts or after the loop (lines 290-315, 605-613).
OnlyCurrentIsOpen ==
    \A c \in Dials :
        wire[c] = "open" => c = ws /\ conn \notin {"top", "dial", "wait", "done"}

\* A connection_loop blocked in recv, which has no timeout (line 292), is woken:
\* once the hook is past its socket, the one being received on is closed.
\* stop_event is set before self.socket is read (602-606), self.socket is
\* written before stop_event is read (294-318).
ShutdownReachesReceiver ==
    hook \in {"mic", "done"} /\ conn = "recv" => wire[ws] = "closed"

\* END_OF_AUDIO is the end: at most the frame already on its way follows
\* (lines 249-255 against 602-613).
AtMostOneLateFrame == late <= 1

\* Audio is sent only to a server that said it is ready on this connection, as
\* long as no iteration of capture_loop spanned two connections (lines 246, 303
\* and 328-333).
AudioAfterReady == ~slow /\ capture = "send" => sending \in readied

\* "Continuous voice-command node": while a connection is up and its server
\* is ready, the audio is let through (lines 3-5 of the documentation).
AudioFlows ==
    ~slow /\ conn \in {"check", "recv"} /\ wire[ws] = "open" /\ ws \in readied /\ ~stop
        => server_ready

\* Once the node is told to stop, both threads end.
ThreadsEnd == stop ~> conn = "done" /\ capture = "done"
=============================================================================
