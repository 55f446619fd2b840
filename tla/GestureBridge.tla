---------------------------- MODULE GestureBridge ----------------------------
(***************************************************************************)
(* The bridge between ROS 2 and ROS 1: ros2_to_ros1_sender.py and          *)
(* gesture_receiver.py.                                                    *)
(*                                                                         *)
(* The recogniser publishes, for every camera frame, the gestures and the  *)
(* skeleton markers of the persons in it.  The sender forwards both on a   *)
(* ZeroMQ socket each.  The receiver's loop drains the skeleton socket and *)
(* publishes the newest message only, then drains the gesture socket and   *)
(* publishes every message; its own subscription to the gestures draws     *)
(* the zones around the persons, on a thread of its own and slower than    *)
(* they come.  launch respawns the receiver if it dies.                    *)
(*                                                                         *)
(* A message is the number of its frame.                                   *)
(***************************************************************************)
EXTENDS Naturals, Sequences

CONSTANTS
    Depth,      \* queue of the sender's subscriptions: 10
    HighWater,  \* queue of a ZeroMQ socket: 1000
    EchoDepth,  \* queue of the receiver's own subscription: 10
    MaxFrames   \* bound: camera frames

ASSUME DepthAssumption ==
    Depth \in Nat \ {0} /\ HighWater \in Nat \ {0} /\ EchoDepth \in Nat \ {0}
ASSUME FramesAssumption == MaxFrames \in Nat

Frames == 1 .. MaxFrames
None == 0
Streams == {"gestures", "skeletons"}

VARIABLES
    frame,     \* the frames published by the recogniser are 1 .. frame
    sub,       \* the queues of the sender's subscriptions
    linked,    \* is the receiver's socket connected and subscribed?
    wire,      \* the messages ZeroMQ holds
    rx,        \* where the receiver's loop is
    events,    \* what poll returned
    latest,    \* its local: the newest skeleton message read
    relayed,   \* the frames published on the two ROS 1 topics
    echo,      \* the queue of the receiver's own subscription
    served,    \* the last gestures gesture_callback dealt with
    newest,    \* history: the last gestures this receiver published
    accepted,  \* history: what ZeroMQ took, without what died with a receiver
    awaited    \* history: the newest skeleton message there when poll returned

linkVars == <<sub, linked, wire, accepted>>
loopVars == <<rx, events, latest, relayed, awaited>>
zoneVars == <<echo, served, newest>>
vars == <<frame, linkVars, loopVars, zoneVars>>

Init ==
    /\ frame = 0
    /\ sub = [s \in Streams |-> <<>>]
    /\ linked = [s \in Streams |-> FALSE]
    /\ wire = [s \in Streams |-> <<>>]
    /\ rx = "poll"
    /\ events = {}
    /\ latest = None
    /\ relayed = [s \in Streams |-> <<>>]
    /\ echo = <<>>
    /\ served = None
    /\ newest = None
    /\ accepted = [s \in Streams |-> <<>>]
    /\ awaited = None

\* Fault: a full queue takes no more.
PushedIfRoom(q, f, n) == IF Len(q) < n THEN Append(q, f) ELSE q

\* A ROS queue of size n gives up its oldest message.
Pushed(q, f, n) == IF Len(q) < n THEN Append(q, f) ELSE Append(Tail(q), f)

LastOf(q) == IF q = <<>> THEN None ELSE q[Len(q)]

-----------------------------------------------------------------------------
(* The recogniser, and the sender's callbacks *)

\* The two topics are queued apart; nothing depends on which comes first.
Perceive ==
    /\ frame < MaxFrames
    /\ frame' = frame + 1
    /\ sub' = [s \in Streams |-> Pushed(sub[s], frame + 1, Depth)]
    /\ UNCHANGED <<linked, wire, accepted, loopVars, zoneVars>>

\* ZeroMQ takes a message if somebody is subscribed and there is room.
Takes(s) == linked[s] /\ Len(wire[s]) < HighWater

\* callback, skeleton_callback
Send(s) ==
    /\ sub[s] # <<>>
    /\ sub' = [sub EXCEPT ![s] = Tail(@)]
    /\ wire' = IF Takes(s) THEN [wire EXCEPT ![s] = Append(@, Head(sub[s]))]
                           ELSE wire
    /\ accepted' = IF Takes(s)
                     THEN [accepted EXCEPT ![s] = Append(@, Head(sub[s]))]
                     ELSE accepted
    /\ UNCHANGED <<frame, linked, loopVars, zoneVars>>

\* connect and SUBSCRIBE take effect, some time after the constructor.
Link(s) ==
    /\ rx # "down"
    /\ ~linked[s]
    /\ linked' = [linked EXCEPT ![s] = TRUE]
    /\ UNCHANGED <<frame, sub, wire, accepted, loopVars, zoneVars>>

-----------------------------------------------------------------------------
(* run *)

\* Fault: the skeleton socket is not registered.
ReadableUnregistered == {s \in {"gestures"} : wire[s] # <<>>}

Readable == {s \in Streams : wire[s] # <<>>}

\* poll returned, at once or after 200 ms with nothing to read.
Poll ==
    /\ rx = "poll"
    /\ events' = Readable
    /\ latest' = None
    /\ awaited' = LastOf(wire["skeletons"])
    /\ rx' = IF "skeletons" \in Readable THEN "skeletons" ELSE "gestures"
    /\ UNCHANGED <<frame, linkVars, relayed, zoneVars>>

\* recv_json(NOBLOCK) on the skeleton socket
ReadSkeletons ==
    /\ rx = "skeletons"
    /\ wire["skeletons"] # <<>>
    /\ latest' = Head(wire["skeletons"])
    /\ wire' = [wire EXCEPT !["skeletons"] = Tail(@)]
    /\ UNCHANGED <<frame, sub, linked, accepted, rx, events, relayed,
                   awaited, zoneVars>>

\* Fault: one message an iteration.
DrainedAtOnce == latest # None

\* zmq.Again
Drained == wire["skeletons"] = <<>>

\* publish_skeletons
PublishSkeletons ==
    /\ rx = "skeletons"
    /\ Drained
    /\ IF latest = None
         THEN UNCHANGED relayed
         ELSE relayed' = [relayed EXCEPT !["skeletons"] = Append(@, latest)]
    /\ rx' = "gestures"
    /\ UNCHANGED <<frame, linkVars, events, latest, awaited, zoneVars>>

\* Faults: the newest message is read; the others are dropped.
ReadNewest(q) == LastOf(q)
UnreadDropped(q) == <<>>

\* One message is read,
Read(q) == Head(q)

\* the others stay.
Unread(q) == Tail(q)

\* recv_json(NOBLOCK) and publish_gestures
ServeGesture ==
    /\ rx = "gestures"
    /\ "gestures" \in events
    /\ wire["gestures"] # <<>>
    /\ wire' = [wire EXCEPT !["gestures"] = Unread(@)]
    /\ relayed' = [relayed EXCEPT !["gestures"] =
                     Append(@, Read(wire["gestures"]))]
    /\ echo' = Pushed(echo, Read(wire["gestures"]), EchoDepth)
    /\ newest' = Read(wire["gestures"])
    /\ UNCHANGED <<frame, sub, linked, accepted, rx, events, latest,
                   awaited, served>>

\* zmq.Again, or nothing was there when poll returned
GesturesServed ==
    /\ rx = "gestures"
    /\ "gestures" \in events => wire["gestures"] = <<>>
    /\ rx' = "poll"
    /\ UNCHANGED <<frame, linkVars, events, latest, relayed, awaited, zoneVars>>

-----------------------------------------------------------------------------
(* gesture_callback, on a thread of its own *)

\* The zones are published, or a warning that the transform is not known: either
\* way after two lookups of 50 ms at most.
GestureCallback ==
    /\ rx # "down"
    /\ echo # <<>>
    /\ served' = Head(echo)
    /\ echo' = Tail(echo)
    /\ UNCHANGED <<frame, linkVars, loopVars, newest>>

-----------------------------------------------------------------------------
(* The receiver's process, and roslaunch *)

ReceiverDies ==
    /\ rx # "down"
    /\ rx' = "down"
    /\ linked' = [s \in Streams |-> FALSE]
    /\ wire' = [s \in Streams |-> <<>>]
    /\ accepted' = relayed
    /\ latest' = None /\ events' = {} /\ awaited' = None
    /\ echo' = <<>>
    /\ newest' = None
    /\ UNCHANGED <<frame, sub, relayed, served>>

\* respawn_delay is over.
Respawn ==
    /\ rx = "down"
    /\ rx' = "poll"
    /\ UNCHANGED <<frame, linkVars, events, latest, relayed, awaited, zoneVars>>

LoopStep ==
    \/ Poll \/ ReadSkeletons \/ PublishSkeletons \/ ServeGesture
    \/ GesturesServed

Next ==
    \/ Perceive
    \/ \E s \in Streams : Send(s) \/ Link(s)
    \/ LoopStep
    \/ GestureCallback
    \/ ReceiverDies \/ Respawn

Spec == Init /\ [][Next]_vars

\* The receiver's loop and its callback run.  Nothing obliges a frame to come, or a
\* socket to get connected.
Fairness ==
    /\ WF_vars(LoopStep)
    /\ WF_vars(GestureCallback)

FairSpec == Spec /\ Fairness

-----------------------------------------------------------------------------
(* Properties *)

\* Every variable keeps its type, and every queue its bound.
TypeOK ==
    /\ frame \in 0 .. MaxFrames
    /\ sub \in [Streams -> Seq(Frames)]
    /\ linked \in [Streams -> BOOLEAN]
    /\ wire \in [Streams -> Seq(Frames)]
    /\ rx \in {"poll", "skeletons", "gestures", "down"}
    /\ events \in SUBSET Streams
    /\ latest \in 0 .. MaxFrames
    /\ relayed \in [Streams -> Seq(Frames)]
    /\ echo \in Seq(Frames)
    /\ served \in 0 .. MaxFrames
    /\ newest \in 0 .. MaxFrames
    /\ accepted \in [Streams -> Seq(Frames)]
    /\ awaited \in 0 .. MaxFrames
    /\ \A s \in Streams : Len(sub[s]) <= Depth /\ Len(wire[s]) <= HighWater
    /\ Len(echo) <= EchoDepth

\* "Publish every waiting message, in order": what ZeroMQ took of the gestures
\* comes out, but for what dies with a receiver (receiver, lines 313-321).
NothingSkipped ==
    relayed["gestures"] \o wire["gestures"] = accepted["gestures"]

\* "This stream can never build up a delay": once the skeletons were served,
\* RViz has got everything that was there when poll returned, or something
\* newer (receiver, lines 299-311).
NoDelayBuildsUp ==
    rx \in {"gestures", "poll"} => awaited <= LastOf(relayed["skeletons"])

GestureRelay == INSTANCE Relay WITH relayed <- relayed["gestures"]
SkeletonRelay == INSTANCE Relay WITH relayed <- relayed["skeletons"]

\* Both streams come out in order and without repetition, across full queues,
\* the dropping of old skeletons and the death of the receiver.
ImplementsRelays == GestureRelay!Spec /\ SkeletonRelay!Spec

\* A skeleton message that reached the receiver is shown, or a newer one,
\* unless the receiver dies first (receiver, lines 299-311).
SkeletonsCatchUp ==
    \A f \in Frames :
        LastOf(wire["skeletons"]) = f
            ~> LastOf(relayed["skeletons"]) >= f \/ rx = "down"

\* The zones catch up with the gestures, although the callback waits for transforms
\* while more gestures come than its queue holds (receiver, lines 104-108, 151-197):
\* it gets to the newest the receiver published, unless the receiver dies first.
ZonesCatchUp ==
    \A f \in Frames : newest = f ~> served >= f \/ rx = "down"
=============================================================================
