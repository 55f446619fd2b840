------------------------- MODULE AnnouncementPlayer -------------------------
(***************************************************************************)
(* announcement_player.py: the node that speaks the decisions of core_node *)
(* through aplay and reports on /core/announcement_playing whether a       *)
(* sentence is being said.                                                 *)
(*                                                                         *)
(* Three kinds of threads share self.process, self.current_code and the    *)
(* topic: the subscriber's callback (one rospy thread per publisher        *)
(* connection), one wait_for_end thread per sentence, and the shutdown     *)
(* hook.  A `with self.lock` block is one action; what a thread does after *)
(* it released the lock (publishing, starting the waiter) is an action of  *)
(* its own, so every interleaving of these is explored.                    *)
(*                                                                         *)
(* A callback that returns early (unknown code, missing file, repeat of    *)
(* the sentence being said) changes nothing: its guards keep it out of     *)
(* StartSentence and FailToStart.                                          *)
(***************************************************************************)
EXTENDS Naturals

CONSTANTS
    Conns,        \* publisher connections, each with its callback thread
    Received,     \* the strings that may arrive, stripped and upper-cased
    VALID_CODES,  \* the six codes the player knows
    SoundFiles,   \* the codes whose WAV file exists
    NoCode,       \* current_code before the first sentence
    MaxPlays      \* bound: how many aplay processes a behaviour starts

ASSUME PlaysAssumption == MaxPlays \in Nat
ASSUME NoCodeAssumption == NoCode \notin VALID_CODES

Plays == 1 .. MaxPlays        \* the aplay processes, in starting order
NoProcess == 0                \* None
Codes == VALID_CODES \cap SoundFiles \cap Received

VARIABLES
    started,       \* number of aplay processes started
    said,          \* the code each of them plays
    aplay,         \* the life of each aplay process
    process,       \* self.process
    current_code,  \* self.current_code
    at,            \* where each callback thread is
    mine,          \* the aplay process its current callback started
    waiter,        \* the wait_for_end thread started for each sentence
    waits_on,      \* the process handed to that thread
    playing_topic, \* the latched value of /core/announcement_playing
    node           \* the life of the ROS node

vars == <<started, said, aplay, process, current_code, at, mine,
          waiter, waits_on, playing_topic, node>>

-----------------------------------------------------------------------------
\* self.process.poll() is None: the process has not exited.
Alive(p) == aplay[p] \in {"playing", "killed"}

Playing == process # NoProcess /\ Alive(process)

\* Fault: the old sentence is not terminated.
InterruptedForgotten == aplay

\* process.terminate() on the tracked process, if it is still alive.
Interrupted ==
    IF Playing THEN [aplay EXCEPT ![process] = "killed"] ELSE aplay

Init ==
    /\ started = 0
    /\ said = [p \in Plays |-> NoCode]
    /\ aplay = [p \in Plays |-> "unborn"]
    /\ process = NoProcess
    /\ current_code = NoCode
    /\ at = [c \in Conns |-> "idle"]
    /\ mine = [c \in Conns |-> NoProcess]
    /\ waiter = [p \in Plays |-> "unborn"]
    /\ waits_on = [p \in Plays |-> NoProcess]
    /\ playing_topic = FALSE
    /\ node = "up"

-----------------------------------------------------------------------------
(* callback *)

\* Fault: a repeat is not recognised.
IsRepeatForgotten(k) == FALSE

\* The same decision again while it is still being said.
IsRepeat(k) == Playing /\ k = current_code

\* The checks before Popen: the code is known, its file exists, no repeat.
Accepts(c, k) ==
    /\ node # "exited"
    /\ at[c] = "idle"
    /\ k \in VALID_CODES /\ k \in SoundFiles
    /\ ~IsRepeat(k)

\* The locked block when Popen succeeds.
StartSentence(c, k) ==
    /\ Accepts(c, k)
    /\ started < MaxPlays
    /\ started' = started + 1
    /\ said' = [said EXCEPT ![started + 1] = k]
    /\ aplay' = [Interrupted EXCEPT ![started + 1] = "playing"]
    /\ process' = started + 1
    /\ current_code' = k
    /\ at' = [at EXCEPT ![c] = "publish"]
    /\ mine' = [mine EXCEPT ![c] = started + 1]
    /\ UNCHANGED <<waiter, waits_on, playing_topic, node>>

\* The locked block when Popen raises OSError: the old sentence is gone.
FailToStart(c, k) ==
    /\ Accepts(c, k)
    /\ aplay' = Interrupted
    /\ process' = NoProcess
    /\ current_code' = k
    /\ UNCHANGED <<started, said, at, mine, waiter, waits_on,
                   playing_topic, node>>

\* playing_pub.publish(True), after the lock was released.
PublishTrue(c) ==
    /\ node # "exited"
    /\ at[c] = "publish"
    /\ playing_topic' = TRUE
    /\ at' = [at EXCEPT ![c] = "spawn"]
    /\ UNCHANGED <<started, said, aplay, process, current_code, mine,
                   waiter, waits_on, node>>

\* Thread(target=wait_for_end, args=(self.process, code)).start(): the
\* argument is read here, outside the lock.  wait_for_end(None) dies at once.
SpawnWaiter(c) ==
    /\ node # "exited"
    /\ at[c] = "spawn"
    /\ waits_on' = [waits_on EXCEPT ![mine[c]] = process]
    /\ waiter' = [waiter EXCEPT ![mine[c]] =
                    IF process = NoProcess THEN "done" ELSE "waiting"]
    /\ at' = [at EXCEPT ![c] = "idle"]
    /\ UNCHANGED <<started, said, aplay, process, current_code, mine,
                   playing_topic, node>>

-----------------------------------------------------------------------------
(* wait_for_end *)

\* Faults: whoever wakes up reports; the comparison is inverted.
FinishedUnchecked(w) == TRUE
FinishedInverted(w) == process # waits_on[w]

\* finished = self.process is process
Finished(w) == process = waits_on[w]

\* Faults: the finished process stays in self.process, or is replaced by
\* something that is no process.
ClearedForgotten == process
\* self.process = None
Cleared == NoProcess

\* communicate() returned; the locked block decides whether to report.
WaiterDecides(w) ==
    /\ node # "exited"
    /\ waiter[w] = "waiting"
    /\ ~Alive(waits_on[w])
    /\ IF Finished(w)
         THEN /\ process' = Cleared
              /\ waiter' = [waiter EXCEPT ![w] = "report"]
         ELSE /\ waiter' = [waiter EXCEPT ![w] = "done"]
              /\ UNCHANGED process
    /\ UNCHANGED <<started, said, aplay, current_code, at, mine, waits_on,
                   playing_topic, node>>

\* playing_pub.publish(False), after the lock was released.
WaiterReports(w) ==
    /\ node # "exited"
    /\ waiter[w] = "report"
    /\ playing_topic' = FALSE
    /\ waiter' = [waiter EXCEPT ![w] = "done"]
    /\ UNCHANGED <<started, said, aplay, process, current_code, at, mine,
                   waits_on, node>>

-----------------------------------------------------------------------------
(* stop_playback, run as a shutdown hook while the other threads go on *)

StopPlayback ==
    /\ node = "up"
    /\ aplay' = Interrupted
    /\ process' = NoProcess
    /\ node' = "stopping"
    /\ UNCHANGED <<started, said, current_code, at, mine, waiter, waits_on,
                   playing_topic>>

StopPublishes ==
    /\ node = "stopping"
    /\ playing_topic' = FALSE
    /\ node' = "stopped"
    /\ UNCHANGED <<started, said, aplay, process, current_code, at, mine,
                   waiter, waits_on>>

\* The Python process ends, its daemon threads with it.
NodeExits ==
    /\ node = "stopped"
    /\ node' = "exited"
    /\ UNCHANGED <<started, said, aplay, process, current_code, at, mine,
                   waiter, waits_on, playing_topic>>

-----------------------------------------------------------------------------
(* aplay: a sentence ends (or fails), or the SIGTERM takes effect *)

AplayEnds(p) ==
    /\ Alive(p)
    /\ aplay' = [aplay EXCEPT ![p] =
                   IF aplay[p] = "killed" THEN "interrupted" ELSE "ended"]
    /\ UNCHANGED <<started, said, process, current_code, at, mine, waiter,
                   waits_on, playing_topic, node>>

CallbackStep(c) ==
    \/ \E k \in Received : StartSentence(c, k) \/ FailToStart(c, k)
    \/ PublishTrue(c)
    \/ SpawnWaiter(c)

WaiterStep(w) == WaiterDecides(w) \/ WaiterReports(w)

Next ==
    \/ \E c \in Conns : CallbackStep(c)
    \/ \E w \in Plays : WaiterStep(w)
    \/ \E p \in Plays : AplayEnds(p)
    \/ StopPlayback
    \/ StopPublishes
    \/ NodeExits

Spec == Init /\ [][Next]_vars

\* Threads that have something to do run; recordings are finite and SIGTERM
\* is delivered.  Nothing obliges a message to arrive or the node to stop.
Fairness ==
    /\ \A c \in Conns : WF_vars(PublishTrue(c) \/ SpawnWaiter(c))
    /\ \A w \in Plays : WF_vars(WaiterStep(w))
    /\ \A p \in Plays : WF_vars(AplayEnds(p))

FairSpec == Spec /\ Fairness

-----------------------------------------------------------------------------
(* Properties *)

\* Every variable keeps its type (the attributes of __init__).
TypeOK ==
    /\ started \in 0 .. MaxPlays
    /\ said \in [Plays -> VALID_CODES \cup {NoCode}]
    /\ aplay \in [Plays -> {"unborn", "playing", "killed", "ended",
                            "interrupted"}]
    /\ process \in 0 .. MaxPlays
    /\ current_code \in VALID_CODES \cup {NoCode}
    /\ at \in [Conns -> {"idle", "publish", "spawn"}]
    /\ mine \in [Conns -> 0 .. MaxPlays]
    /\ waiter \in [Plays -> {"unborn", "waiting", "report", "done"}]
    /\ waits_on \in [Plays -> 0 .. MaxPlays]
    /\ playing_topic \in BOOLEAN
    /\ node \in {"up", "stopping", "stopped", "exited"}

\* A sentence that was not told to stop is the tracked one and says the latest
\* decision: the speaker never says two sentences, or a stale one (lines
\* 101-124, whatever the waiters and the shutdown hook do meanwhile).
SpeaksLatestDecision ==
    \A p \in Plays :
        aplay[p] = "playing" => p = process /\ said[p] = current_code

\* Only a sentence that was said to its end is reported as finished, never
\* one that a newer decision or the shutdown cut short (lines 142-148), even
\* when a waiter was handed a process its callback did not start (line 129).
InterruptedNeverReports ==
    \A w \in Plays : waiter[w] = "report" => aplay[waits_on[w]] = "ended"

\* Two waiters may wait for one process (line 129 reads self.process after
\* the lock); only one of them reports its end (lines 143-148).
EndReportedOnce ==
    \A v, w \in Plays :
        waiter[v] = "report" /\ waiter[w] = "report"
          /\ waits_on[v] = waits_on[w] => v = w

\* A sentence that ended is noticed: self.process does not keep it, so a
\* waiter exists for the tracked sentence under every interleaving of
\* callbacks (lines 128-146).
EndIsNoticed ==
    \A p \in Plays :
        process = p /\ aplay[p] = "ended"
            ~> process # p \/ node = "exited"

\* Every thread has published what it had to and nothing is about to change.
Quiet ==
    /\ node = "up"
    /\ \A c \in Conns : at[c] = "idle"
    /\ \A w \in Plays : waiter[w] # "report"
    /\ \A w \in Plays : waiter[w] = "waiting" => aplay[waits_on[w]] = "playing"

\* "True when a sentence starts and False when it ends" (lines 19-21), so that core_node
\* mutes the voice commands: at rest the topic says True when a sentence is being said,
\* and only then.
TopicTellsSpeech ==
    Quiet => (playing_topic <=> \E p \in Plays : aplay[p] = "playing")

\* What people hear: the code of the sentence not told to stop, or nothing.
speaking ==
    IF process # NoProcess /\ aplay[process] = "playing"
      THEN said[process] ELSE NoCode

Loudspeaker == INSTANCE Speaker WITH sentences <- started, Silent <- NoCode

\* The player implements the loudspeaker's promise: a sentence being said is
\* never started over, another decision replaces it at once (lines 15-17).
ImplementsSpeaker == Loudspeaker!Spec
=============================================================================
