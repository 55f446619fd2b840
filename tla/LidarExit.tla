------------------------------ MODULE LidarExit ------------------------------
(***************************************************************************)
(* How sick_scan_xd's node ends: sick_generic_laser.cpp and main.          *)
(*                                                                         *)
(* The laser thread makes the scanner object and the services, reads scans *)
(* and deletes both when it leaves its loop.  The main thread spins, that  *)
(* is it runs the callbacks of the services, and the handler of SIGINT and *)
(* SIGTERM runs on top of whatever it does there, a second one on top of   *)
(* the first.  The service SickScanExit, the handler and the end of main   *)
(* all call stopScannerAndExit, which uses the scanner of the laser thread *)
(* and then waits for that thread.                                         *)
(*                                                                         *)
(* Use of a deleted object and a join within a join are undefined: the     *)
(* process may crash, and is not followed further when it does not.        *)
(***************************************************************************)
EXTENDS Naturals

CONSTANT MaxSignals   \* bound: signals the node gets

ASSUME SignalsAssumption == MaxSignals \in Nat

\* Frame 0 is main, frame i the handler of the i-th signal.
Frames == 0 .. MaxSignals
Handlers == 1 .. MaxSignals

VARIABLES
    laser,     \* where the laser thread is
    scanner,   \* s_scanner: null, alive, or being deleted
    services,  \* do the service servers exist?
    initialized, \* s_isInitialized
    runState,  \* s_runState
    thread,    \* is s_generic_laser_thread set?
    signalled, \* s_shutdownSignalReceived
    rosDown,   \* has ros::shutdown been called?
    at,        \* where each frame of the main thread is
    caller,    \* who called stopScannerAndExit in frame 0: service or main
    starves,   \* the threads whose datagram the other one took
    misused    \* was something undefined done?

laserVars == <<laser, scanner, services, initialized, thread>>
mainVars == <<signalled, rosDown, at, caller, misused>>
shared == <<runState, starves>>
vars == <<laserVars, shared, mainVars>>

Init ==
    /\ laser = "loop"
    /\ scanner = "null"
    /\ services = FALSE
    /\ initialized = FALSE
    /\ runState = "init"
    /\ thread = TRUE
    /\ signalled = FALSE
    /\ rosDown = FALSE
    /\ at = [f \in Frames |-> IF f = 0 THEN "spin" ELSE "none"]
    /\ caller = "main"
    /\ starves = {}
    /\ misused = FALSE

\* Fault: the flag of the signal handler is not looked at.
RosOkUnsignalled == ~rosDown

rosOk == ~rosDown /\ ~signalled

\* The places of stopScannerAndExit.
Stopping == {"check", "look", "stop", "reply", "final", "join", "joining"}

\* Does the main thread run, or was it interrupted in, a callback of a service?
InCallback == at[0] = "command" \/ (at[0] \in Stopping /\ caller = "service")

\* Both threads take from one queue, which LidarLink describes.  The commands that stop
\* the lidar do not wait for sopasSendMutex, and their keyword is one of loopOnce's.
Competing ==
    \/ laser = "once" /\ at[0] \in {"command", "reply"}
    \/ laser = "redo" /\ at[0] = "reply"

-----------------------------------------------------------------------------
(* The laser thread *)

InLoop == laser = "loop" /\ rosOk /\ runState # "finalize"

\* DELETE_PTR: the pointer is cleared when the object is gone.
Dying == IF scanner = "alive" THEN "deleting" ELSE scanner

InitAgain ==
    /\ InLoop
    /\ runState = "init"
    /\ scanner' = Dying
    /\ laser' = "renew"
    /\ UNCHANGED <<services, initialized, thread, shared, mainVars>>

Renew ==
    /\ laser = "renew"
    /\ \/ scanner = "deleting" /\ scanner' = "null" /\ UNCHANGED laser
       \/ scanner = "null" /\ scanner' = "alive" /\ laser' = "init"
    /\ UNCHANGED <<services, initialized, thread, shared, mainVars>>

\* The lidar is there, or it is not.
InitEnds ==
    /\ laser = "init"
    /\ laser' \in {"serve", "loop"}
    /\ UNCHANGED <<scanner, services, initialized, thread, shared, mainVars>>

StartServices ==
    /\ laser = "serve"
    /\ services' = TRUE
    /\ laser' = "ready"
    /\ UNCHANGED <<scanner, initialized, thread, shared, mainVars>>

SetInitialized ==
    /\ laser = "ready"
    /\ initialized' = TRUE
    /\ laser' = "running"
    /\ UNCHANGED <<scanner, services, thread, shared, mainVars>>

\* Whatever the run state has become meanwhile.
SetRunState ==
    /\ laser = "running"
    /\ runState' = "run"
    /\ laser' = "loop"
    /\ UNCHANGED <<scanner, services, initialized, thread, starves, mainVars>>

LoopOnce ==
    /\ InLoop
    /\ runState = "run"
    /\ laser' = "once"
    /\ UNCHANGED <<scanner, services, initialized, thread, shared, mainVars>>

\* The laser thread has its datagram or a timeout; what it takes may be what the main
\* thread has found, which then waits in pop.
Returns ==
    /\ \/ starves' = starves \ {"laser"}
       \/ Competing /\ starves' = {"main"}
    /\ UNCHANGED <<scanner, services, initialized, thread, runState, mainVars>>

\* loopOnce brought a scan, or it and the monitor time out; where nothing is monitored
\* its error is the end.
LoopEnds ==
    /\ laser = "once"
    /\ laser' \in {"loop", "reinit", "failed"}
    /\ Returns

\* The loop is entered once more, with an exit code that is not ExitSuccess.
Interrupt ==
    /\ laser = "failed"
    /\ laser' = "loop"
    /\ runState' = IF rosOk THEN "finalize" ELSE runState
    /\ UNCHANGED <<scanner, services, initialized, thread, starves, mainVars>>

\* Fault: a reinit that fails is tried again whatever happens.
ReinitForEver ==
    /\ laser = "reinit"
    /\ laser' = "redo"
    /\ UNCHANGED <<scanner, services, initialized, thread, shared, mainVars>>

\* The loop of checkStateReinitOnError does not look at the run state.
ReinitLoop ==
    /\ laser = "reinit"
    /\ laser' = IF rosOk THEN "redo" ELSE "loop"
    /\ UNCHANGED <<scanner, services, initialized, thread, shared, mainVars>>

\* reinit succeeds, fails, or throws an exception.
Reinit ==
    /\ laser = "redo"
    /\ laser' \in {"reinit", "loop", "failed"}
    /\ Returns

\* Fault: the scanner is deleted before its services.
LeaveUnserved ==
    /\ laser = "loop"
    /\ ~InLoop
    /\ laser' = "delete"
    /\ scanner' = Dying
    /\ UNCHANGED <<services, initialized, thread, shared, mainVars>>

Leave ==
    /\ laser = "loop"
    /\ ~InLoop
    /\ laser' = "services"
    /\ UNCHANGED <<scanner, services, initialized, thread, shared, mainVars>>

\* roscpp: the server of a service is removed when no callback of it is under way.
DeleteServices ==
    /\ laser = "services"
    /\ ~InCallback
    /\ services' = FALSE
    /\ scanner' = Dying
    /\ laser' = "delete"
    /\ UNCHANGED <<initialized, thread, shared, mainVars>>

DeleteScanner ==
    /\ laser = "delete"
    /\ scanner' = "null"
    /\ laser' = "gone"
    /\ UNCHANGED <<services, initialized, thread, shared, mainVars>>

-----------------------------------------------------------------------------
(* The main thread *)

UnderWay(i) == at[i] \notin {"none", "done"}

\* The topmost frame that is under way is the one that runs.
Runs(f) == at[0] # "over" /\ \A i \in Handlers : i > f => ~UnderWay(i)

Goto(f, place) == at' = [at EXCEPT ![f] = place]

CommandStarts ==
    /\ Runs(0)
    /\ at[0] = "spin"
    /\ services
    /\ ~rosDown
    /\ Goto(0, "command")
    /\ UNCHANGED <<laserVars, shared, signalled, rosDown, caller, misused>>

CommandEnds ==
    /\ Runs(0)
    /\ at[0] = "command"
    /\ Goto(0, "spin")
    /\ starves' = starves \ {"main"}
    /\ UNCHANGED <<laserVars, runState, signalled, rosDown, caller, misused>>

\* A command takes the datagram that the laser thread has found, and goes on waiting.
TakeScan ==
    /\ Runs(0)
    /\ Competing
    /\ "laser" \notin starves
    /\ starves' = {"laser"}
    /\ UNCHANGED <<laserVars, runState, mainVars>>

SickScanExit ==
    /\ Runs(0)
    /\ at[0] = "spin"
    /\ services
    /\ ~rosDown
    /\ Goto(0, "check")
    /\ caller' = "service"
    /\ UNCHANGED <<laserVars, shared, signalled, rosDown, misused>>

SpinEnds ==
    /\ Runs(0)
    /\ at[0] = "spin"
    /\ rosDown
    /\ Goto(0, "check")
    /\ caller' = "main"
    /\ UNCHANGED <<laserVars, shared, signalled, rosDown, misused>>

\* rosnode kill, or another node of this name.
RosGoesDown ==
    /\ at[0] # "over"
    /\ ~rosDown
    /\ rosDown' = TRUE
    /\ UNCHANGED <<laserVars, shared, signalled, at, caller, misused>>

\* rosSignalHandler begins, on top of what is under way; a signal waits for the end of
\* its own handler, so that SIGINT and SIGTERM are at most one on top of the other.
Signal(i) ==
    /\ at[0] # "over"
    /\ at[i] = "none"
    /\ \A j \in Handlers : j < i => at[j] # "none"
    /\ \A j, k \in Handlers : UnderWay(j) /\ UnderWay(k) => j = k
    /\ signalled' = TRUE
    /\ Goto(i, "check")
    /\ UNCHANGED <<laserVars, shared, rosDown, caller, misused>>

-----------------------------------------------------------------------------
(* stopScannerAndExit, in a frame *)

CheckScanner(f) ==
    /\ Runs(f)
    /\ at[f] = "check"
    /\ Goto(f, IF scanner = "null" THEN "join" ELSE "look")
    /\ UNCHANGED <<laserVars, shared, signalled, rosDown, caller, misused>>

CheckInitialized(f) ==
    /\ Runs(f)
    /\ at[f] = "look"
    /\ Goto(f, IF initialized THEN "stop" ELSE "final")
    /\ UNCHANGED <<laserVars, shared, signalled, rosDown, caller, misused>>

\* Something undefined was done: the process crashes, or it does not.
Undefined(f, place) == misused' = TRUE /\ (Goto(f, place) \/ Goto(0, "over"))

\* stopScanData sends its commands, whatever became of the scanner meanwhile.  A handler
\* does not wait for the replies (force_immediate_shutdown).
StopScanData(f) ==
    /\ Runs(f)
    /\ at[f] = "stop"
    /\ IF scanner = "alive"
       THEN Goto(f, IF f \in Handlers THEN "final" ELSE "reply") /\ UNCHANGED misused
       ELSE Undefined(f, "final")
    /\ UNCHANGED <<laserVars, shared, signalled, rosDown, caller>>

\* The replies are there or their timeouts are over.
ReplyEnds ==
    /\ Runs(0)
    /\ at[0] = "reply"
    /\ IF scanner = "alive" THEN Goto(0, "final") /\ UNCHANGED misused
       ELSE Undefined(0, "final")
    /\ starves' = starves \ {"main"}
    /\ UNCHANGED <<laserVars, runState, signalled, rosDown, caller>>

Finalize(f) ==
    /\ Runs(f)
    /\ at[f] = "final"
    /\ runState' = "finalize"
    /\ Goto(f, "join")
    /\ UNCHANGED <<laserVars, starves, signalled, rosDown, caller, misused>>

\* Where a frame goes on.
After(f) == IF f \in Handlers THEN "shutdown"
            ELSE IF caller = "service" THEN "spin" ELSE "over"

\* Fault: the pointer is cleared before the thread is joined.
JoinCleared(f) ==
    /\ Runs(f)
    /\ at[f] = "join"
    /\ Goto(f, IF thread THEN "joining" ELSE After(f))
    /\ thread' = FALSE
    /\ UNCHANGED <<laser, scanner, services, initialized, shared, signalled, rosDown,
                   caller, misused>>

\* A thread is joined once: joining it on top of a join is undefined.
Join(f) ==
    /\ Runs(f)
    /\ at[f] = "join"
    /\ IF thread /\ \E g \in Frames : at[g] = "joining" THEN Undefined(f, "joining")
       ELSE Goto(f, IF thread THEN "joining" ELSE After(f)) /\ UNCHANGED misused
    /\ UNCHANGED <<laserVars, shared, signalled, rosDown, caller>>

Joined(f) ==
    /\ Runs(f)
    /\ at[f] = "joining"
    /\ laser = "gone"
    /\ thread' = FALSE
    /\ Goto(f, After(f))
    /\ UNCHANGED <<laser, scanner, services, initialized, shared, signalled, rosDown,
                   caller, misused>>

\* The end of the handler: rosShutdown.
Shutdown(i) ==
    /\ Runs(i)
    /\ at[i] = "shutdown"
    /\ rosDown' = TRUE
    /\ Goto(i, "done")
    /\ UNCHANGED <<laserVars, shared, signalled, caller, misused>>

-----------------------------------------------------------------------------
LaserNext ==
    /\ at[0] # "over"
    /\ \/ InitAgain \/ Renew \/ InitEnds \/ StartServices \/ SetInitialized \/ SetRunState
       \/ LoopOnce \/ LoopEnds \/ Interrupt \/ ReinitLoop \/ Reinit
       \/ Leave \/ DeleteServices \/ DeleteScanner

FrameNext(f) ==
    \/ CheckScanner(f) \/ CheckInitialized(f) \/ StopScanData(f) \/ Finalize(f)
    \/ Join(f) \/ Joined(f)

MainNext ==
    \/ CommandEnds
    \/ SpinEnds
    \/ ReplyEnds
    \/ \E f \in Frames : FrameNext(f)
    \/ \E i \in Handlers : Shutdown(i)

Next ==
    \/ LaserNext
    \/ MainNext
    \/ CommandStarts
    \/ TakeScan
    \/ SickScanExit
    \/ RosGoesDown
    \/ \E i \in Handlers : Signal(i)

Spec == Init /\ [][Next]_vars

\* The wait of pop has no timeout; the commands of reinit wait for a service's command.
LaserWaits == "laser" \in starves \/ (laser = "redo" /\ at[0] = "command")
MainWaits == "main" \in starves /\ Runs(0)

\* A thread that does not wait for the other one runs, and what it asked the lidar is
\* answered or times out; nobody need call a service or send a signal, and the lidar
\* need not be there.
FairSpec ==
    /\ Spec
    /\ WF_vars(LaserNext /\ ~LaserWaits)
    /\ WF_vars(MainNext /\ ~MainWaits)

-----------------------------------------------------------------------------
(* Properties *)

TypeOK ==
    /\ laser \in {"loop", "renew", "init", "serve", "ready", "running", "once",
                  "failed", "reinit", "redo", "services", "delete", "gone"}
    /\ scanner \in {"null", "alive", "deleting"}
    /\ {services, initialized, thread, signalled, rosDown, misused} \subseteq BOOLEAN
    /\ runState \in {"init", "run", "finalize"}
    /\ at \in [Frames -> Stopping \cup {"spin", "command", "over", "none", "shutdown",
                                        "done"}]
    /\ caller \in {"service", "main"}
    /\ starves \in {{}, {"laser"}, {"main"}}

\* The callback of a service never works on a scanner that is deleted, although the
\* laser thread deletes it on its own when the run state, a signal or ROS tells it to.
CallbacksUseALiveScanner == InCallback => scanner = "alive"

\* However signals, rosnode kill and SickScanExit come on top of each other, the ROS
\* node is shut down by a handler, and main returns, only when the laser thread has
\* ended and the connection to the lidar is closed; a crash is excepted.
NobodyLeavesFirst ==
    /\ \A i \in Handlers : at[i] \in {"shutdown", "done"} => laser = "gone"
    /\ at[0] = "over" /\ ~misused => laser = "gone" /\ scanner = "null"

\* A signal or rosnode kill ends the process, whatever the laser thread is busy with and
\* though the lidar never answers, with two exceptions: a callback that never returns,
\* as SickScanExit does not, nor a command that a signal came on top of, because the
\* laser thread waits for the callback and the callback for the laser thread; and a
\* thread that waits in pop for ever, for a datagram that the other one took.
SignalEndsNode ==
    signalled \/ rosDown ~> \/ at[0] = "over"
                            \/ misused
                            \/ []InCallback
                            \/ [](starves # {})

\* A signal on top of the idle main thread ends the process without these exceptions:
\* the handler competes for no datagram and waits for no callback.
IdleNodeEnds ==
    at[0] = "spin" /\ starves = {} /\ (\E i \in Handlers : UnderWay(i)) ~>
        at[0] = "over" \/ misused
=============================================================================
