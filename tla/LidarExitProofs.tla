--------------------------- MODULE LidarExitProofs ---------------------------
(***************************************************************************)
(* Theorems about LidarExit for any number of signals.                     *)
(*                                                                         *)
(* IInv says who may rely on the scanner and on the end of the laser       *)
(* thread.  LaserLeft and FrameLeft measure what is left to do once the    *)
(* node was told to end; the measures only fall.                           *)
(***************************************************************************)
EXTENDS LidarExit, TLAPS

\* A callback runs only while the services exist, which is only while the laser thread
\* has a scanner it is not about to replace: it replaces one in the run state "init",
\* which it has left for good when it comes back to its loop with services.
Served ==
    /\ InCallback => services
    /\ services => /\ scanner = "alive"
                   /\ laser \in {"ready", "running", "loop", "once", "failed", "reinit", "redo",
                                "services"}
    /\ services /\ laser \notin {"ready", "running"} => runState # "init"
    /\ laser \in {"init", "serve", "ready", "running"} => scanner = "alive"

\* Who goes on after a join found the laser thread gone, and with it the scanner.
Ended ==
    /\ ~thread => laser = "gone"
    /\ laser = "gone" => scanner = "null"
    /\ \A i \in Handlers : at[i] \in {"shutdown", "done"} => laser = "gone"
    /\ at[0] = "over" /\ ~misused => laser = "gone"

IInv == TypeOK /\ Served /\ Ended

LEMMA FrameFacts ==
    /\ 0 \in Frames
    /\ Handlers \subseteq Frames
    /\ \A i \in Handlers : i # 0
    /\ \A f \in Frames : f \notin Handlers => f = 0
    BY SignalsAssumption DEF Frames, Handlers

\* Initially the scanner is not there yet and nobody uses it.
LEMMA InitIInv == Init => IInv
    BY FrameFacts DEF Init, IInv, TypeOK, Served, Ended, InCallback, Stopping

\* The laser thread keeps the invariant, action by action.
LEMMA LaserStep == IInv /\ LaserNext => IInv'
<1> SUFFICES ASSUME IInv, LaserNext PROVE IInv'
    OBVIOUS
<1> USE FrameFacts DEF IInv, TypeOK, Served, Ended, InCallback, Stopping, mainVars,
           shared
<1>1. CASE InitAgain
    BY <1>1 DEF InitAgain, InLoop, Dying
<1>2. CASE Renew
    BY <1>2 DEF Renew
<1>3. CASE InitEnds
    BY <1>3 DEF InitEnds
<1>4. CASE StartServices
    BY <1>4 DEF StartServices
<1>5. CASE SetInitialized
    BY <1>5 DEF SetInitialized
<1>6. CASE SetRunState
    BY <1>6 DEF SetRunState
<1>7. CASE LoopOnce
    BY <1>7 DEF LoopOnce, InLoop
<1>13. CASE LoopEnds
  <2> USE <1>13 DEF LoopEnds, Returns
  <2>1. TypeOK'
    OBVIOUS
  <2>2. Served' /\ Ended'
    OBVIOUS
  <2> QED
    BY <2>1, <2>2
<1>14. CASE Interrupt
    BY <1>14 DEF Interrupt
<1>8. CASE ReinitLoop
    BY <1>8 DEF ReinitLoop
<1>9. CASE Reinit
  <2> USE <1>9 DEF Reinit, Returns
  <2>1. TypeOK'
    OBVIOUS
  <2>2. Served' /\ Ended'
    OBVIOUS
  <2> QED
    BY <2>1, <2>2
<1>10. CASE Leave
    BY <1>10 DEF Leave, InLoop
<1>11. CASE DeleteServices
    BY <1>11 DEF DeleteServices, Dying
<1>12. CASE DeleteScanner
    BY <1>12 DEF DeleteScanner
<1> QED
    BY <1>1, <1>2, <1>3, <1>4, <1>5, <1>6, <1>7, <1>8, <1>9, <1>10, <1>11, <1>12,
       <1>13, <1>14
    DEF LaserNext

\* A frame of stopScannerAndExit keeps it: it goes past the join when the laser thread
\* is gone, or ends in a crash.
LEMMA FrameStep == ASSUME IInv, NEW f \in Frames, FrameNext(f) PROVE IInv'
<1> USE FrameFacts DEF IInv, TypeOK, Served, Ended, InCallback, Stopping, laserVars, Goto,
           shared
<1>1. CASE CheckScanner(f)
    BY <1>1 DEF CheckScanner
<1>2. CASE CheckInitialized(f)
    BY <1>2 DEF CheckInitialized
<1>3. CASE StopScanData(f)
  <2> USE <1>3 DEF StopScanData, Undefined
  <2>1. TypeOK'
    OBVIOUS
  <2>2. Served'
    OBVIOUS
  <2>3. Ended'
    OBVIOUS
  <2> QED
    BY <2>1, <2>2, <2>3
<1>4. CASE Finalize(f)
    BY <1>4 DEF Finalize
<1>5. CASE Join(f)
  <2> USE <1>5 DEF Join, After, Undefined
  <2>1. TypeOK'
    OBVIOUS
  <2>2. Served'
    OBVIOUS
  <2>3. Ended'
    OBVIOUS
  <2> QED
    BY <2>1, <2>2, <2>3
<1>6. CASE Joined(f)
    BY <1>6 DEF Joined, After
<1> QED
    BY <1>1, <1>2, <1>3, <1>4, <1>5, <1>6 DEF FrameNext

\* The rest of the main thread, and what comes from outside.
LEMMA OtherStep ==
    ASSUME IInv,
           \/ CommandStarts \/ CommandEnds \/ TakeScan \/ ReplyEnds
           \/ SickScanExit \/ SpinEnds \/ RosGoesDown
           \/ \E i \in Handlers : Signal(i) \/ Shutdown(i)
    PROVE  IInv'
<1> USE FrameFacts DEF IInv, TypeOK, Served, Ended, InCallback, Stopping, laserVars, Goto,
           shared
<1>1. CASE CommandStarts
    BY <1>1 DEF CommandStarts
<1>2. CASE CommandEnds
    BY <1>2 DEF CommandEnds
<1>3. CASE SickScanExit
    BY <1>3 DEF SickScanExit
<1>4. CASE SpinEnds
    BY <1>4 DEF SpinEnds
<1>5. CASE RosGoesDown
    BY <1>5 DEF RosGoesDown
<1>6. CASE \E i \in Handlers : Signal(i)
    BY <1>6 DEF Signal
<1>7. CASE \E i \in Handlers : Shutdown(i)
    BY <1>7 DEF Shutdown
<1>8. CASE TakeScan
    BY <1>8 DEF TakeScan, mainVars
<1>9. CASE ReplyEnds
  <2> USE <1>9 DEF ReplyEnds, Undefined
  <2>1. TypeOK'
    OBVIOUS
  <2>2. Served' /\ Ended'
    OBVIOUS
  <2> QED
    BY <2>1, <2>2
<1> QED
    BY <1>1, <1>2, <1>3, <1>4, <1>5, <1>6, <1>7, <1>8, <1>9

LEMMA NextIInv == IInv /\ [Next]_vars => IInv'
<1>1. CASE UNCHANGED vars
    BY <1>1 DEF vars, laserVars, mainVars, shared, IInv, TypeOK, Served, Ended, InCallback
<1>2. CASE Next
    BY <1>2, LaserStep, FrameStep, OtherStep DEF Next, MainNext
<1> QED
    BY <1>1, <1>2

THEOREM Invariance == Spec => []IInv
    BY InitIInv, NextIInv, PTL DEF Spec

\* The states of the node's end have their types, for any number of signals.
THEOREM TypeCorrect == Spec => []TypeOK
<1>1. IInv => TypeOK
    BY DEF IInv
<1> QED
    BY <1>1, Invariance, PTL

\* The laser thread deletes no scanner under a callback of a service.
THEOREM CallbacksSafe == Spec => []CallbacksUseALiveScanner
<1>1. IInv => CallbacksUseALiveScanner
    BY DEF IInv, Served, CallbacksUseALiveScanner
<1> QED
    BY <1>1, Invariance, PTL

\* Nobody shuts ROS down or leaves main, unless by a crash, before the laser thread has
\* closed the connection.
THEOREM LaserLeavesFirst == Spec => []NobodyLeavesFirst
<1>1. IInv => NobodyLeavesFirst
    BY DEF IInv, Ended, NobodyLeavesFirst
<1> QED
    BY <1>1, Invariance, PTL

-----------------------------------------------------------------------------
(* Every step after the first signal brings the end nearer *)

\* How many steps the laser thread has before it at most, once ROS or a signal told the
\* node to end: it may be connecting, which it finishes, and reports as running.  Its
\* datagram may be taken from it once, before it waits for ever.
LaserLeft ==
    [renew |-> 8, init |-> 7, serve |-> 6, ready |-> 5, once |-> 5, redo |-> 5,
     running |-> 4, failed |-> 4, reinit |-> 4, loop |-> 3, services |-> 2, delete |-> 1,
     gone |-> 0][laser]
    + (IF laser = "renew" /\ scanner = "deleting" THEN 1 ELSE 0)
    + (IF laser \in {"once", "redo"} /\ "laser" \notin starves THEN 1 ELSE 0)

\* And a frame of the main thread; the callback of SickScanExit goes back to spinning.
FrameLeft(f) ==
    [command |-> 10, spin |-> 9, none |-> 9, check |-> 8, look |-> 7, stop |-> 6,
     reply |-> 5, final |-> 4, join |-> 3, joining |-> 2, shutdown |-> 1, done |-> 0,
     over |-> 0][at[f]]
    + IF f = 0 /\ at[0] \in Stopping /\ caller = "service" THEN 11 ELSE 0

\* One of them has fewer steps before it, none has more, and nothing revokes the end.
Nearer ==
    /\ ~rosOk'
    /\ LaserLeft' <= LaserLeft
    /\ \A f \in Frames : FrameLeft(f)' <= FrameLeft(f)
    /\ \/ LaserLeft' < LaserLeft
       \/ \E f \in Frames : FrameLeft(f)' < FrameLeft(f)
       \/ rosDown' # rosDown

\* From the signal until ROS is down a handler is under way, so that no callback begins.
Handled ==
    /\ signalled /\ ~rosDown => \E i \in Handlers : UnderWay(i)
    /\ at[0] \notin {"none", "shutdown", "done"}

\* A frame that moves leaves the others where they are.
LEMMA GotoFrame ==
    ASSUME TypeOK, NEW f \in Frames, NEW place, Goto(f, place)
    PROVE  at'[f] = place /\ \A g \in Frames : g # f => at'[g] = at[g]
    BY DEF TypeOK, Goto

\* A handler is done when it has shut ROS down.
LEMMA HandledNext == TypeOK /\ Handled /\ [Next]_vars => Handled'
<1> SUFFICES ASSUME TypeOK, Handled, [Next]_vars PROVE Handled'
    OBVIOUS
<1> USE FrameFacts DEF Handled, UnderWay
<1>1. ASSUME UNCHANGED <<signalled, rosDown>>, NEW f \in Frames, NEW place,
             Goto(f, place), place \notin {"none", "done"}, f = 0 => place # "shutdown"
      PROVE  Handled'
  <2>1. at'[f] = place /\ \A g \in Frames : g # f => at'[g] = at[g]
    BY <1>1, GotoFrame
  <2>2. at'[0] \notin {"none", "shutdown", "done"}
    BY <1>1, <2>1
  <2> QED
    BY <1>1, <2>1, <2>2
<1>2. CASE LaserNext \/ RosGoesDown \/ UNCHANGED vars
    BY <1>2 DEF LaserNext, RosGoesDown, InitAgain, Renew, InitEnds, StartServices,
                SetInitialized, SetRunState, LoopOnce, LoopEnds, Interrupt, ReinitLoop,
                Reinit, Returns, Leave, DeleteServices, DeleteScanner, vars, mainVars
<1>3. ASSUME NEW f \in Frames, FrameNext(f) PROVE Handled'
  <2>1. UNCHANGED <<signalled, rosDown>>
    BY <1>3 DEF FrameNext, CheckScanner, CheckInitialized, StopScanData, Finalize, Join, Joined
  <2>2. \E g \in Frames : \E place :
          Goto(g, place) /\ place \notin {"none", "done"} /\ (g = 0 => place # "shutdown")
    BY <1>3 DEF FrameNext, CheckScanner, CheckInitialized, StopScanData, Finalize, Join, Joined,
                After, Undefined
  <2> QED
    BY <1>1, <2>1, <2>2
<1>4. CASE CommandEnds \/ SpinEnds \/ CommandStarts \/ SickScanExit \/ ReplyEnds
    BY <1>1, <1>4 DEF CommandEnds, SpinEnds, CommandStarts, SickScanExit, ReplyEnds, Undefined
<1>7. CASE TakeScan
    BY <1>7 DEF TakeScan, mainVars
<1>5. ASSUME NEW i \in Handlers, Shutdown(i) PROVE Handled'
  <2>1. at'[0] = at[0] /\ rosDown'
    BY <1>5, GotoFrame DEF Shutdown
  <2> QED
    BY <2>1
<1>6. ASSUME NEW i \in Handlers, Signal(i) PROVE Handled'
  <2>1. at'[i] = "check" /\ at'[0] = at[0]
    BY <1>6, GotoFrame DEF Signal
  <2> QED
    BY <2>1
<1> QED
    BY <1>2, <1>3, <1>4, <1>5, <1>6, <1>7 DEF Next, MainNext

\* The laser thread, once told to leave, goes on to the end of its loop and out of it.
LEMMA LaserNearer == ASSUME TypeOK, TypeOK', ~rosOk, LaserNext PROVE Nearer
<1>1. ~InLoop
    BY DEF InLoop
<1>2. rosOk' = rosOk /\ \A f \in Frames : FrameLeft(f)' = FrameLeft(f)
    BY DEF LaserNext, InitAgain, Renew, InitEnds, StartServices, SetInitialized,
           SetRunState, LoopOnce, LoopEnds, Interrupt, ReinitLoop, Reinit, Returns, Leave,
           DeleteServices, DeleteScanner,
           mainVars, rosOk, FrameLeft
<1>3. LaserLeft' < LaserLeft
    BY <1>1 DEF LaserNext, InitAgain, Renew, InitEnds, StartServices, SetInitialized,
           SetRunState, LoopOnce, LoopEnds, Interrupt, ReinitLoop, Reinit, Returns, Leave,
           DeleteServices, DeleteScanner,
           LaserLeft, TypeOK
<1>4. LaserLeft' \in Nat /\ LaserLeft \in Nat
    BY DEF LaserLeft, TypeOK
<1>5. \A f \in Frames : FrameLeft(f) \in Nat
    BY DEF FrameLeft, TypeOK, Stopping
<1> QED
    BY <1>2, <1>3, <1>4, <1>5 DEF Nearer

\* A frame goes on.
LEMMA GotoNearer ==
    ASSUME TypeOK, TypeOK', ~rosOk', UNCHANGED <<laser, scanner>>,
           "laser" \in starves' <=> "laser" \in starves, NEW f \in Frames,
           \A g \in Frames \ {f} : at'[g] = at[g],
           f = 0 \/ caller' = caller,
           FrameLeft(f)' < FrameLeft(f)
    PROVE  Nearer
<1>1. LaserLeft' = LaserLeft
    BY DEF LaserLeft
<1>2. ASSUME NEW g \in Frames, g # f PROVE FrameLeft(g)' = FrameLeft(g)
  <2>1. at'[g] = at[g] /\ (g = 0 => caller' = caller)
    BY <1>2
  <2> QED
    BY <2>1 DEF FrameLeft
<1>3. /\ LaserLeft \in Nat
      /\ \A g \in Frames : FrameLeft(g) \in Nat /\ FrameLeft(g)' \in Nat
    BY DEF LaserLeft, FrameLeft, TypeOK, Stopping
<1>4. \A g \in Frames : FrameLeft(g)' <= FrameLeft(g)
    BY <1>2, <1>3
<1> QED
    BY <1>1, <1>3, <1>4 DEF Nearer

\* Each step of stopScannerAndExit goes on, be it into a crash.
LEMMA FrameNearer ==
    ASSUME TypeOK, TypeOK', Handled, ~rosOk, NEW f \in Frames, FrameNext(f) PROVE Nearer
<1>1. ~rosOk' /\ UNCHANGED <<laser, scanner, starves, caller>> /\ at[0] # "over"
    BY DEF FrameNext, CheckScanner, CheckInitialized, StopScanData, Finalize, Join, Joined,
           laserVars, shared, rosOk, Runs
<1>2. ASSUME NEW g \in Frames, NEW place, Goto(g, place), FrameLeft(g)' < FrameLeft(g)
      PROVE  Nearer
    BY <1>1, <1>2, GotoFrame, GotoNearer
<1>3. ASSUME Goto(0, "over") PROVE Nearer
  <2>1. at'[0] = "over" /\ at[0] \notin {"over", "none", "shutdown", "done"} /\ 0 \in Frames
    BY <1>1, <1>3, FrameFacts, GotoFrame DEF Handled
  <2>2. FrameLeft(0)' < FrameLeft(0)
    BY <2>1 DEF FrameLeft, TypeOK, Stopping
  <2> QED
    BY <1>2, <1>3, <2>1, <2>2
<1>4. ASSUME NEW place, Goto(f, place)
      PROVE  at'[f] = place /\ (f # 0 => at'[0] = at[0])
    BY <1>4, FrameFacts, GotoFrame
<1>5. \/ Goto(0, "over")
      \/ \E place : Goto(f, place) /\ FrameLeft(f)' < FrameLeft(f)
  <2>1. CASE CheckScanner(f) \/ CheckInitialized(f) \/ Finalize(f)
    BY <1>1, <1>4, <2>1 DEF CheckScanner, CheckInitialized, Finalize, FrameLeft, Stopping
  <2>2. CASE StopScanData(f)
    BY <1>1, <1>4, <2>2 DEF StopScanData, Undefined, FrameLeft, Stopping
  <2>3. CASE Join(f)
    BY <1>1, <1>4, <2>3, FrameFacts DEF Join, Undefined, After, FrameLeft, Stopping
  <2>4. CASE Joined(f)
    BY <1>1, <1>4, <2>4, FrameFacts DEF Joined, After, FrameLeft, Stopping
  <2> QED
    BY <2>1, <2>2, <2>3, <2>4 DEF FrameNext
<1> QED
    BY <1>2, <1>3, <1>5

\* So do the other steps; no callback begins any more.
LEMMA OtherNearer ==
    ASSUME TypeOK, TypeOK', Handled, ~rosOk,
           \/ CommandStarts \/ CommandEnds \/ TakeScan \/ ReplyEnds
           \/ SickScanExit \/ SpinEnds \/ RosGoesDown
           \/ \E i \in Handlers : Signal(i) \/ Shutdown(i)
    PROVE  Nearer
<1>1. ~CommandStarts /\ ~SickScanExit
    BY FrameFacts DEF CommandStarts, SickScanExit, Runs, Handled, rosOk, Handlers
<1>2. CASE CommandEnds
  <2>1. at[0] = "command" /\ at'[0] = "spin" /\ \A g \in Frames \ {0} : at'[g] = at[g]
    BY <1>2, FrameFacts, GotoFrame DEF CommandEnds
  <2>2. FrameLeft(0)' < FrameLeft(0)
    BY <2>1 DEF FrameLeft, Stopping
  <2>3. /\ ~rosOk' /\ UNCHANGED <<laser, scanner, caller>>
        /\ "laser" \in starves' <=> "laser" \in starves
    BY <1>2 DEF CommandEnds, laserVars, rosOk
  <2> QED
    BY <2>1, <2>2, <2>3, FrameFacts, GotoNearer
<1>3. CASE SpinEnds
  <2>1. /\ at[0] = "spin" /\ at'[0] = "check" /\ caller' = "main"
        /\ \A g \in Frames \ {0} : at'[g] = at[g]
    BY <1>3, FrameFacts, GotoFrame DEF SpinEnds
  <2>2. FrameLeft(0)' < FrameLeft(0)
    BY <2>1 DEF FrameLeft, Stopping
  <2>3. ~rosOk' /\ UNCHANGED <<laser, scanner, starves>>
    BY <1>3 DEF SpinEnds, laserVars, shared, rosOk
  <2> QED
    BY <2>1, <2>2, <2>3, FrameFacts, GotoNearer
<1>4. CASE RosGoesDown
  <2>1. /\ ~rosOk' /\ rosDown' # rosDown /\ LaserLeft' = LaserLeft
        /\ \A f \in Frames : FrameLeft(f)' = FrameLeft(f)
    BY <1>4 DEF RosGoesDown, laserVars, shared, rosOk, LaserLeft, FrameLeft
  <2>2. LaserLeft \in Nat /\ \A f \in Frames : FrameLeft(f) \in Nat
    BY DEF LaserLeft, FrameLeft, TypeOK, Stopping
  <2> QED
    BY <2>1, <2>2 DEF Nearer
<1>5. ASSUME NEW i \in Handlers, Signal(i) \/ Shutdown(i) PROVE Nearer
  <2>1. i \in Frames /\ i # 0
    BY FrameFacts
  <2>2. /\ \/ at[i] = "none" /\ at'[i] = "check"
           \/ at[i] = "shutdown" /\ at'[i] = "done"
        /\ \A g \in Frames \ {i} : at'[g] = at[g]
    BY <1>5, <2>1, GotoFrame DEF Signal, Shutdown
  <2>3. FrameLeft(i)' < FrameLeft(i)
    BY <2>1, <2>2 DEF FrameLeft, Stopping
  <2>4. ~rosOk' /\ UNCHANGED <<laser, scanner, starves, caller>>
    BY <1>5 DEF Signal, Shutdown, laserVars, shared, rosOk
  <2> QED
    BY <2>1, <2>2, <2>3, <2>4, GotoNearer
<1>6. CASE TakeScan
  <2>1. ~rosOk' /\ \A f \in Frames : FrameLeft(f)' = FrameLeft(f)
    BY <1>6 DEF TakeScan, laserVars, mainVars, rosOk, FrameLeft
  <2>2. LaserLeft' < LaserLeft
    BY <1>6 DEF TakeScan, Competing, laserVars, LaserLeft, TypeOK
  <2>3. /\ LaserLeft \in Nat /\ LaserLeft' \in Nat
        /\ \A f \in Frames : FrameLeft(f) \in Nat
    BY DEF LaserLeft, FrameLeft, TypeOK, Stopping
  <2> QED
    BY <2>1, <2>2, <2>3 DEF Nearer
<1>7. CASE ReplyEnds
  <2>1. /\ at[0] = "reply" /\ at'[0] \in {"final", "over"}
        /\ \A g \in Frames \ {0} : at'[g] = at[g]
    BY <1>7, FrameFacts, GotoFrame DEF ReplyEnds, Undefined
  <2>2. FrameLeft(0)' < FrameLeft(0)
    BY <1>7, <2>1 DEF ReplyEnds, FrameLeft, Stopping
  <2>3. /\ ~rosOk' /\ UNCHANGED <<laser, scanner, caller>>
        /\ "laser" \in starves' <=> "laser" \in starves
    BY <1>7 DEF ReplyEnds, laserVars, rosOk
  <2> QED
    BY <2>1, <2>2, <2>3, FrameFacts, GotoNearer
<1> QED
    BY <1>1, <1>2, <1>3, <1>4, <1>5, <1>6, <1>7

\* Once a signal or rosnode kill told the node to end, every step there is brings it
\* nearer to its end: the laser thread does not go on connecting or reading, no callback
\* or loop keeps a thread going round, for any number of signals.  What remains of
\* SignalEndsNode is that some step is possible, and fairness.
THEOREM EveryStepEnds == Spec => [][~rosOk => Nearer]_vars
<1>1. Init => Handled
    BY FrameFacts DEF Init, Handled
<1>2. IInv /\ Handled /\ [Next]_vars => Handled'
    BY HandledNext DEF IInv
<1>3. IInv /\ IInv' /\ Handled /\ [Next]_vars => [~rosOk => Nearer]_vars
  <2> SUFFICES ASSUME IInv, IInv', Handled, Next, ~rosOk PROVE Nearer
    OBVIOUS
  <2>1. TypeOK /\ TypeOK'
    BY DEF IInv
  <2> QED
    BY <2>1, LaserNearer, FrameNearer, OtherNearer DEF Next, MainNext
<1> QED
    BY <1>1, <1>2, <1>3, Invariance, PTL DEF Spec
=============================================================================
