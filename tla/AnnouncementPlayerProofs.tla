----------------------- MODULE AnnouncementPlayerProofs -----------------------
(***************************************************************************)
(* Proofs about AnnouncementPlayer, for any number of connections, codes   *)
(* and sentences.  The strengthening says what the lock protects: the      *)
(* tracked process was started and never told to stop, and a process a     *)
(* waiter reports is no longer tracked.                                    *)
(***************************************************************************)
EXTENDS AnnouncementPlayer, TLAPS

\* self.process is None or a started process nobody terminated.
Tracked ==
    /\ process <= started
    /\ process # NoProcess => aplay[process] \in {"playing", "ended"}

\* Process identifiers are handed out in order.
Unborn == \A p \in Plays : p > started => aplay[p] = "unborn"

\* A waiter waits for a started process.
WaitsOnStarted ==
    \A w \in Plays : waiter[w] \in {"waiting", "report"} =>
                        waits_on[w] # NoProcess /\ waits_on[w] <= started

\* The process whose end is being reported was cleared from self.process.
ReportedIsCleared ==
    \A w \in Plays : waiter[w] = "report" => process # waits_on[w]

IInv ==
    /\ TypeOK
    /\ Tracked
    /\ Unborn
    /\ WaitsOnStarted
    /\ ReportedIsCleared
    /\ SpeaksLatestDecision
    /\ InterruptedNeverReports
    /\ EndReportedOnce

USE PlaysAssumption, NoCodeAssumption

\* The inductive invariant holds of the player built by __init__.
LEMMA InitIInv == Init => IInv
<1> SUFFICES ASSUME Init PROVE IInv
  OBVIOUS
<1>1. 0 \in 0 .. MaxPlays
  OBVIOUS
<1>2. /\ said \in [Plays -> VALID_CODES \cup {NoCode}]
      /\ aplay \in [Plays -> {"unborn", "playing", "killed", "ended",
                              "interrupted"}]
      /\ at \in [Conns -> {"idle", "publish", "spawn"}]
      /\ mine \in [Conns -> 0 .. MaxPlays]
      /\ waiter \in [Plays -> {"unborn", "waiting", "report", "done"}]
      /\ waits_on \in [Plays -> 0 .. MaxPlays]
  BY <1>1, Zenon DEF Init, NoProcess
<1>3. TypeOK
  BY <1>1, <1>2 DEF Init, TypeOK, NoProcess
<1>4. /\ process = 0 /\ started = 0
      /\ \A p \in Plays : aplay[p] = "unborn" /\ waiter[p] = "unborn"
  BY DEF Init, NoProcess
<1>5. Tracked /\ Unborn /\ SpeaksLatestDecision
  BY <1>4 DEF Tracked, Unborn, SpeaksLatestDecision, NoProcess
<1> QED
  BY <1>3, <1>4, <1>5 DEF IInv, WaitsOnStarted, ReportedIsCleared,
     InterruptedNeverReports, EndReportedOnce

\* Terminating the tracked process changes that process only, and leaves no
\* sentence that was not told to stop (lines 101-113, 85-86).
LEMMA InterruptedEffect ==
  ASSUME IInv
  PROVE  /\ Interrupted \in [Plays -> {"unborn", "playing", "killed", "ended",
                                       "interrupted"}]
         /\ \A p \in Plays : Interrupted[p] # "playing"
         /\ \A p \in Plays : aplay[p] # "playing" => Interrupted[p] = aplay[p]
  BY DEF IInv, TypeOK, Tracked, SpeaksLatestDecision, Interrupted, Playing,
         Alive, Plays, NoProcess

\* Every step of the player preserves the inductive invariant.
LEMMA NextIInv == IInv /\ [Next]_vars => IInv'
<1> SUFFICES ASSUME IInv, [Next]_vars
             PROVE  IInv'
  OBVIOUS
<1> USE DEF Plays, NoProcess
<1>1. ASSUME NEW c \in Conns, NEW k \in Received, StartSentence(c, k)
      PROVE  IInv'
  <2>1. /\ started + 1 \in Plays /\ started \in Nat
        /\ k \in VALID_CODES
    BY <1>1 DEF StartSentence, Accepts, IInv, TypeOK
  <2>2. TypeOK'
    BY <1>1, <2>1, InterruptedEffect DEF StartSentence, IInv, TypeOK
  <2>3. /\ aplay'[started + 1] = "playing"
        /\ \A p \in Plays : p # started + 1 => aplay'[p] = Interrupted[p]
    BY <1>1, <2>1, InterruptedEffect DEF StartSentence
  <2>4. Tracked' /\ Unborn'
    BY <1>1, <2>1, <2>2, <2>3, InterruptedEffect
    DEF StartSentence, IInv, TypeOK, Tracked, Unborn
  <2>5. WaitsOnStarted' /\ ReportedIsCleared'
    BY <1>1, <2>1 DEF StartSentence, IInv, TypeOK, WaitsOnStarted,
                      ReportedIsCleared
  <2>6. SpeaksLatestDecision'
    BY <1>1, <2>1, <2>3, InterruptedEffect
    DEF StartSentence, IInv, TypeOK, SpeaksLatestDecision
  <2>7. InterruptedNeverReports'
    <3> SUFFICES ASSUME NEW w \in Plays, waiter[w] = "report"
                 PROVE  aplay'[waits_on[w]] = "ended"
      BY <1>1 DEF StartSentence, InterruptedNeverReports
    <3>1. /\ aplay[waits_on[w]] = "ended"
          /\ waits_on[w] \in Plays /\ waits_on[w] # started + 1
      BY <2>1 DEF IInv, TypeOK, InterruptedNeverReports, WaitsOnStarted
    <3> QED BY <3>1, <2>3, InterruptedEffect
  <2>8. EndReportedOnce'
    BY <1>1 DEF StartSentence, IInv, EndReportedOnce
  <2> QED BY <2>2, <2>4, <2>5, <2>6, <2>7, <2>8 DEF IInv
<1>2. ASSUME UNCHANGED <<waiter, waits_on, started, said>>,
             aplay' = Interrupted, process' = NoProcess, TypeOK'
      PROVE  IInv'
  \* what FailToStart and StopPlayback share: the lock block of an interruption
  <2>1. Tracked' /\ WaitsOnStarted' /\ ReportedIsCleared' /\ EndReportedOnce'
    BY <1>2 DEF IInv, TypeOK, Tracked, WaitsOnStarted, ReportedIsCleared,
                EndReportedOnce
  <2>2. Unborn'
    BY <1>2, InterruptedEffect DEF IInv, Unborn
  <2>3. SpeaksLatestDecision'
    BY <1>2, InterruptedEffect DEF SpeaksLatestDecision
  <2>4. InterruptedNeverReports'
    <3> SUFFICES ASSUME NEW w \in Plays, waiter[w] = "report"
                 PROVE  aplay'[waits_on[w]] = "ended"
      BY <1>2 DEF InterruptedNeverReports
    <3>1. aplay[waits_on[w]] = "ended" /\ waits_on[w] \in Plays
      BY DEF IInv, TypeOK, InterruptedNeverReports, WaitsOnStarted
    <3> QED BY <3>1, <1>2, InterruptedEffect
  <2> QED BY <1>2, <2>1, <2>2, <2>3, <2>4 DEF IInv
<1>3. ASSUME NEW c \in Conns, NEW k \in Received, FailToStart(c, k)
      PROVE  IInv'
  <2>1. TypeOK'
    BY <1>3, InterruptedEffect DEF FailToStart, Accepts, IInv, TypeOK
  <2> QED BY <1>2, <1>3, <2>1 DEF FailToStart
<1>4. CASE StopPlayback
  <2>1. TypeOK'
    BY <1>4, InterruptedEffect DEF StopPlayback, IInv, TypeOK
  <2> QED BY <1>2, <1>4, <2>1 DEF StopPlayback
<1>5. ASSUME UNCHANGED <<started, said, aplay, process, current_code, waiter,
                         waits_on>>,
             TypeOK'
      PROVE  IInv'
  BY <1>5 DEF IInv, Tracked, Unborn, WaitsOnStarted, ReportedIsCleared,
              SpeaksLatestDecision, InterruptedNeverReports, EndReportedOnce
<1>6. ASSUME NEW c \in Conns, PublishTrue(c)
      PROVE  IInv'
  <2>1. TypeOK'
    BY <1>6 DEF PublishTrue, IInv, TypeOK
  <2> QED BY <1>5, <1>6, <2>1 DEF PublishTrue
<1>7. CASE StopPublishes \/ NodeExits
  <2>1. TypeOK'
    BY <1>7 DEF StopPublishes, NodeExits, IInv, TypeOK
  <2> QED BY <1>5, <1>7, <2>1 DEF StopPublishes, NodeExits
<1>8. ASSUME NEW c \in Conns, SpawnWaiter(c)
      PROVE  IInv'
  <2>1. TypeOK'
    BY <1>8 DEF SpawnWaiter, IInv, TypeOK
  <2>2. Tracked' /\ Unborn' /\ SpeaksLatestDecision'
    BY <1>8 DEF SpawnWaiter, IInv, Tracked, Unborn, SpeaksLatestDecision
  <2>3. WaitsOnStarted'
    BY <1>8 DEF SpawnWaiter, IInv, TypeOK, Tracked, WaitsOnStarted
  <2>4. \A w \in Plays : waiter'[w] = "report" =>
            waiter[w] = "report" /\ waits_on'[w] = waits_on[w]
    BY <1>8 DEF SpawnWaiter, IInv, TypeOK, WaitsOnStarted
  <2>5. ReportedIsCleared' /\ InterruptedNeverReports' /\ EndReportedOnce'
    BY <1>8, <2>4 DEF SpawnWaiter, IInv, ReportedIsCleared,
                      InterruptedNeverReports, EndReportedOnce
  <2> QED BY <2>1, <2>2, <2>3, <2>5 DEF IInv
<1>9. ASSUME NEW w \in Plays, WaiterDecides(w)
      PROVE  IInv'
  <2>1. waits_on[w] \in Plays /\ ~Alive(waits_on[w])
    BY <1>9 DEF WaiterDecides, IInv, TypeOK, WaitsOnStarted
  <2>2. TypeOK'
    BY <1>9 DEF WaiterDecides, Cleared, IInv, TypeOK
  <2>3. CASE Finished(w)
    <3>1. aplay[waits_on[w]] = "ended"
      BY <2>1, <2>3 DEF Finished, Alive, IInv, Tracked
    <3>2. Tracked' /\ Unborn' /\ SpeaksLatestDecision'
      BY <1>9, <2>3, <3>1 DEF WaiterDecides, Cleared, Finished, IInv, TypeOK,
                              Tracked, Unborn, SpeaksLatestDecision
    <3>3. WaitsOnStarted' /\ ReportedIsCleared' /\ InterruptedNeverReports'
      BY <1>9, <2>3, <3>1 DEF WaiterDecides, Cleared, IInv, TypeOK,
                WaitsOnStarted, ReportedIsCleared, InterruptedNeverReports
    <3>4. EndReportedOnce'
      BY <1>9, <2>3 DEF WaiterDecides, Finished, IInv, TypeOK,
                        ReportedIsCleared, EndReportedOnce
    <3> QED BY <2>2, <3>2, <3>3, <3>4 DEF IInv
  <2>4. CASE ~Finished(w)
    BY <1>9, <2>2, <2>4 DEF WaiterDecides, IInv, TypeOK, Tracked, Unborn,
              WaitsOnStarted, ReportedIsCleared, SpeaksLatestDecision,
              InterruptedNeverReports, EndReportedOnce
  <2> QED BY <2>3, <2>4
<1>10. ASSUME NEW w \in Plays, WaiterReports(w)
       PROVE  IInv'
  <2>1. TypeOK'
    BY <1>10 DEF WaiterReports, IInv, TypeOK
  <2>2. Tracked' /\ Unborn' /\ SpeaksLatestDecision'
    BY <1>10 DEF WaiterReports, IInv, Tracked, Unborn, SpeaksLatestDecision
  <2>3. \A v \in Plays : waiter'[v] \in {"waiting", "report"} =>
            waiter'[v] = waiter[v]
    BY <1>10 DEF WaiterReports, IInv, TypeOK
  <2>4. WaitsOnStarted' /\ ReportedIsCleared' /\ InterruptedNeverReports'
        /\ EndReportedOnce'
    BY <1>10, <2>3 DEF WaiterReports, IInv, WaitsOnStarted, ReportedIsCleared,
                       InterruptedNeverReports, EndReportedOnce
  <2> QED BY <2>1, <2>2, <2>4 DEF IInv
<1>11. ASSUME NEW p \in Plays, AplayEnds(p)
       PROVE  IInv'
  BY <1>11 DEF AplayEnds, Alive, IInv, TypeOK, Tracked, Unborn,
               WaitsOnStarted, ReportedIsCleared, SpeaksLatestDecision,
               InterruptedNeverReports, EndReportedOnce
<1>12. CASE UNCHANGED vars
  <2>1. TypeOK'
    BY <1>12 DEF vars, IInv, TypeOK
  <2> QED BY <1>5, <1>12, <2>1 DEF vars
<1> QED
  BY <1>1, <1>3, <1>4, <1>6, <1>7, <1>8, <1>9, <1>10, <1>11, <1>12
  DEF Next, CallbackStep, WaiterStep

\* The inductive invariant holds in every reachable state.
THEOREM Invariance == Spec => []IInv
  BY InitIInv, NextIInv, PTL DEF Spec

\* Type correctness of the player's attributes and threads.
THEOREM TypeCorrect == Spec => []TypeOK
<1>1. IInv => TypeOK  BY DEF IInv
<1> QED BY Invariance, <1>1, PTL

\* At most one sentence is said at a time, and it is the latest decision.
THEOREM LatestDecision == Spec => []SpeaksLatestDecision
<1>1. IInv => SpeaksLatestDecision  BY DEF IInv
<1> QED BY Invariance, <1>1, PTL

\* A sentence cut short is never reported as finished.
THEOREM NoFalseReport == Spec => []InterruptedNeverReports
<1>1. IInv => InterruptedNeverReports  BY DEF IInv
<1> QED BY Invariance, <1>1, PTL

\* Of the waiters of one process only one reports its end.
THEOREM OneReport == Spec => []EndReportedOnce
<1>1. IInv => EndReportedOnce  BY DEF IInv
<1> QED BY Invariance, <1>1, PTL

-----------------------------------------------------------------------------
(* Somebody watches *)

\* Until a callback has handed a process over, the one it started is its own.
Mine == \A c \in Conns : at[c] # "idle" => mine[c] \in Plays

\* The tracked process has a waiter, or a callback that is about to start one for
\* it: line 129 may hand over another process than the callback's own, but the one
\* it hands over is the tracked one.
Watched ==
    process # NoProcess =>
        \/ \E w \in Plays : waiter[w] = "waiting" /\ waits_on[w] = process
        \/ \E c \in Conns : at[c] # "idle" /\ mine[c] = process

\* Every step keeps it.
LEMMA NextWatched == IInv /\ Mine /\ Watched /\ [Next]_vars => Mine' /\ Watched'
<1> SUFFICES ASSUME IInv, Mine, Watched, [Next]_vars
             PROVE  Mine' /\ Watched'
  OBVIOUS
<1> USE DEF Mine, Watched
<1>0. TypeOK
  BY DEF IInv
<1>1. ASSUME NEW c \in Conns, NEW k \in Received, StartSentence(c, k)
      PROVE  Mine' /\ Watched'
  <2>1. started + 1 \in Plays
    BY <1>0, <1>1 DEF StartSentence, TypeOK, Plays
  <2>2. /\ at' = [at EXCEPT ![c] = "publish"] /\ mine' = [mine EXCEPT ![c] = started + 1]
        /\ process' = started + 1
    BY <1>1 DEF StartSentence
  <2> QED BY <1>0, <2>1, <2>2 DEF TypeOK
<1>2. ASSUME NEW c \in Conns, NEW k \in Received, FailToStart(c, k)
      PROVE  Mine' /\ Watched'
  BY <1>2 DEF FailToStart
<1>3. ASSUME NEW c \in Conns, PublishTrue(c) PROVE Mine' /\ Watched'
  BY <1>0, <1>3 DEF PublishTrue, TypeOK
<1>4. ASSUME NEW c \in Conns, SpawnWaiter(c) PROVE Mine' /\ Watched'
  <2>1. mine[c] \in Plays
    BY <1>4 DEF SpawnWaiter
  <2>2. process # NoProcess =>
          waiter'[mine[c]] = "waiting" /\ waits_on'[mine[c]] = process
    BY <1>0, <1>4, <2>1 DEF SpawnWaiter, TypeOK
  <2> QED BY <1>0, <1>4, <2>1, <2>2 DEF SpawnWaiter, TypeOK
<1>5. ASSUME NEW w \in Plays, WaiterDecides(w) PROVE Mine' /\ Watched'
  <2>1. CASE Finished(w)
    BY <1>5, <2>1 DEF WaiterDecides, Cleared
  <2>2. CASE ~Finished(w)
    BY <1>0, <1>5, <2>2 DEF WaiterDecides, Finished, TypeOK
  <2> QED BY <2>1, <2>2
<1>6. ASSUME NEW w \in Plays, WaiterReports(w) PROVE Mine' /\ Watched'
  BY <1>0, <1>6 DEF WaiterReports, TypeOK
<1>7. CASE StopPlayback
  BY <1>7 DEF StopPlayback
<1>8. CASE \/ \E p \in Plays : AplayEnds(p)
           \/ StopPublishes \/ NodeExits \/ UNCHANGED vars
  BY <1>8 DEF AplayEnds, StopPublishes, NodeExits, vars
<1> QED
  BY <1>1, <1>2, <1>3, <1>4, <1>5, <1>6, <1>7, <1>8
  DEF Next, CallbackStep, WaiterStep

\* A sentence that is being said, or has just ended, never lacks the thread that will
\* notice its end, whatever the callbacks and waiters do to each other between the
\* lock and line 129: what EndIsNoticed needs beside fairness.
THEOREM SomebodyWatches == Spec => []Watched
<1>1. Init => Mine /\ Watched
  BY DEF Init, Mine, Watched
<1> QED BY <1>1, NextWatched, Invariance, PTL DEF Spec

-----------------------------------------------------------------------------
(* The player implements Speaker. *)

\* Cutting the tracked sentence short is silence, or nothing at all.
LEMMA InterruptionRefines ==
  ASSUME IInv, process' = NoProcess, UNCHANGED started
  PROVE  [Loudspeaker!Next]_<<speaking, started>>
  BY DEF speaking, Loudspeaker!Next, Loudspeaker!FallSilent

\* Every step of the player is a step of the loudspeaker or a stutter.
LEMMA StepRefines ==
  IInv /\ [Next]_vars => [Loudspeaker!Next]_<<speaking, started>>
<1> SUFFICES ASSUME IInv, [Next]_vars
             PROVE  [Loudspeaker!Next]_<<speaking, started>>
  OBVIOUS
<1> USE DEF Plays, NoProcess
<1>1. ASSUME NEW c \in Conns, NEW k \in Received, StartSentence(c, k)
      PROVE  Loudspeaker!Next
  <2>1. k \in Codes /\ k # NoCode
    BY <1>1 DEF StartSentence, Accepts, Codes
  <2>2. speaking # k
    BY <1>1, <2>1 DEF StartSentence, Accepts, IsRepeat, Playing, Alive,
                      speaking, IInv, TypeOK, SpeaksLatestDecision
  <2>3. speaking' = k
    BY <1>1, InterruptedEffect DEF StartSentence, speaking, IInv, TypeOK
  <2>4. Loudspeaker!Speak(k)
    BY <1>1, <2>2, <2>3 DEF StartSentence, Loudspeaker!Speak
  <2> QED BY <2>1, <2>4 DEF Loudspeaker!Next
<1>2. ASSUME NEW c \in Conns, NEW k \in Received, FailToStart(c, k)
      PROVE  [Loudspeaker!Next]_<<speaking, started>>
  BY <1>2, InterruptionRefines DEF FailToStart
<1>3. CASE StopPlayback
  BY <1>3, InterruptionRefines DEF StopPlayback
<1>4. ASSUME NEW p \in Plays, AplayEnds(p)
      PROVE  [Loudspeaker!Next]_<<speaking, started>>
  BY <1>4 DEF AplayEnds, Alive, IInv, TypeOK, Tracked, speaking,
              Loudspeaker!Next, Loudspeaker!FallSilent
<1>5. ASSUME NEW w \in Plays, WaiterDecides(w)
      PROVE  [Loudspeaker!Next]_<<speaking, started>>
  BY <1>5, InterruptionRefines DEF WaiterDecides, Cleared, speaking
<1>6. ASSUME UNCHANGED <<started, said, aplay, process>>
      PROVE  UNCHANGED <<speaking, started>>
  BY <1>6 DEF speaking
<1>7. ASSUME NEW c \in Conns, PublishTrue(c) \/ SpawnWaiter(c)
      PROVE  UNCHANGED <<speaking, started>>
  BY <1>6, <1>7 DEF PublishTrue, SpawnWaiter
<1>8. ASSUME NEW w \in Plays, WaiterReports(w)
      PROVE  UNCHANGED <<speaking, started>>
  BY <1>6, <1>8 DEF WaiterReports
<1>9. CASE StopPublishes \/ NodeExits \/ UNCHANGED vars
  BY <1>6, <1>9 DEF StopPublishes, NodeExits, vars
<1> QED
  BY <1>1, <1>2, <1>3, <1>4, <1>5, <1>7, <1>8, <1>9
  DEF Next, CallbackStep, WaiterStep

\* A sentence being said is never started over; another decision replaces it.
THEOREM Refinement == Spec => ImplementsSpeaker
<1>1. Init => Loudspeaker!Init
  BY DEF Init, Loudspeaker!Init, speaking
<1>2. Spec => Loudspeaker!Spec
  BY <1>1, StepRefines, Invariance, PTL
  DEF Spec, Loudspeaker!Spec, Loudspeaker!speakerVars
<1> QED BY <1>2 DEF ImplementsSpeaker
=============================================================================
