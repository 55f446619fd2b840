# Formal models of the JetNano / Husky human-robot interaction stack

The repository is the software of a Clearpath Husky that drives among people. A
ZED camera on a Jetson recognises persons and hand gestures, a microphone and
two servers (WhisperLive, Ollama) recognise spoken commands, a planner drives,
a laser scanner (SICK LMS1xx, driven by `sick_scan_xd`) sees obstacles, and a
loudspeaker tells people what the robot decided. `core_node`, which takes the
decisions, is not part of the repository; the programs around it are, and this
directory models them in TLA+.

## 1. The system

| Part | Source | State it keeps | Operations | Talks to |
|---|---|---|---|---|
| Announcement player | `src_ros1/robot_bringup/scripts/announcement_player.py` | `process`, `current_code`, latched topic | `callback`, `wait_for_end` (one thread per sentence), `stop_playback` (hook) | `/core/announcement` in, `/core/announcement_playing` out, `aplay` processes |
| Voice command node, link | `src_ros1/voice_classifier/scripts/voice_command_node.py` 142-354, 587-626 | `stop_event`, `server_ready`, `socket`, the microphone | `connection_loop`, `receive_loop`, `capture_loop`, `shutdown` (hook) | WhisperLive over a WebSocket |
| Voice command node, resampler | same file, 33-75 | `tail`, `previous`, `position` | `process` | the capture thread |
| Voice command node, pipeline | same file, 263-281 and 356-582 | `processed_keys`, `processed_order`, `classification_queue` | `process_segments`, `remember_segment`, `reset_segment_state`, `classification_worker`, `publish_classification` | Ollama over HTTP, four `/voice/*` topics |
| Gesture bridge | `ros2_to_ros1_sender.py`, `gesture_receiver.py` | two ZeroMQ streams, the queue of its own subscription | two sender callbacks, the receiver's loop, `gesture_callback` | ROS 2 in, ROS 1 out |
| Gesture recogniser | `zed_skeleton_yolo.py` | latest image and header, frame | `image_callback`, `skeleton_callback` | ZED topics in, markers and states out |
| Waypoint sender | `yaml_waypoint_sender.py` | position in the list | the goal loop, `cancel_all_goals` (hook) | `move_base` action |
| Odometry reset | `reset_odom_on_start.py` | none | three service calls in order | UM7, EKF, `move_base` |
| Velocity multiplexer | `config/twist_mux.yaml` | (twist_mux) | priorities, timeouts, lock | `cmd_vel` sources |
| Lidar driver, frames | `sick_scan_xd/driver/src/sick_scan_common_tcp.cpp` 240-595 | receive buffer, queue of datagrams | read thread: `readCallbackFunction`, `findFrameInReceiveBuffer` | the lidar's byte stream |
| Lidar driver, link | `tcp/tcp.cpp`, `template_queue.h`, `sick_scan_common*.cpp`, `sick_generic_monitoring.cpp`, `sick_scan_services.cpp` | socket, read thread, queue, `sopasSendMutex` | connect, commands and answers, `loopOnce`, reinit, service calls | the lidar over TCP, clouds and services on ROS |
| Lidar driver, shutdown | `sick_generic_laser.cpp`, `sick_generic_caller.cpp` | `s_scanner`, services, `s_runState`, `s_isInitialized`, the laser thread | the laser thread's loop, `stopScannerAndExit`, `rosSignalHandler`, the join | signals, `SickScanExit`, ROS |
| Container runner | `docker/husky-noetic/run_husky.sh` | build signature, build tree | decide, build, record | docker, catkin |

`PROJECT.json` lists all parts. Of the two drivers kept in the repository
`sick_scan_xd` is modelled where threads meet; the ZED wrapper is a shell around
a closed SDK. Data directories (`graphify-out`, `site_maps`, `videos`) hold no
program.

What is hard about it: `rospy` runs a callback thread per publisher connection
and the shutdown hooks beside all of them; the voice node shares four objects
between three threads with almost no lock; connections break at any moment;
the server repeats itself in every message; publications happen after the lock
that guarded the decision was released. The lidar driver has a laser thread, a
read thread and the main thread with its services and signal handlers; they share
one queue, one mutex that is held while an answer is waited for, and a scanner
object that one of them deletes. `PROJECT.json` lists every such hazard
at its line, with the properties that watch it or the reason why none does.

## 2. Modules

    Speaker            <-  AnnouncementPlayer  <-  AnnouncementPlayerProofs
                                               <-  MCAnnouncementPlayer
                           VoiceConnection     <-  VoiceCaptureProofs
                                               <-  MCVoiceConnection
    Transcript         <-  VoicePipeline       <-  VoicePipelineProofs
                                               <-  MCVoicePipeline
    Relay              <-  GestureBridge       <-  GestureBridgeProofs
                                               <-  MCGestureBridge
    Resampling         <-  StreamResampler     <-  VoiceCaptureProofs
                                               <-  MCStreamResampler
                           HuskyRunner         <-  HuskyRunnerProofs
                                               <-  MCHuskyRunner
                           ColaStream          <-  ColaStreamProofs
                                               <-  MCColaStream
    Relay              <-  LidarLink           <-  LidarLinkProofs
                                               <-  MCLidarLink
                           LidarExit           <-  LidarExitProofs
                                               <-  MCLidarExit

The left column holds abstract specifications: what a component promises to the
rest of the robot, without threads, queues or buffers. The detailed module
INSTANCEs it under a refinement mapping, and `Implements...` is the property
that every step of the code is a step of the promise or leaves it alone.

| Module | Promise |
|---|---|
| `Speaker` | one sentence at a time; a sentence being said is never started over; another decision replaces it at once |
| `Transcript` | in each session every completed segment is transcribed once, in order, without a gap, and answered once, in the same order |
| `Relay` | frames may be lost, but one that comes out was put in, comes out once, and never after a younger one (instantiated for each stream of the gesture bridge and for the lidar's scans) |
| `Resampling` | the output is that of the filter over the whole stream, however the stream was cut |

Definitions whose comment begins with "Fault:" are bugs the code does not have.
They are not part of any specification; each stands before the definition it
replaces when one wants to see that a property notices the bug.

## 3. How the modules correspond to the code

### AnnouncementPlayer

`process`, `current_code` are the attributes of the class, with `process` the
number of an `aplay` process and `NoProcess` for `None`; `said` and `aplay` are
those processes' sentences and lives. A `with self.lock` block is one action
(`StartSentence`, `FailToStart`, `WaiterDecides`, `StopPlayback`), since every
access to the shared attributes inside it is under that lock; what a thread does
after releasing the lock is an action of its own (`PublishTrue`, `SpawnWaiter`,
`WaiterReports`, `StopPublishes`). `SpawnWaiter` reads `self.process` outside
the lock, as line 129 does. A message is one of the strings that may arrive,
already stripped and upper-cased; unknown codes, codes without a file and
repeats change nothing and are kept out by the guards. An `aplay` process ends,
or fails, at any moment.

### VoiceConnection

Every access to `stop_event`, `server_ready`, `self.socket` and the socket
itself is one action; `conn`, `capture` and `hook` are the program counters of
the three threads, `ws`, `to_close`, `sending`, `ending` their locals. The
accesses of `self.socket` are under `socket_lock` in the code, which protects
one read or write at a time and no more. `greeted`, `readied`, `said_end` and
`late` are histories of what went over each connection. A connection breaks at
any moment (`Break`) and `recv` may fail or end at any moment (`RecvEnds`).

### VoicePipeline

One iteration of `process_segments` is one action (`SkipSegment` or
`TranscribeSegment` with `Remember`, the eviction included), and so is one
publication of `publish_classification`. A segment's key is its number in the
transcript of its connection; a message is the number of the last completed
segment in it, and stands for the last `Window` of them. `Classify` chooses one
of the commands `normalize_command` may return; `ClassifyFails` stands for every
exception of `classify_with_llama`.

### GestureBridge

A message is the number of its camera frame; `sub`, `wire`, `echo` are the ROS 2
queues, the ZeroMQ queues and the ROS 1 queue of the receiver's own
subscription. One `recv_json` is one action, with the publication it leads to.
`GestureCallback` is one call of `gesture_callback`, on its thread: whatever it draws,
or if it returns early without a transform, it is done with that message (`served`);
meanwhile more gestures come than `echo` holds, and the oldest go. `accepted`,
`awaited` and `newest` are histories used by the properties. `ReceiverDies` may happen
between any two steps, which covers malformed messages; `Respawn` is roslaunch's.

### StreamResampler

One call of `process` is one action, on a chunk of any length up to `MaxChunk`.
Sample k of the stream is the number k, a filtered value is the window of
samples it is computed from, an interpolated value is the pair it lies between
and the weight: two outputs are equal exactly if they are computed from the same
samples in the same way. Positions count 1 / OutRate of a sample.

### HuskyRunner

`at` is where each shell that runs the script is. `image` is what the tag stands for
and `source` the sources on the host: both change at any moment (`MoveTag`, `Edit`).
`container` is the image the container was created from, which it keeps. A signature
is a pair of image and sources: `InspectImage` and `HashSources` compute it, `stored`
is the signature file, and `tree` says from which pair each package was last built.
`BuildPackage` uses the image of the container and the sources of that moment, and
takes a package as built entirely from them. `crossed` records that a run
inspected another image than the one its container has. `Remove` is `docker rm -f`:
whatever runs in the container ends, and `set -e` takes the shells that waited
for it to their trap. A build that Ctrl+C left behind goes on until then.

### ColaStream

The bytes of a frame are numbers from 0 to 15, the start mark is two of them and
the length one, so that payloads that look like frames are short. `buffer` is
`m_receiveBuffer` up to its fill, `wire` what the lidar sent and `recv` has not
returned. `ReadChunk` is one `recv` and the copy into the buffer; the loop of
`readCallbackFunction` is one action per round (`NoFrameYet`, `Discard`, `Hang`,
`CutFrame`), under the buffer's mutex. `CounterSize` is the range of the 16-bit
counter of the checksum loop, `BufferSize` that of the buffer; a lost connection
leaves the buffer as it is (`stale`).

### LidarLink

`at` is where the laser thread and the main thread are: both send a command under
`sopasSendMutex` (`holder`), wait for the datagram with its keyword
(`waitForIncomingObject`) and take it (`pop`), as separate actions. `queue` is
`recvQueue`, `asked` what the lidar still owes, `reader` the read thread. A
connection breaks silently or is hung up at any moment, the lidar answers, refuses
or says nothing. A service sends one of five commands: one whose keyword `loopOnce` does
not wait for, `sEN LMDscandata 1` and `0`, whose keyword the scans match, `sEN
LIDoutputstate 1`, whose keyword is in `loopOnce`'s list, and one too short to have a
keyword, which every datagram matches; `ColaMsg` sends any of them. So the service may pop
scans in search of its answer and drop them, and either thread may take what the other
has found. `late`, `confused`, `strayed` (a thread found a refusal of another's command),
`robbed` (the laser thread took the answer to the service's command), `sent` (the
keywords services used) and `published` are histories; `Starves` is a thread in `pop`
whose datagram is gone. Datagrams are whole, since `ColaStream` shows how they are cut out of the stream.
A wait times out only when nothing comes (`NothingComes`): the timeout starts anew
with every datagram pushed, so that it never runs out under a stream of scans.

### LidarExit

`laser` is where the laser thread is, from a round of its loop to the deletion of
services and scanner; `once` is `loopOnce` with the monitor, `redo` a reinit, and
`failed` the way to `scanner_finalize` after an error (`Interrupt`). The main thread is a
stack of frames: frame 0 is `main`, with the callbacks it runs while it spins, frame i
the handler of the i-th signal; only the topmost frame runs. `stopScannerAndExit` is
seven actions, one for each access to something shared and one for the wait for the
lidar's replies (`reply`), which a handler leaves out. While both threads want datagrams
with common keywords (`Competing`), the main thread may take what the laser thread has
found (`TakeScan`) and the laser thread what the main thread has found (`Returns`): the
other one is then in the wait of `pop` (`starves`), which ends only if a further datagram
comes. What C++ leaves undefined, to use a scanner that is being
deleted or to join within a join, is recorded in `misused` and either ends the
process or does not.

## 4. Runs

| Run | Question | Instance |
|---|---|---|
| `player` | Is at most one sentence said, the latest one, and is exactly its end reported, once, and noticed whatever process the waiters were handed? Does the player implement `Speaker`? | 2 connections, 2 sentences, codes with and without a file, an unknown string |
| `player_topic` | Does the topic tell whether a sentence is being said? It does not: see the findings. | 1 connection, 2 sentences |
| `voice_link` | Options before audio, one live connection, a shutdown that always wakes the receiver, one late frame at most, threads that end once the node is told to stop; does `server_ready` speak of the current connection? | 3 connections, capture thread at any speed |
| `pipeline` | Is every segment transcribed and answered once and in order, and answered at all, with the smallest memory the assumption allows? | 2 sessions, 3 segments each, window and memory of 2, a message in flight beside the one being processed |
| `bridge` | Order, completeness and no delay across full queues and respawns; are skeletons published in the end, does the slow callback get to the newest gestures; does it implement `Relay`, twice? | 4 frames, queues of 2 and 2, an echo queue of 1 |
| `resampler` | Is the output that of the whole stream for every way of cutting it? | 5 samples in for 2 out, 3 taps, chunks of 1 to 6, 40 samples |
| `runner` | Does a signature mean a complete build, and does skipping launch nothing older than image and sources? | 2 shells, 2 packages, 3 images and 2 states of the sources that never come back |
| `runner_return` | Is a skipped build the current one? Not if old sources come back: see the findings. | 1 shell, 2 packages, 1 image, 2 states of the sources |
| `cola_stream` | Does the read thread find the frames that were sent, all of them and at once, however the stream is cut and whatever the payloads look like? Has the buffer always room? | 3 frames out of 3 payloads (two look like frames), chunks of 1 to 7 bytes, a buffer of 14, one lost connection |
| `lidar_link` | One command at a time, no confused answers, scans in order and once, none lost on the first connection, a lost link restored, service calls that return | 3 connections, 2 scans, 1 service call with any of five commands |
| `lidar_silent` | Is a silent lidar always connected again, as the driver's README says? Not when a thread took the other's refusal: see the findings. | as `lidar_link` |
| `lidar_exit` | Does no callback work on a deleted scanner, does nobody leave before the laser thread, does a signal end the node, and without exception when it finds the main thread idle? | 2 signals, any number of commands, `rosnode kill` at any moment |

Why the bounds are enough. The hazards need a second actor and one repetition: a
second publisher that comes between a callback and its waiter, and a second
sentence to be interrupted by; a connection to be replaced and one to be
replaced by; a segment more than the window, so that keys are evicted and
messages overlap, and a second session whose keys collide with the first's; a
frame more than each queue holds, so that the sender drops, the socket fills and
two messages are drained at once. In the resampler 40 samples let the position
return to every residue of the step, and chunks are shorter and longer than the
step. Two packages make a build that is half done, two shells one that is killed
by another, three images one that is built, one that is signed and one that is current.
In `cola_stream` a payload is longer than a header, a chunk longer than
a frame, and the buffer as small as its assumption allows. In `lidar_link` a
connection is lost, replaced, and lost again while a service call is under way. At
most two handlers are under way, since SIGINT and SIGTERM are blocked by their own
handlers only. What the bounds cut off (more sentences, connections, segments,
frames, larger queues) is covered by the proofs, which hold for every value.
The type invariants are proved (`TypeCorrect`, `ResamplerTypes`) and need no run, but
that of the resampler, which also bounds its position, is checked in its run.

Runs whose configuration says `CHECK_DEADLOCK FALSE` have behaviours that end:
the node exits, the threads are done, or a bound is used up. In `runner` a shell
can always begin again, and deadlock is checked.

### Fairness

* `AnnouncementPlayer`: a callback that holds a sentence goes on to publish and to
  start its waiter, waiters whose process is dead run, recordings are finite and
  SIGTERM is delivered. No message has to arrive, and the node need not stop.
* `VoiceConnection`: the threads run. `recv` has no timeout, so it has to return
  only once its socket is closed by this node; the server need not answer.
* `VoicePipeline`: the worker runs; its HTTP request has a timeout
  (`ollama_timeout`), so it returns or raises.
* `GestureBridge`: the receiver's loop and its callback thread run. No frame has to
  come, no socket need get connected and a dead receiver need not come back.
* `ColaStream`: the read thread runs, and TCP delivers what was sent while the
  connection lasts.
* `LidarLink`: the threads run, timeouts run out, and the lidar answers or refuses what
  it is asked while the connection lasts, maybe too late. It need not send scans or
  accept a connection, and nobody need call a service. A thread in `pop` goes on only
  if a datagram it wants is there.
* `LidarExit`: the laser thread and the main thread run unless they wait for the other one:
  in `pop`, when that one took their datagram, or for `sopasSendMutex`, in a reinit
  during a service's command (`LaserWaits`, `MainWaits`). Commands to the lidar are
  otherwise answered or time out. No signal has to come, and the lidar need not be there.

All of it is weak fairness of threads that the operating system schedules. Where a
thread may wait for ever for what another one took, no fairness helps it on, and the
property names the exception.

### What is assumed of the world

* WhisperLive answers the options with SERVER_READY once per connection, repeats
  its last ten completed segments in every message, and completes fewer than
  that between two messages; each has a start time.
* rospy runs the shutdown hooks before `is_shutdown()` turns true, so `stop_event`
  is always set first and `is_shutdown()` needs no variable.
* Nothing about the speed of the capture thread. `slow` records that an iteration of
  `capture_loop` (one read of 1024 samples, one send) outlasted a `reconnect_delay` of
  2 s; `AudioAfterReady` and `AudioFlows` except it. Without the exception `AudioFlows` is
  false: a send that fails late (line 258) clears the readiness of the connection
  that followed.
* The lidar's frames fit the buffer beside a chunk and are shorter than 65536 bytes
  (`FrameAssumption`); it answers commands in the order it gets them.
* roscpp removes the server of a service when no callback of it is under way, and
  the kernel delivers the node's signals to the main thread, which does not block
  them.
* A read thread that saw the peer hang up has ended by the time of a reinit, which
  waits 5 s before it connects.
* What the receiver publishes reaches its own subscription at once; ZeroMQ keeps the
  order of what it takes.
* catkin rebuilds a package from the sources it finds when it gets to it.
* The positions of the resampler are exact. With 48 kHz the step is 3.0 and they
  are; with 44.1 kHz the doubles round, which the model does not show.

## 5. Findings

1. `player_topic`: when `Popen` fails and the end of the sentence before was not reported
   yet, because it was terminated for this one or, as in the trace, had ended by itself a
   moment ago, nobody publishes False: the topic stays at True with nobody speaking, and
   `core_node` stays deaf. By a longer trace it stays at False during a sentence:
   `wait_for_end` publishes its False after releasing the lock, and a new sentence
   may publish True first.
2. `runner_return`: the stored signature is not tied to what the volumes hold. A
   build of other sources or with another image that fails half-way, or an edit during
   a build, leaves packages built from something else; when the old sources and image
   are back the script says "current" and launches them.
   Nothing has to come back for this: the container keeps the image of its `docker run`
   (lines 127-162), the signature has the image that the tag stands for afterwards (line
   172). When the tag moves in between, packages built with the old image are signed as
   built with the new one, and the next run launches them. `SkippedMeansCurrent` fails
   by this trace with `MaxImage = 2`, `MaxSource = 1` and `MayReturn = FALSE`.
3. `lidar_silent`: a thread that has found a datagram takes it with a `pop` that has
   no timeout. A refusal (sFA) matches the keywords of every thread, so that the
   thread of a service may take the one the laser thread has found; the laser thread
   then waits in `pop`, and a lidar that falls silent is never reconnected, although
   the driver's README promises it after 5 s.

Beside these, `LidarExit` shows that the service `SickScanExit` never returns on ROS 1:
its callback joins the laser thread, which deletes the services and so waits for the
callback. `SignalEndsNode` names this exception, and a second one: `stop_scanner` sends past
`sopasSendMutex` and waits for LMDscandata, as `loopOnce` does
(`sick_scan_common.cpp:766-806`), so that after `SickScanExit`, or when `main` ends, one of
the two threads may take what the other has found and leave it in `pop` for ever.

## 6. Proofs

All theorems are checked by TLAPS for every value of the constants under the
modules' named assumptions (the bounds are natural numbers, queues have room for
a message, the memory of keys is no smaller than the window, `NoCode` is no
code).

* `AnnouncementPlayerProofs`. What makes `SpeaksLatestDecision` inductive is that a
  process is either not started or tracked or on its way out (`Tracked`,
  `Unborn`), and that whoever reports a process is the one who cleared it
  (`ReportedIsCleared`, `WaitsOnStarted`). `SomebodyWatches` adds that the tracked
  process has a waiter or a callback about to start one (`Watched`). The
  refinement maps `speaking` to the sentence of the tracked process while nobody
  told it to stop.
* `VoiceCaptureProofs`. For the link, `SafeInv` rests on two orders: the hook writes
  `stop_event` and then reads `self.socket`; `connection_loop` writes
  `self.socket` and then reads `stop_event` (`StopIsHook`, `SocketPlace`,
  `HookHasReceiver`). One of the two sees the other. `OptionsPrecede` and
  `OpenWillClose` follow the socket from its dialling to its closing.
  `PromptInv` adds, as long as `slow` is false, that a chunk on its way belongs to the
  current connection.
  For the resampler, `CarriedOver` says what it keeps between two chunks in terms of
  the whole stream: the tail is the window before the next sample, the value kept is
  the filtered one there, and the position is the distance to the next output. It is
  inductive because parts of windows are windows (`WindowPart`, `WindowGrows`) and
  because the number of outputs of a chunk is the only number that fits its range
  (`CountFits`, `FitsUnique`), so that the counts of adjacent ranges add up
  (`CountsAdd`). `CutAsYouLike` is then a step-by-step refinement of `Resampling`: each
  chunk is one `Hear`, however long it is.
* `VoicePipelineProofs`. `Memory` says that deque and set are the same run of
  numbers, `InboxChain` that consecutive messages overlap, `Progress` that the
  next segment the server shows is the next one to transcribe. The eviction
  lemma `RememberKeepsRun` is the heart: it needs `MaxRemembered >= Window`.
  `InOrder` and `Published` follow a transcription to its classification.
* `GestureBridgeProofs`. The frames of a stream stand in one line: relayed, in hand,
  in ZeroMQ, not sent yet (`InLine`, `Draining`). Every step moves the line along
  or drops frames from it. `AwaitedIsAhead` gives `NoDelayBuildsUp`.
* `HuskyRunnerProofs`. `DoneIsBuilt` says that what a build has done is built. For
  `SkipIsSafe` two chains are followed, each from the host through a run's signature to
  the file and to the tree: `SourcesInTime`, without exception, since the sources are
  hashed before they are built, and `ImagesInTime`, as long as no run inspected a tag
  that had moved since its `docker run`. Both need the hypothesis that neither images
  nor sources come back.
* `ColaStreamProofs`. `Room`, the types with `BufferHasRoom`, is inductive because the
  thread waits for bytes only after a round that left less than a frame in the buffer,
  or nothing, and `findFrameInReceiveBuffer` discards a length that the buffer could
  not hold. `InStream` adds where the bytes are: the frames after those in the queue
  are what is in the buffer and behind it, on the wire. The buffer begins as a
  frame does (`FrameInFront`), so a payload that looks like a frame is
  harmless, and `NothingThrownAway` holds as well: as long as no connection was lost in
  the middle of a frame, the branches that discard bytes and the endless checksum loop are not
  taken.
* `LidarLinkProofs`. `Types` and `Mutex` (who holds `sopasSendMutex` and where they are)
  come first. `Exchange` says that every command still without an answer is in
  exactly one place: asked, on the wire, or in the queue; before a timeout there is
  one at most, which gives `AnswersMatch`. `Ordered` puts the scans published, queued and
  on the wire in one line, across reconnections that do not empty the queue.
  `FirstInv` follows the first connection: until it is established nothing is sent or
  published, and the start of the scan is answered before the first scan
  (`AnswerBeforeScans`), so that the opening pops no scan in search of its answer; one
  taken out of the middle of the queue later (`ScansInRemove`) leaves the scans in line.
  `NoScanIsLost` excepts what the code does lose: scans that a service's command takes
  because they match its keyword (`sent`).
  `PopNeverWaits` is about what a thread found in the queue before it pops it: it stays
  there (`Ready`), because unless a service sent a command whose keyword `loopOnce` waits
  for, or none, the two threads can have only a refusal in view together (`NotTheSame`),
  and a refusal is one thread's own (`Numbered`) unless it was found by the other. These
  are the ways into the wait without a timeout; the third finding is the one through a
  refusal.
* `LidarExitProofs`. `Served` says that services exist only while the laser thread has a
  scanner it is not about to replace, because the run state has left `scanner_init`
  for good; `Ended` that whoever goes past the join found the laser thread gone.
  `EveryStepEnds` is the variant of `SignalEndsNode`: once the node was told to end,
  `LaserLeft` and `FrameLeft`, the steps each thread of control has before it, only fall,
  and each step lowers one; a datagram taken from the laser thread counts as a step it
  has before it once. It needs that no callback begins any more (`Handled`), and says
  nothing of a thread that waits in `pop`.

Facts about recursive functions (the scans in a queue, the bytes of a list of frames)
would need induction over the data. They are proved instead from the least
counterexample: a set of naturals that is not empty has a smallest member, a
statement about sets that needs no operator as a parameter.

Every invariant, action property and refinement that a passing run checks is a theorem.
Only model-checked is liveness under fairness (`EndIsNoticed`, `ThreadsEnd`,
`EveryTranscriptionAnswered`, `SkeletonsCatchUp`, `ZonesCatchUp`, `EveryFrameArrives`,
`LinkIsRestored`, `ServiceReturns`, `SignalEndsNode`, `IdleNodeEnds`), which is out of the prover's
reach. Its safety part is proved where it says something of its own: `SomebodyWatches` for
`EndIsNoticed`, `ShutdownReachesReceiver` for `ThreadsEnd`, `NothingLost` for
`EveryTranscriptionAnswered`, `NothingIsHeldBack` for `EveryFrameArrives`,
`PopNeverWaits` for `LinkIsRestored` and `ServiceReturns`, `EveryStepEnds` for
`SignalEndsNode` and `IdleNodeEnds`. The runs with a counterexample need no proof.

## 7. Not modelled

* Payloads: the text of segments, the fields of gestures and markers, geometry,
  the kernel's coefficients, log lines, and prints.
* The choice of microphone and sample rate, parameters, the host checks of the
  script, the options of `docker run`.
* Real time: only the order of events. Delays appear where something relies on them
  (`slow`, timeouts), or not at all (the latency of a classification).
* Reading and writing `NaN` confidences, the prompt and the reply of Ollama beyond
  its outcome.
* In the lidar driver: CoLa A framing, the attempt with the other dialect, the commands
  of `init_scanner` between the first and the last, parsers and messages, UDP lidars,
  the C API, the monitor of point clouds, and two read threads at once (`Tcp::open` does
  not wait for the old one; a reinit waits 5 s first). The competition of
  `stop_scanner` with the laser thread is in `LidarExit`, without datagrams; `LidarLink`
  does not stop the scanner. Events that a lidar sends unasked, as LIDoutputstate and the
  other keywords of `loopOnce` besides the scans, are left out: the answer to `sEN
  LIDoutputstate` stands for what they do to the queue. So are the locks an
  interrupted frame may hold for an instant (the queue's, the socket's, the logger's)
  when a handler comes on top of it.
* What RViz makes of the markers: what it shows, for how long, and the zones that a
  lifetime removes.
* In `VoiceConnection`, a send of the options that times out on a connection which is
  still open: `OptionsFail` requires that it is broken.
* The ZED wrapper, whose threads exchange objects of a closed SDK.
* The gesture recogniser, the waypoint sender, the odometry reset and the velocity
  multiplexer: see the plan. Configuration, launch files, generators of sound
  files and container scripts without state of their own have nothing to check.

Hazards of these parts that no property covers, beside those in `PROJECT.json`: the new
`aplay` may find the ALSA device still held by the old one; `stop_playback` does not keep
a later message from starting a sentence; a segment without a start time gets a key
that shifts with the window; a confidence of NaN passes the clamp; the queue of
transcriptions has no bound; `send` on a stalled WebSocket has no timeout; the time
of capture of zones is replaced by the time of reception; a gyro that was not
zeroed is ignored; the safety stop in `twist_mux.yaml` holds for 0.2 s only;
`Tcp::write` sends without MSG_NOSIGNAL;
`Tcp::open` replaces the read thread without waiting for one that has not ended yet
(`tcp.cpp:227`); a frame of 64 KiB or more would keep the 16-bit checksum loop going for
ever (`sick_scan_common_tcp.cpp:472`, ruled out by `FrameAssumption`); the monitor of point
clouds ends the node with `kill -9` "for restart" where the launch files say
`respawn="false" required="true"`; zones are only ever added and left to their lifetime
(`gesture_receiver.py:239`); `sendSopasAorBgetAnswer` switches the dialect
while the read thread parses.

## 8. Plan

In this order, the most important behaviour first:

1. `GestureRecognizer` (`zed_skeleton_yolo.py`): image and skeleton callbacks, the
   image drawn on while later persons' hands are cropped from it, persons
   without a valid point in the markers but not in the states, hands that are not
   available; composed with `GestureBridge`, whose `Perceive` it refines.
2. `WaypointSender` (`yaml_waypoint_sender.py`) against `move_base`: the goal loop,
   its failure branch, and the shutdown hook that cancels while the main thread
   is about to send a goal. With it `reset_odom_on_start.py`.
3. `ClassifierReply`: `normalize_command`, the clamp and the fallback key
   `segment-<index>` as operators, checked against reference definitions.
4. `TwistMux`: priorities, timeouts and the lock as a choice function over the
   ages of the sources.
5. `Conversation`: the player's topic and the voice pipeline together with the
   muting that `core_node` is documented to do, to show what the two topic
   findings mean for a person who speaks.
6. `LidarLink` with two read threads, and with the stop commands that bypass the mutex
   on its queue instead of the abstraction `LidarExit` has of them.
7. Proofs: measures that fall, as in `EveryStepEnds`, for the reassembly's loop, the
   shutdown of the voice node and the drains of the gesture bridge; the recogniser's
   and the waypoint sender's invariants.
