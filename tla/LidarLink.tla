------------------------------ MODULE LidarLink ------------------------------
(***************************************************************************)
(* sick_scan_xd's link to the laser scanner: the TCP connection and its    *)
(* read thread, the queue of datagrams, and the threads that take them     *)
(* from it.  The laser thread connects, starts the scan and publishes      *)
(* clouds; the main thread sends the commands of the ROS services, of      *)
(* which ColaMsg sends any.  Both wait on the one queue for the datagrams  *)
(* that match their keywords, which may be the same, and a refusal (sFA)   *)
(* matches all keywords.                                                   *)
(*                                                                         *)
(* Datagrams are whole here: ColaStream shows how they are cut out of the  *)
(* byte stream, and that after a reconnection the first may be swallowed.  *)
(* init_scanner is its first command (sRN SCdevicestate), on which it      *)
(* depends whether it goes on, and its last (sEN LMDscandata 1).           *)
(***************************************************************************)
EXTENDS Naturals, Sequences, SequencesExt

CONSTANTS
    MaxConnections, \* bound: connections that may break
    MaxScans,       \* bound: scans with a number, more are not told apart
    MaxCalls,       \* bound: service calls
    Room            \* bound: scans on the wire and in the queue

ASSUME BoundAssumption == {MaxConnections, MaxScans, MaxCalls, Room} \subseteq Nat

Laser == "laser"
Main == "main"
Threads == {Laser, Main}
None == "none"
Empty == "empty"

\* The commands, by their keywords: one that loopOnce does not wait for (sRN
\* SCdevicestate), the scans' (sEN LMDscandata 1 and 0), another of loopOnce's (sEN
\* LIDoutputstate 1), and none: ColaMsg may be told to send less than four characters.
Keyword(name) ==
    CASE name = "state" -> "SCdevicestate"
      [] name \in {"start", "stop"} -> "LMDscandata"
      [] name = "outputs" -> "LIDoutputstate"
      [] name = "short" -> Empty
Services == {"state", "start", "stop", "outputs", "short"}
Keywords == {Keyword(name) : name \in Services}
LoopKeywords == {"LMDscandata", "LIDoutputstate"}
Command(name) == [name |-> name, id |-> 0]   \* it gets its number when it is sent

Scan(n) == [kind |-> "scan", keyword |-> "LMDscandata", id |-> n]
Reply(c) == [kind |-> "reply", keyword |-> Keyword(c.name), id |-> c.id]
Refusal(c) == [kind |-> "sFA", keyword |-> None, id |-> c.id]

VARIABLES
    link,      \* the socket: closed, open, silent (the peer is gone), ended (it hung up)
    wire,      \* the datagrams on their way to this host
    reader,    \* the read thread in m_readThread: none, reads, leaving, gone
    stale,     \* do bytes of the last connection stand in the receive buffer?
    queue,     \* recvQueue
    asked,     \* the commands the lidar has not answered yet
    streaming, \* does the lidar send its scans on this connection?
    at,        \* where each thread is
    cmd,       \* the command it is to send, or sent
    holder,    \* who holds sopasSendMutex
    initialized, \* s_isInitialized
    published, \* the scans of the clouds published
    confused,  \* was an answer taken for the answer to another command?
    late,      \* did a command time out, in this connection or one before?
    strayed,   \* did a thread find the refusal of a command it did not send?
    robbed,    \* did the laser thread take the answer to the service's command?
    sent,      \* the keywords of the services' commands
    scans, ids, connections, calls \* counters

device == <<asked, streaming>>
counters == <<scans, ids, connections, calls>>
history == <<published, confused, late, strayed, robbed, sent>>
tcp == <<link, wire, reader, stale>>
vars == <<tcp, queue, device, at, cmd, holder, initialized, history, counters>>

Init ==
    /\ link = "closed"
    /\ wire = <<>>
    /\ reader = "none"
    /\ stale = FALSE
    /\ queue = <<>>
    /\ asked = <<>>
    /\ streaming = FALSE
    /\ at = [t \in Threads |-> IF t = Laser THEN "connect" ELSE "idle"]
    /\ cmd = [t \in Threads |-> Command("state")]
    /\ holder = None
    /\ initialized = FALSE
    /\ published = <<>>
    /\ confused = FALSE
    /\ late = FALSE
    /\ strayed = FALSE
    /\ robbed = FALSE
    /\ sent = {}
    /\ scans = 0
    /\ ids = 0
    /\ connections = 0
    /\ calls = 0

Goto(t, place) == at' = [at EXCEPT ![t] = place]

-----------------------------------------------------------------------------
(* The lidar and the network *)

Answer(datagram) ==
    /\ link = "open"
    /\ wire' = Append(wire, datagram)
    /\ asked' = Tail(asked)
    /\ UNCHANGED <<link, reader, stale, queue, at, cmd, holder, initialized,
                   history, counters>>

\* To a command without a keyword there is only the refusal.
DeviceAnswers ==
    /\ asked # <<>>
    /\ Head(asked).name # "short"
    /\ Answer(Reply(Head(asked)))
    /\ streaming' = IF Keyword(Head(asked).name) = "LMDscandata"
                    THEN Head(asked).name = "start" ELSE streaming

DeviceRefuses ==
    /\ asked # <<>>
    /\ Answer(Refusal(Head(asked)))
    /\ UNCHANGED streaming

DeviceScans ==
    /\ link = "open"
    /\ streaming
    /\ scans < MaxScans
    /\ Len(wire) + Len(queue) < Room
    /\ scans' = scans + 1
    /\ wire' = Append(wire, Scan(scans'))
    /\ UNCHANGED <<link, reader, stale, queue, device, at, cmd, holder,
                   initialized, history, ids, connections, calls>>

\* The peer is gone without a word, with what was on the wire, or it hangs up after
\* what it sent.
Breaks(how, left) ==
    /\ link = "open"
    /\ connections < MaxConnections
    /\ link' = how
    /\ wire' = left
    /\ asked' = <<>>
    /\ streaming' = FALSE
    /\ UNCHANGED <<reader, queue, at, cmd, holder, initialized, history,
                   counters>>

LinkBreaks ==
    /\ stale' \in BOOLEAN
    /\ Breaks("silent", <<>>) \/ Breaks("ended", wire)

-----------------------------------------------------------------------------
(* The read thread *)

\* The beginning of a frame stands in the buffer.  Answers are short, several may be
\* swallowed before the frame has its length; a scan fills it.
Swallowed == IF Head(wire).kind = "scan" THEN stale' = FALSE ELSE stale' \in BOOLEAN

\* Fault: the newest datagram is put first.
PushFirst ==
    /\ reader = "reads"
    /\ wire # <<>>
    /\ wire' = Tail(wire)
    /\ \/ stale /\ Swallowed /\ UNCHANGED queue
       \/ ~stale /\ queue' = <<Head(wire)>> \o queue /\ UNCHANGED stale
    /\ UNCHANGED <<link, reader, device, at, cmd, holder, initialized,
                   history, counters>>

\* A datagram is pushed, or the remains of the last connection swallow it.
ReaderPushes ==
    /\ reader = "reads"
    /\ wire # <<>>
    /\ wire' = Tail(wire)
    /\ \/ stale /\ Swallowed /\ UNCHANGED queue
       \/ ~stale /\ queue' = Append(queue, Head(wire)) /\ UNCHANGED stale
    /\ UNCHANGED <<link, reader, device, at, cmd, holder, initialized,
                   history, counters>>

\* recv returns 0: the read thread closes the socket itself, and waits 1 ms.
ReaderCloses ==
    /\ reader = "reads"
    /\ link = "ended"
    /\ wire = <<>>
    /\ link' = "closed"
    /\ reader' = "leaving"
    /\ UNCHANGED <<wire, stale, queue, device, at, cmd, holder, initialized,
                   history, counters>>

\* It finds the socket closed and ends.
ReaderEnds ==
    /\ reader = "leaving"
    /\ reader' = "gone"
    /\ UNCHANGED <<link, wire, stale, queue, device, at, cmd, holder,
                   initialized, history, counters>>

-----------------------------------------------------------------------------
(* A command: sendSopasAndCheckAnswer, in either thread *)

\* What a thread does after a command that had no answer, or a wrong one.
AfterFailure(t) == IF t = Laser THEN "close" ELSE "idle"

\* Fault: a service call does not wait for the mutex.
SendUnlocked(t) ==
    /\ at[t] = "send"
    /\ holder = None \/ t = Main
    /\ IF link = "closed"
       THEN Goto(t, AfterFailure(t)) /\ UNCHANGED <<holder, asked, cmd, ids>>
       ELSE /\ Goto(t, "wait")
            /\ holder' = t
            /\ ids' = ids + 1
            /\ cmd' = [cmd EXCEPT ![t].id = ids']
            /\ asked' = IF link = "open" THEN Append(asked, cmd'[t]) ELSE asked
    /\ UNCHANGED <<tcp, queue, streaming, initialized, history, scans, connections,
                   calls>>

\* The mutex is taken and the command written; a closed socket takes nothing.
Send(t) ==
    /\ at[t] = "send"
    /\ holder = None
    /\ IF link = "closed"
       THEN Goto(t, AfterFailure(t)) /\ UNCHANGED <<holder, asked, cmd, ids>>
       ELSE /\ Goto(t, "wait")
            /\ holder' = t
            /\ ids' = ids + 1
            /\ cmd' = [cmd EXCEPT ![t].id = ids']
            /\ asked' = IF link = "open" THEN Append(asked, cmd'[t]) ELSE asked
    /\ UNCHANGED <<tcp, queue, streaming, initialized, history, scans, connections,
                   calls>>

\* findFirstByKeyword, for the command or the loop of a thread: an empty keyword is
\* found in every datagram.
Wanted(t) == IF t = Laser /\ at[t] \in {"scan", "take"} THEN LoopKeywords
             ELSE {Keyword(cmd[t].name)}

Fits(datagram, t) ==
    datagram.kind = "sFA" \/ datagram.keyword \in Wanted(t) \/ Empty \in Wanted(t)

\* Fault: the keywords are not looked at.
MatchingAny(t) == DOMAIN queue

Matching(t) == {i \in DOMAIN queue : Fits(queue[i], t)}

First(t) == CHOOSE i \in Matching(t) : \A j \in Matching(t) : i <= j

IsForeign(datagram, command) == datagram.kind = "sFA" /\ datagram.id # command.id

\* The loop of waitForIncomingObject starts its timeout anew at every push: with
\* scans coming in it never runs out.
NothingComes == wire = <<>> /\ (link # "open" \/ ~streaming)

Finds(t) ==
    /\ at[t] = "wait"
    /\ Matching(t) # {}
    /\ Goto(t, "pop")
    /\ strayed' = (strayed \/ IsForeign(queue[First(t)], cmd[t]))
    /\ UNCHANGED <<tcp, queue, device, cmd, holder, initialized, published, confused,
                   late, robbed, sent, counters>>

\* Fault: an early return that leaves the mutex locked.
TimesOutLocked(t) ==
    /\ at[t] = "wait"
    /\ Matching(t) = {}
    /\ NothingComes
    /\ Goto(t, AfterFailure(t))
    /\ late' = TRUE
    /\ UNCHANGED <<tcp, queue, device, cmd, holder, initialized, published, confused,
                   strayed, robbed, sent, counters>>

TimesOut(t) ==
    /\ at[t] = "wait"
    /\ Matching(t) = {}
    /\ NothingComes
    /\ Goto(t, AfterFailure(t))
    /\ holder' = None
    /\ late' = TRUE
    /\ UNCHANGED <<tcp, queue, device, cmd, initialized, published, confused,
                   strayed, robbed, sent, counters>>

\* Where a thread goes on after the answer, and after a refusal: init_scanner does not
\* mind that the start is refused.
AfterAnswer(t) == IF t = Main THEN "idle"
                  ELSE IF cmd[t].name = "state" THEN "next" ELSE "scan"
AfterRefusal(t) == IF t = Laser /\ cmd[t].name = "start" THEN "scan" ELSE AfterFailure(t)

IsAnswer(datagram, t) ==
    datagram.kind = "reply" /\ datagram.keyword = Keyword(cmd[t].name)

\* pop may find that what was there is gone, and then waits without a timeout.
Pops(t) ==
    LET answer == queue[First(t)]
    IN  /\ at[t] = "pop"
        /\ Matching(t) # {}
        /\ queue' = RemoveAt(queue, First(t))
        /\ \/ /\ IsAnswer(answer, t)
              /\ Goto(t, AfterAnswer(t))
              /\ holder' = None
              /\ confused' = (confused \/ answer.id # cmd[t].id)
           \/ /\ answer.kind = "sFA"
              /\ Goto(t, AfterRefusal(t))
              /\ holder' = None
              /\ UNCHANGED confused
           \/ /\ answer.kind # "sFA" /\ ~IsAnswer(answer, t)   \* try again
              /\ Goto(t, "wait")
              /\ UNCHANGED <<holder, confused>>
        /\ initialized' = (initialized \/ at'[Laser] = "scan")
        /\ UNCHANGED <<tcp, device, cmd, published, late, strayed, robbed, sent,
                       counters>>

\* After 100 scans that were not the answer, or 5 s of them; those that have a number
\* were popped one by one.
GivesUp(t) ==
    /\ at[t] = "wait"
    /\ Fits(Scan(0), t)
    /\ streaming
    /\ Matching(t) = {}
    /\ Goto(t, AfterFailure(t))
    /\ holder' = None
    /\ late' = TRUE
    /\ UNCHANGED <<tcp, queue, device, cmd, initialized, published, confused,
                   strayed, robbed, sent, counters>>

-----------------------------------------------------------------------------
(* The laser thread: init, loopOnce, reinit *)

\* init_device: the connection is made or not, init_scanner starts either way.  Before
\* a reinit there are 5 s, in which the read thread of the last connection ends; it is
\* joined where no connection can be made.
Connect ==
    /\ at[Laser] = "connect"
    /\ initialized => reader # "leaving"
    /\ \/ /\ connections < MaxConnections
          /\ link' = "open"
          /\ reader' = "reads"
          /\ connections' = connections + 1
       \/ reader' = "none" /\ UNCHANGED <<link, connections>>
    /\ cmd' = [cmd EXCEPT ![Laser] = Command("state")]
    /\ Goto(Laser, "send")
    /\ UNCHANGED <<wire, stale, queue, device, holder, initialized, history,
                   scans, ids, calls>>

StartScan ==
    /\ at[Laser] = "next"
    /\ cmd' = [cmd EXCEPT ![Laser] = Command("start")]
    /\ Goto(Laser, "send")
    /\ UNCHANGED <<tcp, queue, device, holder, initialized, history, counters>>

\* get_datagram, as a command waits and pops.
FindsScan ==
    /\ at[Laser] = "scan"
    /\ Matching(Laser) # {}
    /\ Goto(Laser, "take")
    /\ strayed' = (strayed \/ IsForeign(queue[First(Laser)], cmd[Laser]))
    /\ UNCHANGED <<tcp, queue, device, cmd, holder, initialized, published, confused,
                   late, robbed, sent, counters>>

\* Any datagram but a scan is too short to be one, and dropped: it may be what the
\* service waits for.
TakesScan ==
    LET datagram == queue[First(Laser)]
    IN  /\ at[Laser] = "take"
        /\ Matching(Laser) # {}
        /\ queue' = RemoveAt(queue, First(Laser))
        /\ published' = IF datagram.kind = "scan" THEN Append(published, datagram.id)
                        ELSE published
        /\ robbed' = (robbed \/ /\ datagram.kind # "scan"
                                /\ at[Main] \in {"wait", "pop"}
                                /\ datagram.id = cmd[Main].id)
        /\ Goto(Laser, "scan")
        /\ UNCHANGED <<tcp, device, cmd, holder, initialized, confused, late, strayed,
                       sent, counters>>

\* Fault: only a socket known to be closed is opened again.
ScanTimesOutClosed ==
    /\ at[Laser] = "scan"
    /\ Matching(Laser) = {}
    /\ NothingComes
    /\ link = "closed"
    /\ Goto(Laser, "close")
    /\ UNCHANGED <<tcp, queue, device, cmd, holder, initialized, history, counters>>

\* get_datagram times out, and checkState sees that no message came for as long.
ScanTimesOut ==
    /\ at[Laser] = "scan"
    /\ Matching(Laser) = {}
    /\ NothingComes
    /\ Goto(Laser, "close")
    /\ UNCHANGED <<tcp, queue, device, cmd, holder, initialized, history, counters>>

\* close_device: an open socket is closed and its read thread joined.  Before the first
\* success the scanner object is deleted, which joins any read thread, and made again;
\* later it is used again, with its queue and its buffer.
Close ==
    /\ at[Laser] = "close"
    /\ link' = "closed"
    /\ wire' = <<>>
    /\ asked' = <<>>
    /\ streaming' = FALSE
    /\ IF initialized
       THEN /\ reader' = IF link = "closed" THEN reader ELSE "none"
            /\ UNCHANGED <<queue, stale>>
       ELSE reader' = "none" /\ queue' = <<>> /\ stale' = FALSE
    /\ Goto(Laser, "connect")
    /\ UNCHANGED <<cmd, holder, initialized, history, counters>>

-----------------------------------------------------------------------------
(* The main thread *)

\* ColaMsg sends any command, the other services one of their own.
ServiceCall(name) ==
    /\ at[Main] = "idle"
    /\ initialized
    /\ calls < MaxCalls
    /\ calls' = calls + 1
    /\ cmd' = [cmd EXCEPT ![Main] = Command(name)]
    /\ Goto(Main, "send")
    /\ sent' = sent \cup {Keyword(name)}
    /\ robbed' = FALSE
    /\ UNCHANGED <<tcp, queue, device, holder, initialized, published, confused, late,
                   strayed, scans, ids, connections>>

-----------------------------------------------------------------------------
DeviceNext == DeviceAnswers \/ DeviceRefuses \/ DeviceScans \/ LinkBreaks
ReaderNext == ReaderPushes \/ ReaderCloses \/ ReaderEnds
CommandNext(t) == Send(t) \/ Finds(t) \/ TimesOut(t) \/ GivesUp(t) \/ Pops(t)
LaserNext == Connect \/ StartScan \/ FindsScan \/ TakesScan \/ ScanTimesOut \/ Close

Next ==
    \/ DeviceNext
    \/ ReaderNext
    \/ \E t \in Threads : CommandNext(t)
    \/ LaserNext
    \/ \E name \in Services : ServiceCall(name)

Spec == Init /\ [][Next]_vars

\* Threads run and timeouts run out.  The lidar answers what it is asked; it need not
\* accept a connection.
FairSpec ==
    /\ Spec
    /\ WF_vars(ReaderNext)
    /\ WF_vars(LaserNext)
    /\ \A t \in Threads : WF_vars(CommandNext(t))
    /\ WF_vars(DeviceAnswers \/ DeviceRefuses)

-----------------------------------------------------------------------------
(* Properties *)

Datagram ==
    [kind : {"scan"}, keyword : {"LMDscandata"}, id : Nat]
      \cup [kind : {"reply"}, keyword : Keywords, id : Nat]
      \cup [kind : {"sFA"}, keyword : {None}, id : Nat]
Commands == [name : Services, id : Nat]

TypeOK ==
    /\ link \in {"closed", "open", "silent", "ended"}
    /\ wire \in Seq(Datagram) /\ queue \in Seq(Datagram)
    /\ reader \in {"none", "reads", "leaving", "gone"}
    /\ {stale, streaming, initialized, confused, late, strayed, robbed}
         \subseteq BOOLEAN
    /\ asked \in Seq(Commands)
    /\ at \in [Threads -> {"idle", "send", "wait", "pop", "connect", "next", "scan",
                           "take", "close"}]
    /\ at[Main] \in {"idle", "send", "wait", "pop"}
    /\ cmd \in [Threads -> Commands]
    /\ holder \in Threads \cup {None}
    /\ published \in Seq(Nat)
    /\ sent \subseteq Keywords
    /\ {scans, ids, connections, calls} \subseteq Nat

\* sopasSendMutex is held exactly by the thread that waits for an answer, and unless
\* a command timed out the lidar owes the answer to one command at most.
OneAtATime ==
    /\ \A t \in Threads : holder = t <=> at[t] \in {"wait", "pop"}
    /\ ~late => Len(asked) <= 1

\* Two threads ask for the same keyword and take from the same queue, across
\* reconnections that do not empty it: unless a command timed out, which leaves its
\* answer to the next one, no thread takes the answer to another command.
AnswersMatch == ~late => ~confused

\* The numbers of the scans among datagrams, in their order.
ScansIn(datagrams) ==
    LET found[n \in 0 .. Len(datagrams)] ==
          IF n = 0 THEN <<>>
          ELSE IF datagrams[n].kind = "scan"
               THEN Append(found[n - 1], datagrams[n].id)
               ELSE found[n - 1]
    IN  found[Len(datagrams)]

\* On the first connection no scan is lost or told twice: it is published, or in the
\* queue, or on the wire, in this order.  A service's command may take scans for its
\* answer only if they match its keyword (sEN LMDscandata, or none); no other command
\* does, whatever is sent and however the threads share the queue.
NoScanLost ==
    connections = 1 /\ link = "open" /\ sent \cap {"LMDscandata", Empty} = {} =>
        published \o ScansIn(queue \o wire) = [n \in 1 .. scans |-> n]

\* Over all connections scans may be lost, but they are published in the order they
\* were made in, and once.
Relayed == INSTANCE Relay WITH frame <- scans, relayed <- published
ImplementsRelay == Relayed!Spec

\* A thread in pop whose datagram is gone: there is no timeout.
Starves(t) == at[t] \in {"pop", "take"} /\ Matching(t) = {}
Starved == \E t \in Threads : Starves(t)

\* A scanner whose connection is lost, with or without a word, is connected again,
\* whatever service call is under way: the mutex, the wait for an answer and the
\* remains in the buffer do not keep the laser thread from it.  Only a thread that
\* waits in pop for ever does, for a datagram that the other thread took.
LinkIsRestored ==
    (initialized /\ link # "open" ~> at[Laser] = "connect") \/ <>[]Starved

\* A service call returns, over lost connections and timeouts, with the same exception,
\* or if the laser thread took its answer: under the stream of scans it may not time out.
ServiceReturns ==
    (at[Main] # "idle" ~> at[Main] = "idle" \/ robbed) \/ <>[]Starved

\* README.md: where no datagrams come the socket is closed and the lidar started again.
SilentLinkIsRestored == initialized /\ link # "open" ~> at[Laser] = "connect"
==============================================================================
