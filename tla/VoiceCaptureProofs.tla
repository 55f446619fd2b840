-------------------------- MODULE VoiceCaptureProofs --------------------------
(***************************************************************************)
(* Proofs about the way of the audio from the microphone to the server,    *)
(* for any number of connections (VoiceConnection) and for all rates,      *)
(* kernels and chunks (StreamResampler).                                   *)
(*                                                                         *)
(* SafeInv holds whatever the speed of the threads.  Its heart is the pair *)
(* of orders that make the shutdown safe: the hook writes stop_event and   *)
(* then reads self.socket, connection_loop writes self.socket and then     *)
(* reads stop_event.  PromptInv adds what holds as long as capture_loop    *)
(* finishes its iterations within reconnect_delay.                         *)
(*                                                                         *)
(* CarriedOver says what the three things the resampler keeps between two  *)
(* chunks are of the whole stream: the window before the next sample, the  *)
(* filtered value there and the distance to the next output.  Two facts    *)
(* make it inductive: parts of a window are windows, and the counts of two *)
(* adjacent ranges add up to the count of both.                            *)
(***************************************************************************)
EXTENDS VoiceConnection, StreamResampler, SequenceTheorems, TLAPS

\* stop_event is set by the hook's first step and never cleared.
StopIsHook == stop <=> hook # "idle"

\* What self.socket and ws hold, by the place of connection_loop.
SocketPlace ==
    /\ socket # None => socket = ws /\ conn \in {"check", "recv", "clear", "take"}
    /\ conn \in {"check", "recv"} => socket = ws
    /\ conn \in {"options", "publish", "check", "recv"} => ws # None

\* The options precede the publication, and the publication the audio.
OptionsPrecede ==
    /\ conn = "publish" => ws \in greeted
    /\ socket # None => socket \in greeted
    /\ capture = "send" => sending \in greeted

\* An open connection is the one the finally block will close.
OpenWillClose ==
    \A c \in Dials : wire[c] = "open" =>
        /\ conn \in {"clear", "take"} => socket = c
        /\ conn = "close" => to_close = c

\* A connection being received on while the hook runs is the one it closes.
HookHasReceiver ==
    /\ hook \in {"end", "close"} => ending # None
    /\ conn = "recv" /\ hook \in {"end", "close"} => ending = ws

\* A late frame is the last one.
LateIsLast ==
    /\ said_end # {} => stop
    /\ late \in {0, 1}
    /\ late = 1 => stop /\ capture \in {"top", "done"}

SafeInv ==
    /\ TypeOK
    /\ StopIsHook
    /\ SocketPlace
    /\ OptionsPrecede
    /\ OnlyCurrentIsOpen
    /\ OpenWillClose
    /\ HookHasReceiver
    /\ ShutdownReachesReceiver
    /\ LateIsLast

USE DialsAssumption

LEMMA InitSafe == Init => SafeInv
<1> SUFFICES ASSUME Init PROVE SafeInv
  OBVIOUS
<1>1. wire \in [Dials -> {"none", "open", "broken", "closed"}]
      /\ \A c \in Dials : wire[c] = "none"
  BY DEF Init
<1>2. TypeOK
  <2>1. 0 \in 0 .. MaxDials /\ {} \in SUBSET Dials /\ 0 \in Nat
    OBVIOUS
  <2> QED BY <1>1, <2>1, Zenon DEF Init, TypeOK, None
<1> QED
  BY <1>1, <1>2 DEF Init, SafeInv, StopIsHook, SocketPlace, OptionsPrecede,
     OnlyCurrentIsOpen, OpenWillClose, HookHasReceiver,
     ShutdownReachesReceiver, LateIsLast, None

\* Every step of the three threads and of the network preserves SafeInv.
LEMMA NextSafe == SafeInv /\ [Next]_vars => SafeInv'
<1> SUFFICES ASSUME SafeInv, [Next]_vars
             PROVE  SafeInv'
  OBVIOUS
<1> USE DEF Dials, None, Closed, SafeInv, TypeOK, StopIsHook, SocketPlace,
            OptionsPrecede, OnlyCurrentIsOpen, OpenWillClose, HookHasReceiver,
            ShutdownReachesReceiver, LateIsLast,
            shared, connVars, captureVars, hookVars
<1>1. CASE ConnTop        BY <1>1 DEF ConnTop
<1>2. CASE Dial           BY <1>2 DEF Dial
<1>3. CASE DialFails      BY <1>3 DEF DialFails
<1>4. CASE SendOptions    BY <1>4 DEF SendOptions
<1>5. CASE OptionsFail    BY <1>5 DEF OptionsFail
<1>6. CASE PublishSocket  BY <1>6 DEF PublishSocket
<1>7. CASE ReceiveCheck   BY <1>7 DEF ReceiveCheck
<1>8. CASE RecvReady      BY <1>8 DEF RecvReady
<1>9. CASE RecvOther      BY <1>9 DEF RecvOther
<1>10. CASE RecvEnds      BY <1>10 DEF RecvEnds
<1>11. CASE ConnClears
  <2>1. TypeOK'
    BY <1>11 DEF ConnClears
  <2> QED BY <1>11, <2>1 DEF ConnClears
<1>12. CASE TakeSocket    BY <1>12 DEF TakeSocket
<1>13. CASE ConnCloses    BY <1>13 DEF ConnCloses
<1>14. CASE ReconnectDelay BY <1>14 DEF ReconnectDelay
<1>15. CASE CaptureTop    BY <1>15 DEF CaptureTop
<1>16. CASE ReadChunk     BY <1>16 DEF ReadChunk
<1>17. CASE ReadFails     BY <1>17 DEF ReadFails
<1>18. CASE GetSocket     BY <1>18 DEF GetSocket
<1>19. CASE SendAudio     BY <1>19 DEF SendAudio
<1>20. CASE SendFails     BY <1>20 DEF SendFails
<1>21. CASE CaptureClears
  <2>1. TypeOK'
    BY <1>21 DEF CaptureClears
  <2>2. UNCHANGED <<stop, socket, wire, conn, ws, to_close, greeted, sending,
                    late, hook, ending, said_end>>
    BY <1>21 DEF CaptureClears
  <2>3. capture' = "top"
    BY <1>21 DEF CaptureClears
  <2> QED BY <2>1, <2>2, <2>3
<1>22. CASE ShutdownStarts BY <1>22 DEF ShutdownStarts
<1>23. CASE HookClears
  <2>1. TypeOK'
    BY <1>23 DEF HookClears
  <2> QED BY <1>23, <2>1 DEF HookClears
<1>24. CASE HookGetsSocket BY <1>24 DEF HookGetsSocket
<1>25. CASE HookSaysEnd   BY <1>25 DEF HookSaysEnd
<1>26. CASE HookCloses    BY <1>26 DEF HookCloses
<1>27. CASE HookClosesMic BY <1>27 DEF HookClosesMic
<1>28. ASSUME NEW c \in Dials, Break(c) PROVE SafeInv'
  BY <1>28 DEF Break
<1>29. CASE UNCHANGED vars BY <1>29 DEF vars
<1> QED
  BY <1>1, <1>2, <1>3, <1>4, <1>5, <1>6, <1>7, <1>8, <1>9, <1>10, <1>11,
     <1>12, <1>13, <1>14, <1>15, <1>16, <1>17, <1>18, <1>19, <1>20, <1>21,
     <1>22, <1>23, <1>24, <1>25, <1>26, <1>27, <1>28, <1>29
  DEF Next, ConnLocal, Receive, CaptureStep, HookStep

\* SafeInv holds in every reachable state.
THEOREM Safety == Spec => []SafeInv
  BY InitSafe, NextSafe, PTL DEF Spec

\* Every variable keeps its type.
THEOREM TypeCorrect == Spec => []TypeOK
<1>1. SafeInv => TypeOK  BY DEF SafeInv
<1> QED BY Safety, <1>1, PTL

\* Audio is sent only on connections that got their options.
THEOREM OptionsFirst == Spec => []AudioAfterOptions
<1>1. SafeInv => AudioAfterOptions
  BY DEF SafeInv, OptionsPrecede, AudioAfterOptions
<1> QED BY Safety, <1>1, PTL

\* At most one connection is live, the current one.
THEOREM OneConnection == Spec => []OnlyCurrentIsOpen
<1>1. SafeInv => OnlyCurrentIsOpen  BY DEF SafeInv
<1> QED BY Safety, <1>1, PTL

\* The shutdown never leaves connection_loop blocked on a live socket.
THEOREM ReceiverWoken == Spec => []ShutdownReachesReceiver
<1>1. SafeInv => ShutdownReachesReceiver  BY DEF SafeInv
<1> QED BY Safety, <1>1, PTL

\* At most one frame follows END_OF_AUDIO.
THEOREM OneLateFrame == Spec => []AtMostOneLateFrame
<1>1. SafeInv => AtMostOneLateFrame
  BY DEF SafeInv, LateIsLast, AtMostOneLateFrame
<1> QED BY Safety, <1>1, PTL

-----------------------------------------------------------------------------
(* While capture_loop is prompt. *)

\* Only a SERVER_READY of the current connection raises server_ready.
ReadyIsCurrent ==
    server_ready => conn \in {"check", "recv", "clear"} /\ ws \in readied

\* A new connection has not had its SERVER_READY.
ReadiedIsPast ==
    /\ \A c \in readied : c <= ws
    /\ conn \in {"options", "publish"} => ws \notin readied

\* No iteration of capture_loop spans two connections.
CaptureKeepsUp ==
    /\ conn \in {"dial", "options", "publish"} \/ (conn = "top" /\ ~stop)
          => capture \in {"top", "read", "done"}
    /\ capture = "get" => ws \in readied
    /\ capture \in {"send", "clear"} => sending = ws /\ ws \in readied
    /\ capture = "clear" => wire[ws] # "open"

PromptInv == ReadyIsCurrent /\ ReadiedIsPast /\ CaptureKeepsUp /\ AudioFlows

LEMMA InitPrompt == Init => PromptInv /\ ~slow
  BY DEF Init, PromptInv, ReadyIsCurrent, ReadiedIsPast, CaptureKeepsUp,
         AudioFlows

\* The reconnect delay keeps capture_loop on the current connection.
LEMMA NextPrompt ==
  ASSUME SafeInv, ~slow => PromptInv, [Next]_vars, ~slow'
  PROVE  PromptInv'
<1>0. ~slow
  <2> USE DEF connVars
  <2>1. CASE ConnLocal
    BY <2>1 DEF ConnLocal, ConnTop, Dial, DialFails, SendOptions, OptionsFail,
       PublishSocket, ReceiveCheck, ConnClears, TakeSocket, ConnCloses,
       ReconnectDelay, TypeOK, SafeInv
  <2>2. CASE Receive
    BY <2>2 DEF Receive, RecvReady, RecvOther, RecvEnds
  <2>3. CASE CaptureStep \/ ShutdownStarts \/ HookStep \/ \E c \in Dials : Break(c)
    BY <2>3 DEF CaptureStep, CaptureTop, ReadChunk, ReadFails, GetSocket, SendAudio,
       SendFails, CaptureClears, ShutdownStarts, HookStep, HookClears,
       HookGetsSocket, HookSaysEnd, HookCloses, HookClosesMic, Break
  <2> QED BY <2>1, <2>2, <2>3 DEF Next, vars
<1> USE DEF Dials, None, Closed, SafeInv, TypeOK, StopIsHook, SocketPlace,
            OnlyCurrentIsOpen, PromptInv, ReadyIsCurrent, ReadiedIsPast,
            CaptureKeepsUp, AudioFlows,
            shared, connVars, captureVars, hookVars
<1>1. CASE ConnTop BY <1>1 DEF ConnTop
<1>2. CASE Dial BY <1>2 DEF Dial
<1>3. CASE DialFails BY <1>3 DEF DialFails
<1>4. CASE SendOptions BY <1>4 DEF SendOptions
<1>5. CASE OptionsFail BY <1>5 DEF OptionsFail
<1>6. CASE PublishSocket BY <1>6 DEF PublishSocket
<1>7. CASE ReceiveCheck BY <1>7 DEF ReceiveCheck
<1>8. CASE RecvReady BY <1>8 DEF RecvReady
<1>9. CASE RecvOther BY <1>9 DEF RecvOther
<1>10. CASE RecvEnds BY <1>10 DEF RecvEnds
<1>11. CASE ConnClears BY <1>11 DEF ConnClears
<1>12. CASE TakeSocket BY <1>12 DEF TakeSocket
<1>13. CASE ConnCloses BY <1>13 DEF ConnCloses
<1>14. CASE ReconnectDelay BY <1>14 DEF ReconnectDelay
<1>15. CASE CaptureTop BY <1>15 DEF CaptureTop
<1>16. CASE ReadChunk BY <1>16 DEF ReadChunk
<1>17. CASE ReadFails BY <1>17 DEF ReadFails
<1>18. CASE GetSocket BY <1>18 DEF GetSocket
<1>19. CASE SendAudio BY <1>19 DEF SendAudio
<1>20. CASE SendFails BY <1>20 DEF SendFails
<1>21. CASE CaptureClears BY <1>21 DEF CaptureClears
<1>22. CASE ShutdownStarts BY <1>22 DEF ShutdownStarts
<1>23. CASE HookClears BY <1>23 DEF HookClears
<1>24. CASE HookGetsSocket BY <1>24 DEF HookGetsSocket
<1>25. CASE HookSaysEnd BY <1>25 DEF HookSaysEnd
<1>26. CASE HookCloses BY <1>26 DEF HookCloses
<1>27. CASE HookClosesMic BY <1>27 DEF HookClosesMic
<1>28. ASSUME NEW c \in Dials, Break(c) PROVE PromptInv'
  BY <1>28 DEF Break
<1>29. CASE UNCHANGED vars BY <1>29 DEF vars
<1> QED
  BY <1>1, <1>2, <1>3, <1>4, <1>5, <1>6, <1>7, <1>8, <1>9, <1>10, <1>11,
     <1>12, <1>13, <1>14, <1>15, <1>16, <1>17, <1>18, <1>19, <1>20, <1>21,
     <1>22, <1>23, <1>24, <1>25, <1>26, <1>27, <1>28, <1>29
  DEF Next, ConnLocal, Receive, CaptureStep, HookStep

\* As long as capture_loop is prompt, PromptInv holds.
THEOREM Promptness == Spec => [](~slow => PromptInv)
<1>1. SafeInv /\ (~slow => PromptInv) /\ [Next]_vars => (~slow => PromptInv)'
  BY NextPrompt
<1>2. Init => (~slow => PromptInv)
  BY InitPrompt
<1> QED BY <1>1, <1>2, Safety, PTL DEF Spec

\* Audio is sent only to a server that said it is ready, as long as capture_loop is
\* prompt.
THEOREM ReadyFirst == Spec => []AudioAfterReady
<1>1. (~slow => PromptInv) => AudioAfterReady
  BY DEF PromptInv, CaptureKeepsUp, AudioAfterReady
<1> QED BY <1>1, Promptness, PTL

\* A ready connection lets the audio through, as long as capture_loop is prompt.
THEOREM Continuous == Spec => []AudioFlows
<1>1. (~slow => PromptInv) => AudioFlows
  BY DEF PromptInv, AudioFlows
<1> QED BY Promptness, <1>1, PTL
\* c values from first on, a step apart, are below last, and the next is not.
Fits(c, first, last) ==
    /\ c \in Nat
    /\ c # 0 => first + (c - 1) * InRate < last
    /\ last <= first + c * InRate

-----------------------------------------------------------------------------
(* The resampler: counting outputs *)

\* Quotient and remainder, and their uniqueness: np.arange's size and the index
\* and weight of np.interp are both computed from them.
LEMMA Division ==
  ASSUME NEW a \in Int, NEW b \in Nat \ {0}
  PROVE  /\ a \div b \in Int /\ a % b \in 0 .. b - 1
         /\ a = b * (a \div b) + (a % b)
OBVIOUS

LEMMA DivisionUnique ==
  ASSUME NEW a \in Int, NEW b \in Nat \ {0}, NEW q \in Int, NEW r \in 0 .. b - 1,
         a = b * q + r
  PROVE  a \div b = q /\ a % b = r
OBVIOUS

\* Adding a multiple of the divisor adds to the quotient only.
Shifts(a, b, q) == (a + q * b) \div b = (a \div b) + q /\ (a + q * b) % b = a % b

LEMMA Shift == \A a \in Int, b \in Nat \ {0}, q \in Int : Shifts(a, b, q)
<1> SUFFICES ASSUME NEW a \in Int, NEW b \in Nat \ {0}, NEW q \in Int
             PROVE  Shifts(a, b, q)
  OBVIOUS
<1> DEFINE d == a \div b
           r == a % b
<1>1. d \in Int /\ r \in 0 .. b - 1 /\ a = b * d + r
  BY Division
<1> HIDE DEF d, r
<1>2. a + q * b = b * (d + q) + r /\ a + q * b \in Int /\ d + q \in Int
  BY <1>1
<1>3. (a + q * b) \div b = d + q /\ (a + q * b) % b = r
  BY <1>1, <1>2, DivisionUnique
<1> QED BY <1>3 DEF d, r, Shifts

\* The two facts about products that the provers need to be told.
LEMMA SumTimes ==
  ASSUME NEW a \in Int, NEW b \in Int, NEW c \in Int
  PROVE  (a + b) * c = a * c + b * c /\ a * c \in Int /\ b * c \in Int
OBVIOUS

LEMMA TimesMonotone ==
  ASSUME NEW a \in Int, NEW b \in Int, NEW c \in Nat \ {0}
  PROVE  /\ a <= b <=> a * c <= b * c
         /\ a < b <=> a * c < b * c
OBVIOUS

\* np.arange(first, last, step).size is such a count, and there is only one.
LEMMA CountFits ==
  ASSUME NEW first \in Int, NEW last \in Int
  PROVE  Fits(Count(first, last), first, last)
<1>1. InRate \in Nat \ {0}
  BY RatesAssumption
<1>2. CASE first >= last
  BY <1>1, <1>2 DEF Fits, Count
<1>3. CASE ~(first >= last)
  <2> DEFINE a == last - first - 1
             d == a \div InRate
             r == a % InRate
             m == InRate * d
  <2>1. a \in Nat
    BY <1>3
  <2>2. d \in Int /\ r \in 0 .. InRate - 1 /\ a = m + r
    BY <1>1, <2>1, Division
  <2>3. Count(first, last) = d + 1
    BY <1>3 DEF Count
  <2> HIDE DEF d, r
  <2>4. d >= 0
    BY <1>1, <2>1, <2>2
  <2>5. (d + 1 - 1) * InRate = m /\ (d + 1) * InRate = m + InRate /\ m \in Int
    BY <1>1, <2>2
  <2> DEFINE c == d + 1
  <2>6. c \in Nat /\ (c - 1) * InRate = m /\ c * InRate = m + InRate /\ m \in Int
    BY <2>2, <2>4, <2>5
  <2> HIDE DEF m, c
  <2>7. first + m < last /\ last <= first + (m + InRate)
    BY <1>1, <2>2, <2>6
  <2>8. Fits(c, first, last)
    BY <2>6, <2>7 DEF Fits
  <2> QED BY <2>3, <2>8 DEF c
<1> QED BY <1>2, <1>3

LEMMA FitsUnique ==
  ASSUME NEW first \in Int, NEW last \in Int, NEW c, NEW d,
         Fits(c, first, last), Fits(d, first, last)
  PROVE  c = d
<1>1. InRate \in Nat \ {0} /\ c \in Nat /\ d \in Nat
  BY RatesAssumption DEF Fits
<1>2. ASSUME NEW a \in Nat, NEW b \in Nat, Fits(a, first, last), Fits(b, first, last), a < b
      PROVE  FALSE
  <2>1. first + (b - 1) * InRate < last /\ last <= first + a * InRate
    BY <1>2 DEF Fits
  <2>2. a <= b - 1 /\ b - 1 \in Int /\ a \in Int
    BY <1>2
  <2>3. a * InRate <= (b - 1) * InRate
    BY <1>1, <2>2, TimesMonotone
  <2>4. a * InRate \in Int /\ (b - 1) * InRate \in Int
    BY <1>1, <2>2
  <2> QED BY <2>1, <2>3, <2>4
<1>3. ~(c < d) /\ ~(d < c)
  BY <1>1, <1>2
<1> QED BY <1>1, <1>3

\* What Resampling counts are the positions from OutRate on, before sample h.
LEMMA WholeCount ==
  ASSUME NEW h \in Nat
  PROVE  Whole!Count(h) = Count(OutRate, h * OutRate)
<1>1. OutRate \in Nat \ {0}
  BY RatesAssumption
<1>2. h * OutRate \in Int /\ (h <= 1 <=> OutRate >= h * OutRate)
  <2>1. h <= 1 <=> h * OutRate <= 1 * OutRate
    BY <1>1, TimesMonotone
  <2>2. 1 * OutRate = OutRate /\ h * OutRate \in Int
    BY <1>1
  <2> QED BY <1>1, <2>1, <2>2
<1>3. (h - 1) * OutRate - 1 = h * OutRate - OutRate - 1
  BY <1>1
<1> QED BY <1>2, <1>3 DEF Whole!Count, Count

\* The positions of a chunk are those that come next in the whole stream.
LEMMA CountsAdd ==
  ASSUME NEW h \in Nat, NEW n \in Nat, NEW from \in Int,
         from = OutRate + Whole!Count(h) * InRate - h * OutRate
  PROVE  /\ Whole!Count(h) \in Nat /\ Count(from, n * OutRate) \in Nat
         /\ Whole!Count(h + n) = Whole!Count(h) + Count(from, n * OutRate)
<1> DEFINE c == Whole!Count(h)
           d == Count(from, n * OutRate)
           H == h * OutRate
           N == n * OutRate
<1>1. OutRate \in Nat \ {0} /\ InRate \in Nat \ {0}
  BY RatesAssumption
<1>2. H \in Nat /\ N \in Nat /\ (h + n) * OutRate = H + N
  BY <1>1
<1>3. Fits(c, OutRate, H)
  BY <1>1, <1>2, WholeCount, CountFits
<1>4. Fits(d, from, N)
  BY <1>2, CountFits
<1> HIDE DEF c, d, H, N
<1>5. from = OutRate + c * InRate - H
  BY DEF c, H
<1>6. c \in Nat /\ d \in Nat
  BY <1>3, <1>4 DEF Fits
<1>7. Fits(c + d, OutRate, H + N)
  <2>1. H + N <= OutRate + (c + d) * InRate
    <3>1. N <= from + d * InRate
      BY <1>4 DEF Fits
    <3>2. (c + d) * InRate = c * InRate + d * InRate /\ c * InRate \in Int /\ d * InRate \in Int
      BY <1>1, <1>6, SumTimes
    <3> QED BY <1>1, <1>2, <1>5, <3>1, <3>2
  <2>2. ASSUME c + d # 0 PROVE OutRate + (c + d - 1) * InRate < H + N
    <3>1. CASE d # 0
      <4>1. from + (d - 1) * InRate < N
        BY <1>4, <3>1 DEF Fits
      <4>2. /\ (c + d - 1) * InRate = c * InRate + (d - 1) * InRate
            /\ c * InRate \in Int /\ (d - 1) * InRate \in Int
        <5>1. c + d - 1 = c + (d - 1) /\ c \in Int /\ d - 1 \in Int
          BY <1>6
        <5> QED BY <1>1, <5>1, SumTimes
      <4> QED BY <1>1, <1>2, <1>5, <4>1, <4>2
    <3>2. CASE d = 0
      <4>1. c # 0 /\ c + d - 1 = c - 1
        BY <1>6, <2>2, <3>2
      <4>2. OutRate + (c - 1) * InRate < H
        BY <1>3, <4>1 DEF Fits
      <4>3. (c - 1) * InRate \in Int
        BY <1>1, <1>6
      <4> QED BY <1>1, <1>2, <4>1, <4>2, <4>3
    <3> QED BY <3>1, <3>2
  <2> QED BY <1>6, <2>1, <2>2 DEF Fits
<1>8. Whole!Count(h + n) = c + d
  <2>1. h + n \in Nat /\ H + N \in Int
    BY <1>2
  <2>2. Whole!Count(h + n) = Count(OutRate, H + N)
    BY <1>2, <2>1, WholeCount
  <2> QED BY <1>1, <1>7, <2>1, <2>2, CountFits, FitsUnique
<1> QED BY <1>6, <1>8 DEF c, d, N

-----------------------------------------------------------------------------
(* The resampler: windows of the stream *)

\* Sample k of the stream: there was silence before the first.
Sample(k) == IF k > 0 THEN k ELSE 0

\* The m samples up to sample k.
Window(k, m) == [j \in 1 .. m |-> Sample(k - m + j)]

\* A window is a sequence of numbers of samples that were heard.
LEMMA WindowType ==
  ASSUME NEW k \in Nat, NEW m \in Nat
  PROVE  /\ Window(k, m) \in [1 .. m -> 0 .. k] /\ Window(k, m) \in Seq(Nat)
         /\ Len(Window(k, m)) = m
         /\ \A j \in 1 .. m : Window(k, m)[j] = Sample(k - m + j)
<1>1. \A j \in 1 .. m : Sample(k - m + j) \in 0 .. k /\ Sample(k - m + j) \in Nat
  BY DEF Sample
<1>2. Window(k, m) \in [1 .. m -> 0 .. k] /\ Window(k, m) \in [1 .. m -> Nat]
  BY <1>1 DEF Window
<1>3. Window(k, m) \in Seq(Nat) /\ Len(Window(k, m)) = m
  BY <1>2
<1> QED BY <1>2, <1>3 DEF Window

\* A filtered value is the window the kernel is laid over.
LEMMA FilteredIsWindow == \A k \in Nat : Whole!Filtered(k) = Window(k, Taps)
BY DEF Whole!Filtered, Window, Sample

\* What is heard comes behind the tail.
LEMMA WindowGrows ==
  ASSUME NEW k \in Nat, NEW m \in Nat, NEW n \in Nat
  PROVE  Window(k, m) \o [j \in 1 .. n |-> k + j] = Window(k + n, m + n)
<1> DEFINE a == Window(k, m)
           b == [j \in 1 .. n |-> k + j]
           c == Window(k + n, m + n)
<1>1. /\ a \in Seq(Nat) /\ Len(a) = m
      /\ \A j \in 1 .. m : a[j] = Sample(k - m + j)
  BY WindowType
<1>2. /\ b \in Seq(Nat) /\ Len(b) = n
      /\ \A j \in 1 .. n : b[j] = k + j
  OBVIOUS
<1>3. /\ c \in Seq(Nat) /\ Len(c) = m + n
      /\ \A j \in 1 .. m + n : c[j] = Sample(k - m + j)
  <2>1. k + n \in Nat /\ m + n \in Nat /\ \A j \in Int : k + n - (m + n) + j = k - m + j
    OBVIOUS
  <2> QED BY <2>1, WindowType
<1> HIDE DEF a, b, c
<1>4. /\ a \o b \in Seq(Nat) /\ Len(a \o b) = m + n
      /\ \A j \in 1 .. m + n : (a \o b)[j] = IF j <= m THEN a[j] ELSE b[j - m]
  BY <1>1, <1>2, ConcatProperties
<1>5. ASSUME NEW j \in 1 .. m + n PROVE (a \o b)[j] = c[j]
  <2>1. CASE j <= m
    BY <1>1, <1>3, <1>4, <2>1
  <2>2. CASE ~(j <= m)
    <3>1. j - m \in 1 .. n /\ k + (j - m) = k - m + j /\ k - m + j > 0
      BY <2>2
    <3> QED BY <1>2, <1>3, <1>4, <2>2, <3>1 DEF Sample
  <2> QED BY <2>1, <2>2
<1>6. a \o b = c
  BY <1>3, <1>4, <1>5, SeqEqual
<1> QED BY <1>6 DEF a, b, c

\* A part of a window is a window.
IsPart(k, m, i, l, e, t) == SubSeq(Window(k, m), i, l) = Window(e, t)

LEMMA WindowPart ==
  ASSUME NEW k \in Nat, NEW m \in Nat, NEW i \in Nat \ {0}, NEW l \in Nat,
         NEW e \in Nat, NEW t \in Nat, l <= m, e = k - m + l, l = i + t - 1
  PROVE  IsPart(k, m, i, l, e, t)
<1> DEFINE a == Window(k, m)
           b == SubSeq(a, i, l)
           c == Window(e, t)
<1>1. /\ a \in Seq(Nat) /\ Len(a) = m
      /\ \A j \in 1 .. m : a[j] = Sample(k - m + j)
  BY WindowType
<1>2. /\ c \in Seq(Nat) /\ Len(c) = t
      /\ \A j \in 1 .. t : c[j] = Sample(e - t + j)
  BY WindowType
<1> HIDE DEF a, c
<1>3. /\ b \in Seq(Nat) /\ Len(b) = t
      /\ \A j \in 1 .. t : b[j] = a[i + j - 1]
  <2>1. \A j \in 1 .. t : i + j - 1 \in 1 .. m
    OBVIOUS
  <2>2. i \in 1 .. Len(a) + 1 /\ l \in i - 1 .. Len(a) /\ l - i + 1 = t
    BY <1>1
  <2> QED BY <1>1, <2>2, SubSeqProperties
<1> HIDE DEF b
<1>4. ASSUME NEW j \in 1 .. t PROVE b[j] = c[j]
  <2>1. i + j - 1 \in 1 .. m /\ k - m + (i + j - 1) = e - t + j
    OBVIOUS
  <2> QED BY <1>1, <1>2, <1>3, <2>1
<1>5. b = c
  BY <1>2, <1>3, <1>4, SeqEqual
<1> QED BY <1>5 DEF a, b, c, IsPart

-----------------------------------------------------------------------------
(* The resampler: one chunk *)

\* The buffer process makes of a chunk of n samples, and what it filters out of it.
Buffer(h, n) == Window(h, Taps - 1) \o [j \in 1 .. n |-> h + j]
Stream(h, n) == <<Whole!Filtered(h)>> \o Convolved(Buffer(h, n))

\* The values filtered out of a chunk follow the one that was kept, and are
\* those of the whole stream; so are the tail and the value kept for the next.
LEMMA StreamElements ==
  ASSUME NEW h \in Nat, NEW n \in Nat \ {0}
  PROVE  /\ NewTail(Buffer(h, n)) = Window(h + n, Taps - 1)
         /\ Len(Stream(h, n)) = n + 1
         /\ \A i \in 1 .. n + 1 : Stream(h, n)[i] = Whole!Filtered(h + i - 1)
         /\ Last(Stream(h, n)) = Whole!Filtered(h + n)
<1> DEFINE b == Buffer(h, n)
           m == Taps - 1 + n
           f == Convolved(b)
           x == Whole!Filtered(h)
<1>1. /\ Taps \in Nat /\ Taps - 1 \in Nat \ {0} /\ m \in Nat /\ m = n + (Taps - 1)
      /\ h + n \in Nat
  BY TapsAssumption
<1>2. b = Window(h + n, m) /\ Len(b) = m
  <2>1. b = Window(h + n, Taps - 1 + n)
    BY <1>1, WindowGrows DEF Buffer
  <2> HIDE DEF b
  <2> QED BY <1>1, <2>1, WindowType
<1> HIDE DEF b, m
<1>3. NewTail(b) = Window(h + n, Taps - 1)
  <2>1. Len(b) - Taps + 2 = n + 1 /\ m = n + 1 + (Taps - 1) - 1 /\ h + n = h + n - m + m
    BY <1>1, <1>2
  <2>2. n + 1 \in Nat \ {0} /\ m <= m
    BY <1>1
  <2>3. IsPart(h + n, m, n + 1, m, h + n, Taps - 1)
    BY <1>1, <2>1, <2>2, WindowPart
  <2> QED BY <1>2, <2>1, <2>3 DEF NewTail, IsPart
<1>4. ASSUME NEW i \in 1 .. n PROVE SubSeq(b, i, i + Taps - 1) = Whole!Filtered(h + i)
  <2> DEFINE l == i + Taps - 1
             e == h + i
  <2>1. /\ e = h + n - m + l /\ l <= m /\ e \in Nat /\ l \in Nat /\ l = i + Taps - 1
        /\ i \in Nat \ {0}
    BY <1>1
  <2> HIDE DEF l, e
  <2>2. IsPart(h + n, m, i, l, e, Taps)
    BY <1>1, <2>1, WindowPart
  <2> QED BY <1>2, <2>1, <2>2, FilteredIsWindow DEF l, e, IsPart
<1>5. f = [i \in 1 .. n |-> Whole!Filtered(h + i)]
  <2>1. m - Taps + 1 = n
    BY <1>1
  <2>2. f = [i \in 1 .. n |-> SubSeq(b, i, i + Taps - 1)]
    BY <1>2, <2>1 DEF Convolved
  <2> QED BY <1>4, <2>2
<1>6. \A k \in Nat : Whole!Filtered(k) \in Seq(Nat)
  BY <1>1, FilteredIsWindow, WindowType
<1>7. /\ f \in Seq(Seq(Nat)) /\ Len(f) = n
      /\ \A i \in 1 .. n : f[i] = Whole!Filtered(h + i)
  <2>1. \A i \in 1 .. n : h + i \in Nat
    OBVIOUS
  <2>2. f \in [1 .. n -> Seq(Nat)]
    BY <1>5, <1>6, <2>1
  <2> HIDE DEF f
  <2>3. f \in Seq(Seq(Nat)) /\ Len(f) = n
    BY <2>2
  <2> QED BY <1>5, <2>3
<1>8. <<x>> \in Seq(Seq(Nat)) /\ Len(<<x>>) = 1 /\ <<x>>[1] = x
  BY <1>6
<1> HIDE DEF f, x
<1> DEFINE s == <<x>> \o f
<1>9. /\ Len(s) = n + 1
      /\ \A i \in 1 .. n + 1 : s[i] = IF i <= 1 THEN <<x>>[i] ELSE f[i - 1]
  <2>1. /\ Len(<<x>> \o f) = Len(<<x>>) + Len(f)
        /\ \A i \in 1 .. Len(<<x>>) + Len(f) :
             (<<x>> \o f)[i] = IF i <= Len(<<x>>) THEN <<x>>[i] ELSE f[i - Len(<<x>>)]
    BY <1>7, <1>8, ConcatProperties
  <2>2. Len(<<x>>) + Len(f) = n + 1
    BY <1>7, <1>8
  <2> HIDE DEF s
  <2> QED BY <1>8, <2>1, <2>2 DEF s
<1> HIDE DEF s
<1>10. ASSUME NEW i \in 1 .. n + 1 PROVE s[i] = Whole!Filtered(h + i - 1)
  <2>1. CASE i = 1
    <3>1. h + i - 1 = h
      BY <2>1
    <3> QED BY <1>8, <1>9, <2>1, <3>1 DEF x
  <2>2. CASE i # 1
    <3>1. i - 1 \in 1 .. n /\ h + (i - 1) = h + i - 1 /\ ~(i <= 1)
      BY <2>2
    <3> QED BY <1>7, <1>9, <3>1
  <2> QED BY <2>1, <2>2
<1>11. Last(s) = Whole!Filtered(h + n)
  <2>1. n + 1 \in 1 .. n + 1 /\ h + (n + 1) - 1 = h + n
    OBVIOUS
  <2> QED BY <1>9, <1>10, <2>1 DEF Last
<1>12. s = Stream(h, n)
  BY DEF s, f, x, b, Stream
<1> QED BY <1>3, <1>9, <1>10, <1>11, <1>12 DEF b

\* What is read off the stream of a chunk is the value of the whole stream.
LEMMA InterpIsValue ==
  ASSUME NEW h \in Nat, NEW n \in Nat \ {0}, NEW p \in Nat, p < n * OutRate
  PROVE  Interp(Stream(h, n), p) = Whole!ValueAt(p + h * OutRate)
<1> DEFINE q == p \div OutRate
           r == p % OutRate
<1>1. OutRate \in Nat \ {0}
  BY RatesAssumption
<1>2. q \in Int /\ r \in 0 .. OutRate - 1 /\ p = OutRate * q + r
  BY <1>1, Division
<1>3. (p + h * OutRate) \div OutRate = q + h /\ (p + h * OutRate) % OutRate = r
  <2>1. p \in Int /\ h \in Int
    OBVIOUS
  <2>2. Shifts(p, OutRate, h)
    BY <1>1, <2>1, Shift, Zenon
  <2> QED BY <2>2, Zenon DEF Shifts
<1> HIDE DEF q, r
<1>4. q \in Nat /\ q < n
  <2>1. q * OutRate < n * OutRate
    BY <1>1, <1>2
  <2>2. q < n
    BY <1>1, <1>2, <2>1, TimesMonotone
  <2>3. q >= 0
    <3>1. ASSUME q <= -1 PROVE FALSE
      <4>1. q * OutRate <= (-1) * OutRate
        BY <1>1, <1>2, <3>1, TimesMonotone
      <4> QED BY <1>1, <1>2, <4>1
    <3> QED BY <1>2, <3>1
  <2> QED BY <1>2, <2>2, <2>3
<1> DEFINE s == Stream(h, n)
<1>5. /\ s[q + 1] = Whole!Filtered(q + h)
      /\ s[q + 1 + 1] = Whole!Filtered(q + h + 1)
  <2>1. /\ q + 1 \in 1 .. n + 1 /\ q + 1 + 1 \in 1 .. n + 1
        /\ h + (q + 1) - 1 = q + h /\ h + (q + 1 + 1) - 1 = q + h + 1
    BY <1>4
  <2>2. \A i \in 1 .. n + 1 : s[i] = Whole!Filtered(h + i - 1)
    BY StreamElements
  <2> HIDE DEF s
  <2> QED BY <2>1, <2>2
<1> HIDE DEF s
<1>6. Interp(s, p) = IF r = 0 THEN <<s[q + 1]>> ELSE <<s[q + 1], s[q + 1 + 1], r>>
  BY DEF Interp, q, r
<1>7. Whole!ValueAt(p + h * OutRate)
        = IF r = 0 THEN <<Whole!Filtered(q + h)>>
          ELSE <<Whole!Filtered(q + h), Whole!Filtered(q + h + 1), r>>
  BY <1>3 DEF Whole!ValueAt
<1> QED BY <1>5, <1>6, <1>7 DEF s

\* The j-th output of the whole stream, and what is said when h samples are heard.
ValueSaid(j) == Whole!ValueAt(Whole!Position(j))
SaidOf(h) == [j \in 1 .. Whole!Count(h) |-> ValueSaid(j)]

\* How far the next output is ahead of sample h.
Ahead(h) == OutRate + Whole!Count(h) * InRate - h * OutRate

\* The output of a chunk.
Output(h, n) ==
    [j \in 1 .. Count(Ahead(h), n * OutRate) |->
       Interp(Stream(h, n), Ahead(h) + (j - 1) * InRate)]

\* What a chunk adds to what is said is what the whole stream goes on with.
LEMMA OutputGoesOn ==
  ASSUME NEW h \in Nat, NEW n \in Nat \ {0}, Ahead(h) \in Nat
  PROVE  /\ SaidOf(h) \o Output(h, n) = SaidOf(h + n)
         /\ Len(SaidOf(h)) = Whole!Count(h)
         /\ \E X : SaidOf(h) \in Seq(X) /\ Output(h, n) \in Seq(X)
<1> DEFINE c == Whole!Count(h)
           d == Count(Ahead(h), n * OutRate)
           a == SaidOf(h)
           b == Output(h, n)
           f == Ahead(h)
           X == {ValueSaid(j) : j \in Nat}
<1>1. InRate \in Nat \ {0} /\ OutRate \in Nat \ {0}
  BY RatesAssumption
<1>2. c \in Nat /\ d \in Nat /\ Whole!Count(h + n) = c + d
  <2>1. f \in Int
    OBVIOUS
  <2> QED BY <2>1, CountsAdd DEF Ahead
<1>3. ASSUME NEW j \in 1 .. d PROVE Interp(Stream(h, n), f + (j - 1) * InRate) = ValueSaid(c + j)
  <2> DEFINE p == f + (j - 1) * InRate
  <2>1. p \in Nat /\ p < n * OutRate
    <3>1. Fits(d, f, n * OutRate)
      BY <1>1, CountFits
    <3> HIDE DEF d
    <3>2. d # 0 /\ f + (d - 1) * InRate < n * OutRate
      BY <1>2, <3>1 DEF Fits
    <3>3. (j - 1) * InRate <= (d - 1) * InRate /\ (j - 1) * InRate \in Nat
          /\ (d - 1) * InRate \in Int /\ n * OutRate \in Int
      <4>1. j - 1 \in Nat /\ d - 1 \in Int /\ j - 1 \in Int /\ j - 1 <= d - 1
        BY <1>2
      <4>2. (j - 1) * InRate <= (d - 1) * InRate
        BY <1>1, <4>1, TimesMonotone
      <4> QED BY <1>1, <4>1, <4>2
    <3> HIDE DEF f
    <3>4. f \in Nat
      BY DEF f
    <3> QED BY <3>2, <3>3, <3>4
  <2>2. p + h * OutRate = Whole!Position(c + j)
    <3>1. ((c + j) - 1) * InRate = c * InRate + (j - 1) * InRate
          /\ c * InRate \in Int /\ (j - 1) * InRate \in Int
      <4>1. (c + j) - 1 = c + (j - 1) /\ c \in Int /\ j - 1 \in Int
        BY <1>2
      <4> QED BY <1>1, <4>1, SumTimes
    <3>2. h * OutRate \in Int
      BY <1>1
    <3>3. f = OutRate + c * InRate - h * OutRate
      BY DEF Ahead
    <3>4. Whole!Position(c + j) = OutRate + ((c + j) - 1) * InRate
      BY Zenon DEF Whole!Position
    <3> HIDE DEF c, f
    <3> QED BY <1>1, <3>1, <3>2, <3>3, <3>4
  <2>3. Interp(Stream(h, n), p) = Whole!ValueAt(p + h * OutRate)
    <3> HIDE DEF p
    <3> QED BY <2>1, InterpIsValue
  <2> QED BY <2>2, <2>3 DEF ValueSaid
<1>4. a = [j \in 1 .. c |-> ValueSaid(j)] /\ b = [j \in 1 .. d |-> ValueSaid(c + j)]
  <2>1. a = [j \in 1 .. c |-> ValueSaid(j)]
    BY DEF SaidOf
  <2>2. b = [j \in 1 .. d |-> ValueSaid(c + j)]
    BY <1>3 DEF Output
  <2> QED BY <2>1, <2>2
<1>5. SaidOf(h + n) = [j \in 1 .. c + d |-> ValueSaid(j)]
  BY <1>2 DEF SaidOf
<1> HIDE DEF a, b, c, d, f
<1>6. \A j \in Nat : ValueSaid(j) \in X
  OBVIOUS
<1> HIDE DEF X
<1>7. /\ a \in Seq(X) /\ Len(a) = c /\ \A j \in 1 .. c : a[j] = ValueSaid(j)
      /\ b \in Seq(X) /\ Len(b) = d /\ \A j \in 1 .. d : b[j] = ValueSaid(c + j)
  <2>1. a \in [1 .. c -> X] /\ b \in [1 .. d -> X]
    BY <1>2, <1>4, <1>6
  <2>2. /\ a \in Seq(X) /\ Len(a) = c /\ b \in Seq(X) /\ Len(b) = d
    BY <1>2, <2>1
  <2> QED BY <1>4, <2>2
<1> DEFINE e == [j \in 1 .. c + d |-> ValueSaid(j)]
<1>8. /\ e \in Seq(X) /\ Len(e) = c + d /\ \A j \in 1 .. c + d : e[j] = ValueSaid(j)
  <2>1. e \in [1 .. c + d -> X]
    BY <1>2, <1>6
  <2> QED BY <1>2, <2>1
<1> HIDE DEF e
<1>9. /\ a \o b \in Seq(X) /\ Len(a \o b) = c + d
      /\ \A j \in 1 .. c + d : (a \o b)[j] = IF j <= c THEN a[j] ELSE b[j - c]
  BY <1>7, ConcatProperties
<1>10. ASSUME NEW j \in 1 .. c + d PROVE (a \o b)[j] = e[j]
  <2>1. CASE j <= c
    <3>1. j \in 1 .. c
      BY <1>2, <2>1
    <3> QED BY <1>7, <1>8, <1>9, <2>1, <3>1
  <2>2. CASE ~(j <= c)
    <3>1. j - c \in 1 .. d /\ c + (j - c) = j
      BY <1>2, <2>2
    <3> QED BY <1>7, <1>8, <1>9, <2>2, <3>1
  <2> QED BY <2>1, <2>2
<1>11. a \o b = e
  BY <1>8, <1>9, <1>10, SeqEqual
<1> QED BY <1>5, <1>7, <1>11 DEF a, b, c, e

-----------------------------------------------------------------------------
(* The resampler: the whole stream *)

\* What is carried over is what the whole stream has to go on with.
CarriedOver ==
    /\ heard \in 0 .. MaxHeard
    /\ tail = Window(heard, Taps - 1)
    /\ previous = Whole!Filtered(heard)
    /\ said = SaidOf(heard)
    /\ position = Ahead(heard)
    /\ position \in Nat /\ (position <= OutRate \/ position < InRate)
    /\ IsSuffix(returned, said)

\* The second of two sequences is a suffix of both.
LEMMA SuffixOfConcat ==
  ASSUME NEW X, NEW s \in Seq(X), NEW t \in Seq(X)
  PROVE  IsSuffix(t, s \o t)
<1> DEFINE u == s \o t
           m == Len(s)
           n == Len(t)
           a == Reverse(t)
           b == Reverse(u)
<1>1. /\ m \in Nat /\ n \in Nat /\ u \in Seq(X) /\ Len(u) = m + n
      /\ \A j \in 1 .. m + n : u[j] = IF j <= m THEN s[j] ELSE t[j - m]
  BY ConcatProperties
<1> HIDE DEF u, m
<1>2. /\ a \in Seq(X) /\ Len(a) = n /\ \A j \in 1 .. n : a[j] = t[n - j + 1]
  <2>1. \A j \in 1 .. n : n - j + 1 \in 1 .. n
    BY <1>1
  <2>2. a = [j \in 1 .. n |-> t[n - j + 1]] /\ a \in [1 .. n -> X]
    BY <2>1 DEF Reverse
  <2> HIDE DEF a
  <2> QED BY <1>1, <2>2
<1>3. /\ b \in Seq(X) /\ Len(b) = m + n /\ \A j \in 1 .. m + n : b[j] = u[m + n - j + 1]
  <2> DEFINE l == m + n
  <2>1. l \in Nat /\ Len(u) = l /\ l = m + n
    BY <1>1
  <2> HIDE DEF l
  <2>2. \A j \in 1 .. l : l - j + 1 \in 1 .. l
    BY <2>1
  <2>3. b = [j \in 1 .. l |-> u[l - j + 1]]
    BY <2>1 DEF Reverse
  <2> HIDE DEF b
  <2>4. b \in [1 .. l -> X]
    BY <1>1, <2>1, <2>2, <2>3
  <2>5. b \in Seq(X) /\ Len(b) = l
    BY <2>1, <2>4
  <2>6. \A j \in 1 .. l : b[j] = u[l - j + 1]
    BY <2>3
  <2> QED BY <1>1, <2>1, <2>5, <2>6
<1> HIDE DEF a, b, n
<1>4. /\ SubSeq(b, 1, n) \in Seq(X) /\ Len(SubSeq(b, 1, n)) = n
      /\ \A j \in 1 .. n : SubSeq(b, 1, n)[j] = b[j]
  <2>1. n \in 0 .. Len(b) /\ \A j \in 1 .. n : 1 + j - 1 = j
    BY <1>1, <1>3
  <2> QED BY <1>1, <1>3, <2>1
<1>5. ASSUME NEW j \in 1 .. n PROVE b[j] = a[j]
  <2>1. /\ j \in 1 .. m + n /\ m + n - j + 1 \in 1 .. m + n /\ ~(m + n - j + 1 <= m)
        /\ m + n - j + 1 - m = n - j + 1
    BY <1>1
  <2>2. u[m + n - j + 1] = t[n - j + 1]
    BY <1>1, <2>1
  <2> QED BY <1>2, <1>3, <2>1, <2>2
<1>6. SubSeq(b, 1, n) = a
  BY <1>2, <1>4, <1>5, SeqEqual
<1>7. SubSeq(a, 1, n) = a
  BY <1>1, <1>2
<1> QED BY <1>1, <1>2, <1>3, <1>6, <1>7 DEF IsSuffix, IsPrefix, a, b, u, n

\* Nothing was heard, and the first position is that of the first sample.
LEMMA CarriedOverInit == ResamplerInit => CarriedOver
<1> SUFFICES ASSUME ResamplerInit PROVE CarriedOver
  OBVIOUS
<1>1. /\ OutRate \in Nat \ {0} /\ InRate \in Nat \ {0} /\ Taps \in Nat \ {0, 1}
      /\ MaxHeard \in Nat
  BY RatesAssumption, TapsAssumption, BoundsAssumption
<1>2. Whole!Count(0) = 0
  BY DEF Whole!Count
<1>3. Ahead(0) = OutRate
  BY <1>1, <1>2 DEF Ahead
<1>4. SaidOf(0) = <<>>
  BY <1>2 DEF SaidOf
<1>5. tail = Window(0, Taps - 1) /\ previous = Whole!Filtered(0)
  <2>1. \A m \in Nat : Window(0, m) = Silence(m)
    BY DEF Window, Sample, Silence
  <2>2. Taps - 1 \in Nat /\ Taps \in Nat
    BY <1>1
  <2> QED BY <2>1, <2>2, FilteredIsWindow DEF ResamplerInit
<1>6. IsSuffix(<<>>, <<>>)
  <2>1. <<>> \in Seq(Nat) /\ <<>> \o <<>> = <<>>
    OBVIOUS
  <2> QED BY <2>1, SuffixOfConcat
<1> QED BY <1>1, <1>3, <1>4, <1>5, <1>6 DEF ResamplerInit, CarriedOver

\* A chunk is processed.
LEMMA CarriedOverProcess ==
  ASSUME CarriedOver, NEW n \in 1 .. MaxChunk, heard + n <= MaxHeard, Process(n)
  PROVE  CarriedOver' /\ heard' = heard + n
<1> DEFINE h == heard
           c == Whole!Count(h)
           d == Count(Ahead(h), n * OutRate)
<1>1. /\ OutRate \in Nat \ {0} /\ InRate \in Nat \ {0} /\ Taps \in Nat \ {0, 1}
      /\ MaxHeard \in Nat /\ MaxChunk \in Nat
      /\ n \in Nat \ {0} /\ h \in Nat
  BY RatesAssumption, TapsAssumption, BoundsAssumption DEF CarriedOver
<1>2. tail \o [j \in 1 .. n |-> heard + j] = Buffer(h, n)
      /\ <<previous>> \o Convolved(Buffer(h, n)) = Stream(h, n)
  BY DEF CarriedOver, Buffer, Stream
<1>3. (Len(Stream(h, n)) - 1) * OutRate = n * OutRate
  <2>1. Len(Stream(h, n)) - 1 = n
    BY <1>1, StreamElements
  <2> QED BY <2>1
<1>4. /\ tail' = NewTail(Buffer(h, n))
      /\ previous' = Last(Stream(h, n))
      /\ position' = NewPosition(d, n * OutRate)
      /\ returned' = Output(h, n)
      /\ heard' = h + n
      /\ said' = said \o Output(h, n)
  BY <1>2, <1>3 DEF Process, Output, CarriedOver
<1>5. tail' = Window(heard', Taps - 1) /\ previous' = Whole!Filtered(heard')
  BY <1>1, <1>4, StreamElements
<1>6. /\ said' = SaidOf(heard') /\ IsSuffix(returned', said')
      /\ c \in Nat /\ d \in Nat /\ Whole!Count(h + n) = c + d
  <2>1. Ahead(h) \in Nat
    BY DEF CarriedOver
  <2>2. said' = SaidOf(h + n)
    BY <1>1, <1>4, <2>1, OutputGoesOn DEF CarriedOver
  <2>3. IsSuffix(Output(h, n), SaidOf(h) \o Output(h, n))
    BY <1>1, <2>1, OutputGoesOn, SuffixOfConcat
  <2>4. Ahead(h) \in Int /\ n \in Nat /\ Ahead(h) = OutRate + c * InRate - h * OutRate
    BY <1>1, <2>1 DEF Ahead
  <2>5. c \in Nat /\ d \in Nat /\ Whole!Count(h + n) = c + d
    BY <1>1, <2>4, CountsAdd
  <2> QED BY <1>4, <2>2, <2>3, <2>5 DEF CarriedOver
<1>7. /\ position' = Ahead(heard')
      /\ position' \in Nat /\ (position' <= OutRate \/ position' < InRate)
  <2> DEFINE C == c * InRate
             D == d * InRate
             N == n * OutRate
             H == h * OutRate
  <2>1. C \in Int /\ D \in Int /\ N \in Nat /\ H \in Nat
    BY <1>1, <1>6
  <2>2. (c + d) * InRate = C + D /\ (h + n) * OutRate = H + N
    BY <1>1, <1>6, SumTimes
  <2>3. /\ position = OutRate + C - H /\ position \in Nat
        /\ position <= OutRate \/ position < InRate
    BY DEF CarriedOver, Ahead
  <2>4. position' = position + D - N
    BY <1>4 DEF NewPosition
  <2>5. Ahead(heard') = OutRate + (C + D) - (H + N)
    BY <1>4, <1>6, <2>2 DEF Ahead
  <2>6. /\ N <= position + D
        /\ d # 0 => position + (D - InRate) < N
    <3>1. Fits(d, position, N)
      BY <2>1, <2>3, CountFits DEF CarriedOver
    <3>2. d # 0 => (d - 1) * InRate = D - InRate
      BY <1>1, <1>6
    <3> HIDE DEF d, N
    <3> QED BY <3>1, <3>2 DEF Fits
  <2>7. d = 0 => D = 0
    BY <1>1
  <2> HIDE DEF c, d, h, C, D, N, H
  <2> QED BY <1>1, <2>1, <2>3, <2>4, <2>5, <2>6, <2>7
<1>8. heard' \in 0 .. MaxHeard
  BY <1>1, <1>4
<1> QED BY <1>4, <1>5, <1>6, <1>7, <1>8 DEF CarriedOver

\* Every step of the resampler is a chunk that is processed.
LEMMA CarriedOverNext == CarriedOver /\ [ResamplerNext]_resamplerVars => CarriedOver'
<1> SUFFICES ASSUME CarriedOver, [ResamplerNext]_resamplerVars PROVE CarriedOver'
  OBVIOUS
<1>1. CASE UNCHANGED resamplerVars
  BY <1>1 DEF CarriedOver, resamplerVars
<1>2. CASE ResamplerNext
  BY <1>2, CarriedOverProcess DEF ResamplerNext
<1> QED BY <1>1, <1>2

\* The position stays between the value that was kept and a step ahead of it,
\* and what process returned is the end of what was said (lines 60-74).
THEOREM ResamplerTypes == ResamplerSpec => []ResamplerTypeOK
<1>1. CarriedOver => ResamplerTypeOK
  <2> SUFFICES ASSUME CarriedOver PROVE ResamplerTypeOK
    OBVIOUS
  <2>1. heard \in Nat /\ Taps - 1 \in Nat /\ Taps \in Nat
    BY TapsAssumption, BoundsAssumption DEF CarriedOver
  <2>2. tail \in [1 .. Taps - 1 -> 0 .. heard]
    BY <2>1, WindowType DEF CarriedOver
  <2>3. previous \in [1 .. Taps -> 0 .. heard]
    <3>1. previous = Window(heard, Taps)
      BY <2>1, FilteredIsWindow DEF CarriedOver
    <3> QED BY <2>1, <3>1, WindowType
  <2> QED BY <2>2, <2>3 DEF CarriedOver, ResamplerTypeOK
<1> QED BY <1>1, CarriedOverInit, CarriedOverNext, PTL DEF ResamplerSpec

\* However the microphone's stream is cut into chunks, what process returns,
\* put together, is what the whole stream filtered and resampled at once would
\* give: no sample lost, doubled or filtered with the wrong neighbours at a
\* boundary, for every pair of rates and every kernel (lines 54-74).
THEOREM CutAsYouLike == ResamplerSpec => ImplementsResampling
<1>1. ResamplerInit => Whole!Init
  BY DEF ResamplerInit, Whole!Init
<1>2. CarriedOver /\ CarriedOver' /\ [ResamplerNext]_resamplerVars => [Whole!Next]_<<heard, said>>
  <2> SUFFICES ASSUME CarriedOver, CarriedOver', [ResamplerNext]_resamplerVars
               PROVE  [Whole!Next]_<<heard, said>>
    OBVIOUS
  <2>1. CASE UNCHANGED resamplerVars
    BY <2>1 DEF resamplerVars
  <2>2. ASSUME NEW n \in 1 .. MaxChunk, heard + n <= MaxHeard, Process(n)
        PROVE  Whole!Hear
    <3>1. heard' = heard + n
      BY <2>2, CarriedOverProcess
    <3>2. heard' \in Nat /\ heard' > heard
      BY <2>2, <3>1, BoundsAssumption DEF CarriedOver
    <3>3. said' = [j \in 1 .. Whole!Count(heard') |-> Whole!ValueAt(Whole!Position(j))]
      BY DEF CarriedOver, SaidOf, ValueSaid
    <3> QED BY <3>2, <3>3 DEF Whole!Hear
  <2> QED BY <2>1, <2>2 DEF ResamplerNext, Whole!Next
<1> QED BY <1>1, <1>2, CarriedOverInit, CarriedOverNext, PTL
        DEF ResamplerSpec, ImplementsResampling, Whole!Spec, Whole!resamplingVars
===============================================================================
