----------------------------- MODULE ColaStream -----------------------------
(***************************************************************************)
(* sick_scan_common_tcp.cpp: the lidar's datagrams (CoLa B frames), cut    *)
(* out of a TCP stream that arrives in chunks of any length.               *)
(*                                                                         *)
(* A frame is a magic word, the length of the payload, the payload and an  *)
(* exclusive or over the payload.  The model keeps that layout and makes   *)
(* it small: bytes of four bits, a magic word of two and a length of one;  *)
(* as in the code, a magic byte taken for a length is too big a length.    *)
(* The receive buffer belongs to the scanner object, which survives a      *)
(* reconnection (reinit): what a broken connection left in it stands       *)
(* before the first byte of the next one.                                  *)
(***************************************************************************)
EXTENDS Naturals, Sequences, SequencesExt

CONSTANTS
    Payloads,    \* the payloads the lidar sends
    BufferSize,  \* sizeof(m_receiveBuffer)
    CounterSize, \* values of the loop counter of the checksum (UINT16)
    MaxChunk,    \* max_length of recv
    MaxSent,     \* bound: frames in one connection
    MaxLosses    \* bound: broken connections

Byte == 0 .. 15
STX == 15
Magic == <<STX, STX>>
HeaderSize == Len(Magic) + 1
Overhead == HeaderSize + 1

Bit(n, i) == (n \div 2^i) % 2
Xor == [a, b \in Byte |->
            LET bit(i) == 2^i * ((Bit(a, i) + Bit(b, i)) % 2)
            IN  bit(0) + bit(1) + bit(2) + bit(3)]
Checksum(payload) == FoldLeft(LAMBDA a, b : Xor[a, b], 0, payload)
Frame(payload) == Magic \o <<Len(payload)>> \o payload \o <<Checksum(payload)>>

ASSUME SizeAssumption ==
    /\ {BufferSize, CounterSize, MaxChunk} \subseteq Nat \ {0}
    /\ {MaxSent, MaxLosses} \subseteq Nat
    /\ Payloads \subseteq Seq(Byte)
    /\ Overhead <= BufferSize

\* What the lidar sends fits: its length is a byte, beside a whole frame there is
\* room for a chunk, and the counter can count its bytes.
ASSUME FrameAssumption ==
    \A p \in Payloads : /\ Len(Frame(p)) + MaxChunk <= BufferSize
                        /\ Len(Frame(p)) <= CounterSize
                        /\ Frame(p) \in Seq(Byte)

VARIABLES
    up,       \* is there a connection?
    wire,     \* the bytes on their way to this host
    buffer,   \* m_receiveBuffer[0 .. m_numberOfBytesInReceiveBuffer - 1]
    reader,   \* the read thread: waits for bytes, looks for frames, or hangs
    recvQueue,\* the frames it pushed, in this connection
    sent,     \* the frames the lidar sent, in this connection
    stale,    \* did the connection begin with bytes of the one before?
    losses    \* the connections that broke

vars == <<up, wire, buffer, reader, recvQueue, sent, stale, losses>>

Init ==
    /\ up = TRUE
    /\ wire = <<>>
    /\ buffer = <<>>
    /\ reader = "waiting"
    /\ recvQueue = <<>>
    /\ sent = <<>>
    /\ stale = FALSE
    /\ losses = 0

-----------------------------------------------------------------------------
(* The lidar and the network *)

\* Everything sent is read and nothing of it is left: the next byte begins a frame.
InStep == wire = <<>> /\ buffer = <<>> /\ reader = "waiting"

\* The histories of a connection start anew where it gets in step.
DeviceSends(payload) ==
    /\ up
    /\ Len(sent) < MaxSent
    /\ wire' = wire \o Frame(payload)
    /\ IF stale /\ InStep
       THEN stale' = FALSE /\ sent' = <<Frame(payload)>> /\ recvQueue' = <<>>
       ELSE sent' = Append(sent, Frame(payload)) /\ UNCHANGED <<stale, recvQueue>>
    /\ UNCHANGED <<up, buffer, reader, losses>>

ConnectionBreaks ==
    /\ up
    /\ losses < MaxLosses
    /\ up' = FALSE
    /\ losses' = losses + 1
    /\ wire' = <<>>
    /\ UNCHANGED <<buffer, reader, recvQueue, sent, stale>>

\* reinit: the read thread is joined, the buffer stays as it is.
Reconnect ==
    /\ ~up
    /\ reader = "waiting"
    /\ up' = TRUE
    /\ sent' = <<>>
    /\ recvQueue' = <<>>
    /\ stale' = (buffer # <<>>)
    /\ UNCHANGED <<wire, buffer, reader, losses>>

-----------------------------------------------------------------------------
(* readCallbackFunction *)

\* Fault: a chunk goes to the beginning of the buffer.
ReadToBeginning(n) ==
    /\ up
    /\ reader = "waiting"
    /\ n <= Len(wire)
    /\ wire' = SubSeq(wire, n + 1, Len(wire))
    /\ buffer' = SubSeq(wire, 1, n)
    /\ reader' = "parsing"
    /\ UNCHANGED <<up, recvQueue, sent, stale, losses>>

\* The chunk goes to the end of the buffer, as far as there is room; a full buffer
\* is emptied, and the chunk is lost.
ReadChunk(n) ==
    LET space == BufferSize - Len(buffer)
        taken == IF n <= space THEN n ELSE space
    IN  /\ up
        /\ reader = "waiting"
        /\ n <= Len(wire)
        /\ wire' = SubSeq(wire, n + 1, Len(wire))
        /\ IF space = 0
           THEN buffer' = <<>> /\ UNCHANGED reader
           ELSE buffer' = buffer \o SubSeq(wire, 1, taken) /\ reader' = "parsing"
        /\ UNCHANGED <<up, recvQueue, sent, stale, losses>>

IsMagicAt(bytes, i) == SubSeq(bytes, i, i + Len(Magic) - 1) = Magic

MagicAt(bytes) == {i \in 1 .. Len(bytes) - Len(Magic) + 1 : IsMagicAt(bytes, i)}

\* What findFrameInReceiveBuffer makes the frame start at.
Aligned(bytes) ==
    IF Len(bytes) < Len(Magic) THEN bytes
    ELSE IF MagicAt(bytes) = {} THEN <<>>
    ELSE LET first == CHOOSE i \in MagicAt(bytes) : \A j \in MagicAt(bytes) : i <= j
         IN  SubSeq(bytes, first, Len(bytes))

PayloadLength(bytes) == bytes[HeaderSize]
FrameLength(bytes) == PayloadLength(bytes) + Overhead

\* Fault: the overhead is forgotten.
PayloadTooBig(bytes) == PayloadLength(bytes) > BufferSize

TooBig(bytes) == PayloadLength(bytes) > BufferSize - Overhead

HasHeader(bytes) == Len(bytes) >= Overhead
IsWhole(bytes) ==
    HasHeader(bytes) /\ ~TooBig(bytes) /\ Len(bytes) >= FrameLength(bytes)
ChecksumFits(bytes) ==
    LET payload == SubSeq(bytes, HeaderSize + 1, FrameLength(bytes) - 1)
    IN  Checksum(payload) = bytes[FrameLength(bytes)]

\* One call of findFrameInReceiveBuffer and what the loop does with its result.
NoFrameYet ==
    LET bytes == Aligned(buffer) IN
    /\ reader = "parsing"
    /\ HasHeader(bytes) => ~TooBig(bytes) /\ ~IsWhole(bytes)
    /\ buffer' = bytes
    /\ reader' = "waiting"
    /\ UNCHANGED <<up, wire, recvQueue, sent, stale, losses>>

\* A length that cannot be, or a checksum that does not fit: everything received so
\* far is thrown away.
Discard ==
    LET bytes == Aligned(buffer) IN
    /\ reader = "parsing"
    /\ HasHeader(bytes)
    /\ \/ TooBig(bytes)
       \/ /\ IsWhole(bytes)
          /\ FrameLength(bytes) <= CounterSize
          /\ ~ChecksumFits(bytes)
    /\ buffer' = <<>>
    /\ reader' = "waiting"
    /\ UNCHANGED <<up, wire, recvQueue, sent, stale, losses>>

\* The counter wraps round before it reaches frameLen - 1: the loop does not end,
\* and m_receiveDataMutex is not released.
Hang ==
    LET bytes == Aligned(buffer) IN
    /\ reader = "parsing"
    /\ IsWhole(bytes)
    /\ FrameLength(bytes) > CounterSize
    /\ buffer' = bytes
    /\ reader' = "hangs"
    /\ UNCHANGED <<up, wire, recvQueue, sent, stale, losses>>

\* Fault: one frame per chunk, an if for the while.
CutOnce ==
    LET bytes == Aligned(buffer) IN
    /\ reader = "parsing"
    /\ IsWhole(bytes)
    /\ FrameLength(bytes) <= CounterSize
    /\ ChecksumFits(bytes)
    /\ recvQueue' = Append(recvQueue, SubSeq(bytes, 1, FrameLength(bytes)))
    /\ buffer' = SubSeq(bytes, FrameLength(bytes) + 1, Len(bytes))
    /\ reader' = "waiting"
    /\ UNCHANGED <<up, wire, sent, stale, losses>>

\* processFrame, and the rest of the buffer moves to its beginning.
CutFrame ==
    LET bytes == Aligned(buffer) IN
    /\ reader = "parsing"
    /\ IsWhole(bytes)
    /\ FrameLength(bytes) <= CounterSize
    /\ ChecksumFits(bytes)
    /\ recvQueue' = Append(recvQueue, SubSeq(bytes, 1, FrameLength(bytes)))
    /\ buffer' = SubSeq(bytes, FrameLength(bytes) + 1, Len(bytes))
    /\ UNCHANGED <<up, wire, reader, sent, stale, losses>>

-----------------------------------------------------------------------------
Next ==
    \/ \E p \in Payloads : DeviceSends(p)
    \/ ConnectionBreaks
    \/ Reconnect
    \/ \E n \in 1 .. MaxChunk : ReadChunk(n)
    \/ NoFrameYet
    \/ Discard
    \/ Hang
    \/ CutFrame

Spec == Init /\ [][Next]_vars

\* The read thread runs: bytes that came are read, chunk after chunk.
FairSpec ==
    /\ Spec
    /\ WF_vars(\E n \in 1 .. MaxChunk : ReadChunk(n))
    /\ WF_vars(NoFrameYet \/ Discard \/ Hang \/ CutFrame)

-----------------------------------------------------------------------------
(* Properties *)

TypeOK ==
    /\ up \in BOOLEAN
    /\ wire \in Seq(Byte)
    /\ buffer \in Seq(Byte) /\ Len(buffer) <= BufferSize
    /\ reader \in {"waiting", "parsing", "hangs"}
    /\ recvQueue \in Seq(Seq(Byte))
    /\ sent \in Seq(Seq(Byte))
    /\ stale \in BOOLEAN
    /\ losses \in 0 .. MaxLosses

\* Whatever the payloads are and however the stream is cut, the queue holds the frames
\* that were sent, in order, and the bytes after them are in the buffer and on
\* the wire, none missing and none twice.
FramesAreTheSent ==
    ~stale => /\ IsPrefix(recvQueue, sent)
              /\ up => FlattenSeq(recvQueue) \o buffer \o wire = FlattenSeq(sent)

\* A frame is pushed as soon as its last byte is read: no frame waits in the buffer
\* for the chunk after it.
NothingIsHeldBack ==
    ~stale /\ up /\ reader = "waiting" /\ Len(recvQueue) < Len(sent) =>
        Len(buffer) < Len(sent[Len(recvQueue) + 1])

\* A chunk always finds room for a byte: the branch of the full buffer, which is
\* to find back into step, is never needed.
BufferHasRoom == reader = "waiting" => Len(buffer) < BufferSize

\* A frame that was sent is pushed, unless the connection breaks first; the lidar need
\* not send anything after it.
EveryFrameArrives ==
    \A k \in 1 .. MaxSent :
        up /\ ~stale /\ Len(sent) >= k ~> ~up \/ Len(recvQueue) >= k
=============================================================================
