--------------------------- MODULE StreamResampler ---------------------------
(***************************************************************************)
(* StreamResampler of voice_command_node.py: the microphone's stream comes *)
(* in chunks of any size, and is low-passed and resampled chunk by chunk,  *)
(* with three things carried over: the filter's tail, the last filtered    *)
(* sample, and the position of the next output.                            *)
(*                                                                         *)
(* Sample k of the stream is the number k, silence is 0; a filtered value  *)
(* is the window of samples it is computed from, as in Resampling.         *)
(* Positions are in units of 1 / OutRate and exact, where the code has     *)
(* doubles.  Rates that are equal bypass all of this (lines 39-41, 55-56). *)
(***************************************************************************)
EXTENDS Integers, Sequences, SequencesExt

CONSTANTS
    InRate,     \* sample_rate: 48000
    OutRate,    \* WHISPER_RATE: 16000; the step is InRate / OutRate
    Taps,       \* length of the kernel: int(16 * ratio) | 1
    MaxChunk,   \* bound: samples in a chunk
    MaxHeard    \* bound: samples in the stream

ASSUME RatesAssumption ==
    InRate \in Nat \ {0} /\ OutRate \in Nat \ {0} /\ InRate # OutRate
ASSUME TapsAssumption == Taps \in Nat \ {0, 1}
ASSUME BoundsAssumption == MaxChunk \in Nat /\ MaxHeard \in Nat

VARIABLES
    tail,      \* the last Taps - 1 samples
    previous,  \* the last filtered value
    position,  \* of the next output, counted from previous
    returned,  \* the outputs of the last call
    heard,     \* history: samples processed so far
    said       \* history: all outputs so far

resamplerVars == <<tail, previous, position, returned, heard, said>>

Silence(n) == [j \in 1 .. n |-> 0]

ResamplerInit ==
    /\ tail = Silence(Taps - 1)
    /\ previous = Silence(Taps)
    /\ position = OutRate
    /\ returned = <<>>
    /\ heard = 0
    /\ said = <<>>

\* np.convolve(buffer, kernel, mode="valid")
Convolved(buffer) ==
    [i \in 1 .. Len(buffer) - Taps + 1 |-> SubSeq(buffer, i, i + Taps - 1)]

\* Fault: the filter starts from silence in every chunk.
TailSilent(buffer) == Silence(Taps - 1)

NewTail(buffer) == SubSeq(buffer, Len(buffer) - Taps + 2, Len(buffer))

\* Fault: the end of the range counts as in range.
CountInclusive(from, last) ==
    IF from > last THEN 0 ELSE (last - from) \div InRate + 1

\* np.arange(from, last, step).size
Count(from, last) ==
    IF from >= last THEN 0 ELSE (last - from - 1) \div InRate + 1

\* np.interp at a position of the stream, whose first element is at 0
Interp(stream, p) ==
    LET i == p \div OutRate + 1
    IN  IF p % OutRate = 0 THEN <<stream[i]>>
                           ELSE <<stream[i], stream[i + 1], p % OutRate>>

NewPosition(count, last) == position + count * InRate - last

\* process
Process(n) ==
    LET samples  == [j \in 1 .. n |-> heard + j]
        buffer   == tail \o samples
        stream   == <<previous>> \o Convolved(buffer)
        last     == (Len(stream) - 1) * OutRate
        count    == Count(position, last)
        output   == [j \in 1 .. count |->
                       Interp(stream, position + (j - 1) * InRate)]
    IN  /\ tail' = NewTail(buffer)
        /\ previous' = Last(stream)
        /\ position' = NewPosition(count, last)
        /\ returned' = output
        /\ heard' = heard + n
        /\ said' = said \o output

ResamplerNext == \E n \in 1 .. MaxChunk : heard + n <= MaxHeard /\ Process(n)

ResamplerSpec == ResamplerInit /\ [][ResamplerNext]_resamplerVars

-----------------------------------------------------------------------------
(* Properties *)

\* Every variable keeps its type; the position is never behind previous, the
\* only filtered value that is kept, and less than a step ahead of it once
\* something was said (lines 60-74).
ResamplerTypeOK ==
    /\ tail \in [1 .. Taps - 1 -> 0 .. heard]
    /\ previous \in [1 .. Taps -> 0 .. heard]
    /\ position \in Nat /\ (position <= OutRate \/ position < InRate)
    /\ heard \in 0 .. MaxHeard
    /\ IsSuffix(returned, said)

\* However the stream is cut, the output is that of the whole stream.
Whole == INSTANCE Resampling
ImplementsResampling == Whole!Spec
=============================================================================
