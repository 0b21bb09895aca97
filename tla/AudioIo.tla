------------------------------ MODULE AudioIo ------------------------------
(***************************************************************************)
(* gravital-talk-io: from the callback of the input device to the callback *)
(* of the output device.  AudioCapture cuts what the device gives into     *)
(* frames and sends them over a channel; AudioPlayback has a channel, a    *)
(* thread that pumps it into a buffer and a callback that empties the      *)
(* buffer.  What lies between the two channels (the session, or the        *)
(* example that plays the microphone) hands the frames on in order.        *)
(*                                                                         *)
(* An i16 sample is an integer of -HalfRange .. HalfRange - 1, 0x8000 in   *)
(* the code.  An f32 sample is counted in halves of 1 / i16::MAX, so that  *)
(* the conversion has something to cut off.                                *)
(***************************************************************************)
EXTENDS Integers, Sequences

CONSTANTS
  HalfRange,
  FrameSamples,  \* samples of a frame
  Given,         \* Given[f]: the samples a device of format f may give
  MaxChunk,      \* bound on what a callback brings or asks for
  MaxSamples     \* bound on what is captured

ASSUME IoAssumption == HalfRange \in Nat \ {0, 1} /\ FrameSamples \in Nat \ {0}

VARIABLES
  in_format, out_format,   \* sample formats of the devices
  captured,      \* history: what the input device gave
  accum,         \* samples short of a frame
  filled,        \* the channel of AudioCapture: whole frames
  receiver,      \* its Receiver is still there
  sent,          \* the channel of AudioPlayback
  pump,          \* the frame that the pump thread holds
  buffer,        \* the shared VecDeque
  heard,         \* history: the samples of the buffer the output device got
  gap            \* history: what it got when there were none

ioVars == <<in_format, out_format, captured, accum, filled, receiver, sent, pump, buffer,
            heard, gap>>

Formats == {"F32", "I16", "U16"}

\* AudioCapture::start and AudioPlayback::start on devices of the three formats that they
\* take: the streams run.
CaptureInit ==
  /\ in_format \in Formats
  /\ captured = <<>> /\ accum = <<>> /\ filled = <<>> /\ receiver = TRUE
PlaybackInit ==
  /\ out_format \in Formats
  /\ sent = <<>> /\ pump = <<>> /\ buffer = <<>> /\ heard = <<>> /\ gap = {}
IoInit == CaptureInit /\ PlaybackInit

-----------------------------------------------------------------------------
(* capture.rs *)

Clipped(k) ==
  LET one == 2 * (HalfRange - 1)
  IN IF k > one THEN one ELSE IF k < -one THEN -one ELSE k

\* The i16 of a sample: an f32 is clamped, scaled and cut off towards zero.
FromDevice(f, v) ==
  CASE f = "F32" -> IF Clipped(v) >= 0 THEN Clipped(v) \div 2 ELSE -((-Clipped(v)) \div 2)
    [] f = "I16" -> v
    [] f = "U16" -> v - HalfRange

Block(s, i) == SubSeq(s, (i - 1) * FrameSamples + 1, i * FrameSamples)
Whole(s) == Len(s) \div FrameSamples
Rest(s, k) == SubSeq(s, k * FrameSamples + 1, Len(s))

\* Mutant: a frame that is full takes the samples after it along.
CutLate(data) ==
  LET all == accum \o data
  IN IF Len(all) > FrameSamples
     THEN filled' = Append(filled, all) /\ accum' = <<>>
     ELSE filled' = filled /\ accum' = all

\* push_f32, push_i16, push_u16 while the frames can be sent: every whole frame is, the
\* rest waits for the next callback.
Cut(data) ==
  LET all == accum \o data
  IN /\ filled' = filled \o [i \in 1..Whole(all) |-> Block(all, i)]
     /\ accum' = Rest(all, Whole(all))

\* The first frame that cannot be sent ends the call; push_f32 and push_u16, which take
\* one sample at a time, lose the samples after it.
CutUnsent(data) ==
  LET all == accum \o data
  IN /\ UNCHANGED filled
     /\ accum' = IF Whole(all) = 0 THEN all
                 ELSE IF in_format = "I16" THEN Rest(all, 1) ELSE <<>>

InputCallback(data) ==
  /\ Len(captured) + Len(data) <= MaxSamples
  /\ captured' = captured \o data
  /\ LET converted == [i \in 1..Len(data) |-> FromDevice(in_format, data[i])]
     IN IF receiver THEN Cut(converted) ELSE CutUnsent(converted)
  /\ UNCHANGED <<in_format, out_format, receiver, sent, pump, buffer, heard, gap>>

ReceiverDropped ==
  /\ receiver /\ receiver' = FALSE /\ filled' = <<>>
  /\ UNCHANGED <<in_format, out_format, captured, accum, sent, pump, buffer, heard, gap>>

-----------------------------------------------------------------------------
(* playback.rs *)

\* AudioPlayback::push, of the next frame of the capture.
Push ==
  /\ filled # <<>>
  /\ sent' = Append(sent, Head(filled)) /\ filled' = Tail(filled)
  /\ UNCHANGED <<in_format, out_format, captured, accum, receiver, pump, buffer, heard, gap>>

\* The pump thread: recv, then the buffer under its lock.
PumpReceives ==
  /\ pump = <<>> /\ sent # <<>>
  /\ pump' = Head(sent) /\ sent' = Tail(sent)
  /\ UNCHANGED <<in_format, out_format, captured, accum, filled, receiver, buffer, heard, gap>>

PumpExtends ==
  /\ pump # <<>>
  /\ buffer' = buffer \o pump /\ pump' = <<>>
  /\ UNCHANGED <<in_format, out_format, captured, accum, filled, receiver, sent, heard, gap>>

\* pull_f32, pull_i16, pull_u16: the sample of an i16.
ToDevice(f, s) ==
  CASE f = "F32" -> 2 * s
    [] f = "I16" -> s
    [] f = "U16" -> s + HalfRange

\* A callback fills n slots, with silence where the buffer is empty.
OutputCallback(n) ==
  /\ LET m == IF n < Len(buffer) THEN n ELSE Len(buffer)
     IN /\ heard' = heard \o [i \in 1..m |-> ToDevice(out_format, buffer[i])]
        /\ buffer' = SubSeq(buffer, m + 1, Len(buffer))
        /\ gap' = gap \cup (IF m < n THEN {ToDevice(out_format, 0)} ELSE {})
  /\ UNCHANGED <<in_format, out_format, captured, accum, filled, receiver, sent, pump>>

Chunks(f) == UNION {[1..n -> Given[f]] : n \in 1..MaxChunk}

IoNext ==
  \/ \E data \in Chunks(in_format) : InputCallback(data)
  \/ ReceiverDropped \/ Push \/ PumpReceives \/ PumpExtends
  \/ \E n \in 1..MaxChunk : OutputCallback(n)

-----------------------------------------------------------------------------
\* The level of a sample, in the units of an f32.
Level(f, v) ==
  CASE f = "F32" -> v
    [] f = "I16" -> 2 * v
    [] f = "U16" -> 2 * (v - HalfRange)

\* A microphone may go beyond full scale.
LevelGiven(f, v) == IF f = "F32" THEN Clipped(v) ELSE Level(f, v)

\* What the output device plays is what the input device gave, from the first sample on
\* and in order, each within one step of an i16 of its level whatever the formats of the
\* two devices are; every frame has its size, a gap is silent, and while the frames can
\* be sent no sample is lost between the callbacks, the channels, the thread and the
\* buffer.
PlaysWhatWasCaptured ==
  /\ Len(heard) <= Len(captured)
  /\ \A i \in 1..Len(heard) :
       Level(out_format, heard[i]) - LevelGiven(in_format, captured[i]) \in -1..1
  /\ \A i \in 1..Len(filled) : Len(filled[i]) = FrameSamples
  /\ \A v \in gap : Level(out_format, v) = 0
  /\ receiver => Len(captured) = Len(heard) + Len(buffer) + Len(pump) + Len(accum)
                                 + FrameSamples * (Len(sent) + Len(filled))
=============================================================================
