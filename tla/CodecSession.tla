---------------------------- MODULE CodecSession ----------------------------
(***************************************************************************)
(* CodecSession (gravital-talk/codec_session.rs) over a session: the       *)
(* sender's send_samples() down to the packet that Session::send_audio     *)
(* builds, and the receiver's recv_samples() with its concealment of gaps. *)
(* Session::recv_audio hands out frames in order, each at most once, with  *)
(* gaps (JitterBuffer); which frames get through is arbitrary.  A frame is *)
(* its sequence number and its slot: the call of send_samples() it is of.  *)
(***************************************************************************)
EXTENDS Integers, Sequences

CONSTANTS
  Encoded,        \* sizes in bytes of an encoded frame
  Mtu,            \* config.mtu
  SeqMod32,       \* 2^32; the last number is the mark of no frame received
  FirstSeq,       \* the number of the first frame
  MaxSends        \* frames the application sends

\* The sender makes fewer frames than there are numbers.
ASSUME CodecAssumption ==
  /\ SeqMod32 \in Nat \ {0} /\ FirstSeq \in 0..(SeqMod32 - 1)
  /\ MaxSends \in Nat /\ MaxSends <= SeqMod32

VARIABLES
  codec,          \* what handshake() has returned
  audio_tx_seq,   \* as in the code
  calls,          \* calls of send_samples
  recv_audio,     \* the frames that recv_audio will hand out
  last_rx_seq,    \* as in the code
  plc_queue,      \* as in the code: slots, and Silence
  played,         \* history: what recv_samples has returned
  first,          \* history: the slot of the first frame received
  blemish         \* history: a frame did not decode, or a gap was not filled

codecVars == <<codec, audio_tx_seq, calls, recv_audio, last_rx_seq, plc_queue, played,
               first, blemish>>

Silence == -1
NotYet == -2
NoFrameYet == SeqMod32 - 1

\* CodecSession::new.
CodecInit ==
  /\ codec = "idle"
  /\ audio_tx_seq = FirstSeq /\ calls = 0 /\ recv_audio = <<>>
  /\ last_rx_seq = NoFrameYet /\ plc_queue = <<>>
  /\ played = <<>> /\ first = NotYet /\ blemish = FALSE

\* handshake: the session is active either way; the caller is told of a mismatch.
Handshake ==
  /\ codec = "idle"
  /\ codec' \in {"agreed", "CodecMismatch"}
  /\ UNCHANGED <<audio_tx_seq, calls, recv_audio, last_rx_seq, plc_queue, played, first, blemish>>

\* The packet of a frame: header 24, number 4, tag 16, length and checksum 4.  It must
\* fit MAX_PAYLOAD_SIZE and the buffer of config.mtu bytes; nothing is fragmented.
Fits(size) == 4 + size + 16 <= 1176 /\ 24 + 4 + size + 16 + 4 <= Mtu

Outgoing == [seq |-> audio_tx_seq, slot |-> calls]

\* Mutant: the number of a frame that is refused is given to the next one.
SendSamplesReuses(size) ==
  /\ codec # "idle" /\ calls < MaxSends
  /\ calls' = calls + 1
  /\ IF Fits(size)
     THEN /\ audio_tx_seq' = (audio_tx_seq + 1) % SeqMod32
          /\ recv_audio' \in {recv_audio, Append(recv_audio, Outgoing)}
     ELSE UNCHANGED <<audio_tx_seq, recv_audio>>
  /\ UNCHANGED <<codec, last_rx_seq, plc_queue, played, first, blemish>>

\* send_samples: send_audio spends a number even on a frame that it then refuses.
SendSamples(size) ==
  /\ codec # "idle" /\ calls < MaxSends
  /\ calls' = calls + 1
  /\ audio_tx_seq' = (audio_tx_seq + 1) % SeqMod32
  /\ IF Fits(size)
     THEN recv_audio' \in {recv_audio, Append(recv_audio, Outgoing)}
     ELSE UNCHANGED recv_audio
  /\ UNCHANGED <<codec, last_rx_seq, plc_queue, played, first, blemish>>

\* recv_samples, while frames are queued.
RecvQueued ==
  /\ plc_queue # <<>>
  /\ played' = Append(played, Head(plc_queue))
  /\ plc_queue' = Tail(plc_queue)
  /\ UNCHANGED <<codec, audio_tx_seq, calls, recv_audio, last_rx_seq, first, blemish>>

Gap(sequence) ==
  IF last_rx_seq = NoFrameYet THEN 0
  ELSE LET ahead == (sequence - last_rx_seq) % SeqMod32 IN IF ahead = 0 THEN 0 ELSE ahead - 1

SilenceCount(gap) == IF gap < 4 THEN gap ELSE 4

\* recv_samples, from the session: the number is noted before the frame is decoded, and
\* a frame that does not decode takes the silence of its gap with it.
RecvFrame ==
  /\ codec # "idle" /\ plc_queue = <<>> /\ recv_audio # <<>>
  /\ LET frame == Head(recv_audio)
         gap == Gap(frame.seq)
         out == [i \in 1..SilenceCount(gap) |-> Silence] \o <<frame.slot>>
     IN \E decodes \in BOOLEAN :
          /\ last_rx_seq' = frame.seq
          /\ recv_audio' = Tail(recv_audio)
          /\ IF decodes
             THEN played' = Append(played, Head(out)) /\ plc_queue' = Tail(out)
             ELSE UNCHANGED <<played, plc_queue>>
          /\ first' = IF first = NotYet THEN frame.slot ELSE first
          /\ blemish' = (blemish \/ ~decodes \/ gap > 4
                           \/ (first # NotYet /\ last_rx_seq = NoFrameYet))
  /\ UNCHANGED <<codec, audio_tx_seq, calls>>

CodecNext ==
  \/ Handshake
  \/ \E size \in Encoded : SendSamples(size)
  \/ RecvQueued
  \/ RecvFrame

CodecSpec == CodecInit /\ [][CodecNext]_codecVars

-----------------------------------------------------------------------------
Output == played \o plc_queue

\* Concealment keeps time: a frame is never played later than its place in what the
\* sender has captured, counting the frames lost and the ones send_audio refused; and
\* it is played exactly there if no gap was longer than four frames, every frame
\* decoded, and no frame had the number that marks an empty receiver.
KeepsTime ==
  \A i \in 1..Len(Output) : Output[i] # Silence =>
    LET place == Output[i] - first + 1
    IN i <= place /\ (~blemish => i = place)
=============================================================================
