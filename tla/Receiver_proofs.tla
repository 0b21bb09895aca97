-------------------------- MODULE Receiver_proofs --------------------------
(***************************************************************************)
(* Theorems about what a receiver plays: the ring of jitter_buffer.rs, for *)
(* every capacity and number of frames, and the concealment of losses of   *)
(* codec_session.rs, for every modulus of the sequence numbers.            *)
(***************************************************************************)
EXTENDS JitterBuffer, CodecSession, Remainders, SequenceTheorems

-----------------------------------------------------------------------------
(* Concealment *)

Numbered(slot) == (FirstSeq + slot) % SeqMod32

\* Element x at position i of what is played is not late, and without a blemish exact.
InPlace(i, x) ==
  x # Silence => i <= (x - first) + 1 /\ (~blemish => i = (x - first) + 1)

\* The frames that recv_audio will hand out carry the numbers of their slots, in order.
AwaitedInv ==
  /\ calls \in 0..MaxSends /\ audio_tx_seq = Numbered(calls)
  /\ recv_audio \in Seq([seq : Int, slot : Int])
  /\ \A i \in 1..Len(recv_audio) :
       /\ recv_audio[i].slot \in 0..(calls - 1)
       /\ recv_audio[i].seq = Numbered(recv_audio[i].slot)
       /\ \A j \in 1..(i - 1) : recv_audio[j].slot < recv_audio[i].slot

\* The last frame received had slot l, and the playback has come no further than that.
ReceivedUpTo(l) ==
  /\ last_rx_seq = Numbered(l)
  /\ \A i \in 1..Len(recv_audio) : l < recv_audio[i].slot
  /\ Len(played) + Len(plc_queue) <= (l - first) + 1
  /\ ~blemish => Len(played) + Len(plc_queue) = (l - first) + 1

CodecInv ==
  /\ AwaitedInv
  /\ blemish \in BOOLEAN /\ first \in Int
  /\ played \in Seq(Int) /\ plc_queue \in Seq(Int)
  /\ \A i \in 1..Len(played) : InPlace(i, played[i])
  /\ \A i \in 1..Len(plc_queue) : InPlace(Len(played) + i, plc_queue[i])
  /\ first = NotYet => last_rx_seq = NoFrameYet /\ played = <<>> /\ plc_queue = <<>>
  /\ first # NotYet => first \in Nat /\ \E l \in first..(calls - 1) : ReceivedUpTo(l)

LEMMA CodecSizes ==
  /\ SeqMod32 \in Nat \ {0} /\ FirstSeq \in 0..(SeqMod32 - 1) /\ FirstSeq \in Nat
  /\ MaxSends \in Nat /\ MaxSends <= SeqMod32
  BY SMTT(60), CodecAssumption

LEMMA NumberedInt == ASSUME NEW c \in Nat PROVE Numbered(c) \in Int
  BY SMTT(60), CodecSizes, Divided DEF Numbered

LEMMA NextNumber ==
  ASSUME NEW c \in Nat
  PROVE  (Numbered(c) + 1) % SeqMod32 = Numbered(c + 1)
<1>1. FirstSeq + c \in Int /\ 1 \in Int /\ (FirstSeq + c) + 1 = FirstSeq + (c + 1)
  BY CodecSizes
<1>2. (((FirstSeq + c) % SeqMod32) + 1) % SeqMod32 = ((FirstSeq + c) + 1) % SeqMod32
  BY ZenonT(30), <1>1, CodecSizes, RemainderOfSum
<1> QED
  BY ZenonT(30), <1>1, <1>2 DEF Numbered

\* The gap that recv_samples() computes is the number of slots in between.
LEMMA GapIs ==
  ASSUME NEW l \in Nat, NEW f \in Nat, l < f, f < MaxSends, last_rx_seq = Numbered(l)
  PROVE  Gap(Numbered(f)) = IF last_rx_seq = NoFrameYet THEN 0 ELSE (f - l) - 1
<1> PICK a : a = FirstSeq + f
  BY SMTT(60)
<1> PICK b : b = FirstSeq + l
  BY SMTT(60)
<1>1. a \in Int /\ b \in Int /\ a - b \in 0 .. SeqMod32 - 1 /\ a - b = f - l /\ f - l # 0
  BY CodecSizes
<1>2. ((a % SeqMod32) - (b % SeqMod32)) % SeqMod32 = a - b
  BY ZenonT(30), <1>1, CodecSizes, RemainderOfDifference
<1>3. (Numbered(f) - last_rx_seq) % SeqMod32 = f - l
  BY ZenonT(30), <1>1, <1>2 DEF Numbered
<1> QED
  BY ZenonT(30), <1>1, <1>3 DEF Gap

LEMMA CodecInitInv == CodecInit => CodecInv
<1> SUFFICES ASSUME CodecInit PROVE CodecInv
  OBVIOUS
<1>1. Numbered(0) = FirstSeq
  BY CodecSizes DEF Numbered
<1>2. /\ <<>> \in Seq([seq : Int, slot : Int]) /\ <<>> \in Seq(Int) /\ Len(<<>>) = 0
      /\ NotYet \in Int
  BY SMTT(60) DEF NotYet
<1>3. AwaitedInv
  BY SMTT(60), <1>1, <1>2, CodecSizes DEF CodecInit, AwaitedInv
<1>4. /\ played = <<>> /\ plc_queue = <<>> /\ first = NotYet /\ blemish = FALSE
      /\ last_rx_seq = NoFrameYet
  BY Zenon DEF CodecInit
<1>5. Len(played) = 0 /\ Len(plc_queue) = 0
  BY SMTT(60), <1>2, <1>4
<1>6. /\ \A i \in 1..Len(played) : InPlace(i, played[i])
      /\ \A i \in 1..Len(plc_queue) : InPlace(Len(played) + i, plc_queue[i])
  BY SMTT(60), <1>5
<1> QED
  BY ZenonT(30), <1>2, <1>3, <1>4, <1>6 DEF CodecInv

LEMMA SendKeepsOrder ==
  ASSUME CodecInv, NEW size \in Encoded, SendSamples(size)
  PROVE  CodecInv'
<1>1. /\ AwaitedInv /\ blemish \in BOOLEAN /\ first \in Int
      /\ played \in Seq(Int) /\ plc_queue \in Seq(Int)
      /\ \A i \in 1..Len(played) : InPlace(i, played[i])
      /\ \A i \in 1..Len(plc_queue) : InPlace(Len(played) + i, plc_queue[i])
      /\ first = NotYet => last_rx_seq = NoFrameYet /\ played = <<>> /\ plc_queue = <<>>
      /\ first # NotYet => first \in Nat /\ \E l \in first..(calls - 1) : ReceivedUpTo(l)
  BY SMTT(60) DEF CodecInv
<1>2. /\ calls \in 0..MaxSends /\ audio_tx_seq = Numbered(calls)
      /\ recv_audio \in Seq([seq : Int, slot : Int])
      /\ \A i \in 1..Len(recv_audio) :
           /\ recv_audio[i].slot \in 0..(calls - 1)
           /\ recv_audio[i].seq = Numbered(recv_audio[i].slot)
           /\ \A j \in 1..(i - 1) : recv_audio[j].slot < recv_audio[i].slot
  BY SMTT(60), <1>1 DEF AwaitedInv
<1>3. /\ calls < MaxSends /\ calls' = calls + 1
      /\ audio_tx_seq' = (audio_tx_seq + 1) % SeqMod32
      /\ recv_audio' \in {recv_audio, Append(recv_audio, Outgoing)}
      /\ UNCHANGED <<last_rx_seq, plc_queue, played, first, blemish>>
  BY SMTT(60) DEF SendSamples
<1>4. calls' \in 0..MaxSends /\ audio_tx_seq' = Numbered(calls')
  BY SMTT(60), <1>2, <1>3, NextNumber, CodecSizes
<1>5. PICK out : out = Outgoing
  BY SMTT(60)
<1>6. out \in [seq : Int, slot : Int] /\ out.slot = calls /\ out.seq = Numbered(calls)
  BY SMTT(60), <1>2, <1>5, NumberedInt DEF Outgoing
<1> PICK S : S = [seq : Int, slot : Int]
  BY ZenonT(30)
<1>7. /\ Append(recv_audio, out) \in Seq(S)
      /\ Len(Append(recv_audio, out)) = Len(recv_audio) + 1
      /\ \A i \in 1..Len(recv_audio) : Append(recv_audio, out)[i] = recv_audio[i]
      /\ Append(recv_audio, out)[Len(recv_audio) + 1] = out
      /\ Len(recv_audio) \in Nat
  <2>1. recv_audio \in Seq(S) /\ out \in S
    BY ZenonT(30), <1>2, <1>6
  <2> QED
    BY ONLY <2>1, AppendProperties, LenProperties
<1>8. /\ recv_audio' \in Seq([seq : Int, slot : Int]) /\ Len(recv_audio) \in Nat
      /\ \/ recv_audio' = recv_audio
         \/ /\ Len(recv_audio') = Len(recv_audio) + 1
            /\ \A i \in 1..Len(recv_audio) : recv_audio'[i] = recv_audio[i]
            /\ recv_audio'[Len(recv_audio) + 1] = out
  BY ZenonT(30), <1>2, <1>3, <1>5, <1>7
<1>9. AwaitedInv'
  <2>1. ASSUME NEW i \in 1..Len(recv_audio')
        PROVE  /\ recv_audio'[i].slot \in 0..(calls' - 1)
               /\ recv_audio'[i].seq = Numbered(recv_audio'[i].slot)
               /\ \A j \in 1..(i - 1) : recv_audio'[j].slot < recv_audio'[i].slot
    <3>1. CASE recv_audio' = recv_audio \/ i \in 1..Len(recv_audio)
      <4>1. recv_audio'[i] = recv_audio[i] /\ i \in 1..Len(recv_audio)
        BY SMTT(60), <1>8, <3>1
      <4>2. \A j \in 1..(i - 1) : recv_audio'[j] = recv_audio[j]
        BY SMTT(60), <1>8, <4>1
      <4>3. recv_audio'[i].slot \in 0..(calls - 1)
        BY Zenon, <1>2, <4>1
      <4>4. \A j \in 1..(i - 1) : recv_audio[j].slot < recv_audio[i].slot
        BY ZenonT(30), <1>2, <4>1
      <4>5. recv_audio'[i].seq = Numbered(recv_audio'[i].slot)
        BY ZenonT(30), <1>2, <4>1
      <4>6. recv_audio'[i].slot \in 0..(calls' - 1)
        BY SMTT(60), <1>2, <1>3, <4>3
      <4> QED
        BY ZenonT(30), <4>1, <4>2, <4>4, <4>5, <4>6
    <3>2. CASE recv_audio' # recv_audio /\ i \notin 1..Len(recv_audio)
      <4>1. i = Len(recv_audio) + 1 /\ recv_audio'[i] = out
        BY SMTT(60), <1>8, <3>2
      <4>2. \A j \in 1..(i - 1) : j \in 1..Len(recv_audio) /\ recv_audio'[j] = recv_audio[j]
        BY <1>8, <3>2, <4>1
      <4>3. \A j \in 1..(i - 1) : recv_audio'[j].slot < calls
        BY SMTT(60), <1>2, <4>2
      <4> QED
        BY SMTT(60), <1>2, <1>3, <1>6, <4>1, <4>3
    <3> QED
      BY SMTT(60), <3>1, <3>2
  <2> QED
    BY Zenon, <1>4, <1>8, <2>1 DEF AwaitedInv, Numbered
<1>10. ASSUME NEW l \in first..(calls - 1), ReceivedUpTo(l), first \in Nat
       PROVE  ReceivedUpTo(l)' /\ l \in first'..(calls' - 1)
  <2>1. ASSUME NEW i \in 1..Len(recv_audio') PROVE l < recv_audio'[i].slot
    <3>1. \A j \in 1..Len(recv_audio) : l < recv_audio[j].slot
      BY ZenonT(30), <1>10 DEF ReceivedUpTo
    <3>2. CASE i \in 1..Len(recv_audio)
      <4>1. recv_audio'[i] = recv_audio[i]
        BY Zenon, <1>8, <3>2
      <4> QED
        BY SMTT(60), <3>1, <3>2, <4>1
    <3>3. CASE i \notin 1..Len(recv_audio)
      <4>1. recv_audio'[i] = out
        BY SMTT(60), <1>8, <3>3
      <4> QED
        BY SMTT(60), <1>2, <1>6, <1>10, <4>1
    <3> QED
      BY SMTT(60), <3>2, <3>3
  <2> QED
    BY SMTT(60), <1>2, <1>3, <1>10, <2>1 DEF ReceivedUpTo, Numbered
<1>11. \A i, x : InPlace(i, x)' <=> InPlace(i, x)
  BY <1>3 DEF InPlace
<1> QED
  BY SMTT(60), <1>1, <1>3, <1>9, <1>10, <1>11 DEF CodecInv, NoFrameYet, NotYet

LEMMA Moved ==
  ASSUME NEW S, NEW p \in Seq(S), NEW q \in Seq(S), q # <<>>,
         NEW p2, p2 = Append(p, Head(q)), NEW q2, q2 = Tail(q)
  PROVE  /\ p2 \in Seq(S) /\ q2 \in Seq(S) /\ Len(p) \in Nat /\ Len(q2) \in Nat
         /\ Len(p2) = Len(p) + 1 /\ Len(q2) = Len(q) - 1 /\ Len(q) \in Nat \ {0}
         /\ \A i \in 1..Len(p) : p2[i] = p[i]
         /\ p2[Len(p) + 1] = q[1]
         /\ \A i \in 1..Len(q2) : q2[i] = q[i + 1]
<1>1. Head(q) = q[1] /\ Head(q) \in S /\ Len(q) \in Nat \ {0}
  BY SMTT(60), HeadTailProperties, EmptySeq
<1>2. Len(p) \in Nat /\ Len(q2) \in Nat
  BY SMTT(60), HeadTailProperties, LenProperties
<1>3. q2 \in Seq(S) /\ Len(q2) = Len(q) - 1 /\ \A i \in 1..Len(q2) : q2[i] = q[i + 1]
  BY SMTT(60), HeadTailProperties
<1> QED
  BY SMTT(60), <1>1, <1>2, <1>3, AppendProperties

\* The silence of a gap and then the frame.
LEMMA Concealed ==
  ASSUME NEW n \in Nat, NEW x \in Int, NEW out,
         out = [i \in 1..n |-> Silence] \o <<x>>
  PROVE  /\ out \in Seq(Int) /\ out # <<>> /\ Len(out) = n + 1
         /\ \A i \in 1..n : out[i] = Silence
         /\ out[n + 1] = x
<1> PICK s : s = [i \in 1..n |-> Silence]
  BY ZenonT(30)
<1>1. s \in Seq(Int) /\ Len(s) = n /\ \A i \in 1..n : s[i] = Silence
  BY DEF Silence
<1>2. <<x>> \in Seq(Int) /\ Len(<<x>>) = 1 /\ <<x>>[1] = x
  OBVIOUS
<1> QED
  BY SMTT(60), <1>1, <1>2, ConcatProperties, EmptySeq

LEMMA QueuedKeepsTime ==
  ASSUME CodecInv, RecvQueued
  PROVE  CodecInv'
<1>1. /\ AwaitedInv /\ blemish \in BOOLEAN /\ first \in Int
      /\ played \in Seq(Int) /\ plc_queue \in Seq(Int)
      /\ \A i \in 1..Len(played) : InPlace(i, played[i])
      /\ \A i \in 1..Len(plc_queue) : InPlace(Len(played) + i, plc_queue[i])
      /\ first = NotYet => plc_queue = <<>>
      /\ first # NotYet => first \in Nat /\ \E l \in first..(calls - 1) : ReceivedUpTo(l)
  BY SMTT(60) DEF CodecInv
<1>2. /\ plc_queue # <<>>
      /\ played' = Append(played, Head(plc_queue)) /\ plc_queue' = Tail(plc_queue)
      /\ UNCHANGED <<audio_tx_seq, calls, recv_audio, last_rx_seq, first, blemish>>
  BY SMTT(60) DEF RecvQueued
<1>3. /\ played' \in Seq(Int) /\ plc_queue' \in Seq(Int)
      /\ Len(played) \in Nat /\ Len(plc_queue') \in Nat /\ Len(plc_queue) \in Nat \ {0}
      /\ Len(played') = Len(played) + 1 /\ Len(plc_queue') = Len(plc_queue) - 1
      /\ \A i \in 1..Len(played) : played'[i] = played[i]
      /\ played'[Len(played) + 1] = plc_queue[1]
      /\ \A i \in 1..Len(plc_queue') : plc_queue'[i] = plc_queue[i + 1]
  <2>1. played \in Seq(Int) /\ plc_queue \in Seq(Int)
    BY SMTT(60), <1>1
  <2> QED
    BY ONLY SMTT(60), <1>2, <2>1, Moved
<1>4. \A i, x : InPlace(i, x)' <=> InPlace(i, x)
  BY SMTT(60), <1>2 DEF InPlace
<1>5. ASSUME NEW i \in 1..Len(played') PROVE InPlace(i, played'[i])
  <2>1. CASE i \in 1..Len(played)
    BY ZenonT(30), <1>1, <1>3, <2>1
  <2>2. CASE i \notin 1..Len(played)
    <3>1. i = Len(played) + 1 /\ 1 \in 1..Len(plc_queue)
      BY SMTT(60), <1>3, <2>2
    <3> QED
      BY ZenonT(30), <1>1, <1>3, <3>1
  <2> QED
    BY SMTT(60), <2>1, <2>2
<1>6. ASSUME NEW i \in 1..Len(plc_queue') PROVE InPlace(Len(played') + i, plc_queue'[i])
  <2>1. i + 1 \in 1..Len(plc_queue) /\ Len(played') + i = Len(played) + (i + 1)
    BY SMTT(60), <1>3
  <2> QED
    BY ZenonT(30), <1>1, <1>3, <2>1
<1>7. first # NotYet /\ first \in Nat
  BY SMTT(60), <1>1, <1>2
<1>8. PICK l \in first..(calls - 1) : ReceivedUpTo(l)
  BY SMTT(60), <1>1, <1>7
<1>9. Len(played') + Len(plc_queue') = Len(played) + Len(plc_queue)
  BY SMTT(60), <1>3
<1>10. ReceivedUpTo(l)'
  BY SMTT(60), <1>2, <1>8, <1>9 DEF ReceivedUpTo, Numbered
<1>11. AwaitedInv'
  BY ZenonT(30), <1>1, <1>2 DEF AwaitedInv, Numbered
<1>12. first' = first /\ calls' = calls /\ blemish' = blemish /\ NotYet' = NotYet
  BY <1>2 DEF NotYet
<1> QED
  BY Zenon, <1>1, <1>3, <1>4, <1>5, <1>6, <1>7, <1>8, <1>10, <1>11, <1>12 DEF CodecInv

\* What recv_audio hands out next, and what it leaves.
LEMMA HandedOut ==
  ASSUME AwaitedInv, recv_audio # <<>>
  PROVE  /\ Head(recv_audio).slot \in 0..(calls - 1)
         /\ Head(recv_audio).seq = Numbered(Head(recv_audio).slot)
         /\ Head(recv_audio) = recv_audio[1] /\ 1 \in 1..Len(recv_audio)
         /\ \A i \in 1..Len(Tail(recv_audio)) : Head(recv_audio).slot < Tail(recv_audio)[i].slot
         /\ recv_audio' = Tail(recv_audio) /\ UNCHANGED <<calls, audio_tx_seq>> => AwaitedInv'
<1>1. /\ calls \in 0..MaxSends /\ audio_tx_seq = Numbered(calls)
      /\ recv_audio \in Seq([seq : Int, slot : Int])
      /\ \A i \in 1..Len(recv_audio) :
           /\ recv_audio[i].slot \in 0..(calls - 1)
           /\ recv_audio[i].seq = Numbered(recv_audio[i].slot)
           /\ \A j \in 1..(i - 1) : recv_audio[j].slot < recv_audio[i].slot
  BY DEF AwaitedInv
<1> PICK rest : rest = Tail(recv_audio)
  BY Zenon
<1>2. /\ Head(recv_audio) = recv_audio[1] /\ 1 \in 1..Len(recv_audio)
      /\ rest \in Seq([seq : Int, slot : Int]) /\ Len(rest) \in Nat
      /\ Len(rest) = Len(recv_audio) - 1 /\ Len(recv_audio) \in Nat
      /\ \A i \in 1..Len(rest) : rest[i] = recv_audio[i + 1]
  <2> PICK S : S = [seq : Int, slot : Int]
    BY ZenonT(30)
  <2>1. recv_audio \in Seq(S)
    BY Zenon, <1>1
  <2>2. rest = Tail(recv_audio) /\ recv_audio # <<>>
    OBVIOUS
  <2>3. /\ Head(recv_audio) = recv_audio[1] /\ Len(recv_audio) \in Nat \ {0}
        /\ rest \in Seq(S) /\ Len(rest) \in Nat /\ Len(rest) = Len(recv_audio) - 1
        /\ \A i \in 1..Len(rest) : rest[i] = recv_audio[i + 1]
    BY ONLY <2>1, <2>2, HeadTailProperties, LenProperties, EmptySeq
  <2>4. 1 \in 1..Len(recv_audio)
    BY ONLY <2>3
  <2>5. rest \in Seq([seq : Int, slot : Int])
    BY ZenonT(30), <2>3
  <2> QED
    BY ONLY Zenon, <2>3, <2>4, <2>5
<1>3. ASSUME NEW i \in 1..Len(rest)
      PROVE  /\ rest[i].slot \in 0..(calls - 1)
             /\ rest[i].seq = Numbered(rest[i].slot)
             /\ \A j \in 1..(i - 1) : rest[j].slot < rest[i].slot
             /\ recv_audio[1].slot < rest[i].slot
  <2>1. i + 1 \in 1..Len(recv_audio) /\ 1 \in 1..((i + 1) - 1) /\ rest[i] = recv_audio[i + 1]
    BY SMTT(60), <1>2
  <2>2. \A j \in 1..(i - 1) : j + 1 \in 1..((i + 1) - 1) /\ rest[j] = recv_audio[j + 1]
    BY <1>2
  <2> QED
    BY ZenonT(30), <1>1, <2>1, <2>2
<1>4. Head(recv_audio).slot \in 0..(calls - 1) /\ Head(recv_audio).seq = Numbered(Head(recv_audio).slot)
  BY ZenonT(30), <1>1, <1>2
<1>5. ASSUME recv_audio' = rest, UNCHANGED <<calls, audio_tx_seq>> PROVE AwaitedInv'
  BY SMTT(60), <1>1, <1>2, <1>3, <1>5 DEF AwaitedInv, Numbered
<1> QED
  BY Zenon, <1>2, <1>3, <1>4, <1>5

\* The silence and the frame together reach no further than the frame's place.
LEMMA FrameInPlace ==
  ASSUME CodecInv, plc_queue = <<>>, recv_audio # <<>>,
         NEW f, f = Head(recv_audio).slot, NEW gap, gap = Gap(Numbered(f)),
         NEW base, base = IF first = NotYet THEN f ELSE first
  PROVE  /\ f \in 0..(calls - 1) /\ base \in 0..f /\ gap \in Nat /\ SilenceCount(gap) \in Nat
         /\ Len(played) \in Nat /\ (Len(played) + SilenceCount(gap)) + 1 <= (f - base) + 1
         /\ ~blemish /\ gap <= 4 /\ ~(first # NotYet /\ last_rx_seq = NoFrameYet) =>
              (Len(played) + SilenceCount(gap)) + 1 = (f - base) + 1
<1>1. /\ AwaitedInv /\ first \in Int /\ played \in Seq(Int) /\ blemish \in BOOLEAN
      /\ first = NotYet => last_rx_seq = NoFrameYet /\ played = <<>>
      /\ first # NotYet => first \in Nat /\ \E l \in first..(calls - 1) : ReceivedUpTo(l)
  BY SMTT(60) DEF CodecInv
<1>2. f \in 0..(calls - 1) /\ Head(recv_audio) = recv_audio[1] /\ 1 \in 1..Len(recv_audio)
  BY ZenonT(30), <1>1, HandedOut
<1>3. calls \in 0..MaxSends /\ Len(played) \in Nat /\ Len(plc_queue) = 0
  BY <1>1 DEF AwaitedInv
<1>4. CASE first = NotYet
  <2>1. gap = 0 /\ Len(played) = 0
    BY SMTT(60), <1>1, <1>4 DEF Gap
  <2>2. SilenceCount(gap) = 0
    BY SMTT(60), <2>1 DEF SilenceCount
  <2>3. /\ base = f /\ base \in 0..f /\ gap \in Nat /\ SilenceCount(gap) \in Nat
        /\ (Len(played) + SilenceCount(gap)) + 1 = (f - base) + 1
        /\ (Len(played) + SilenceCount(gap)) + 1 <= (f - base) + 1
    BY SMTT(60), <1>2, <1>3, <1>4, <2>1, <2>2
  <2> QED
    BY ZenonT(30), <1>2, <1>3, <2>3
<1>5. CASE first # NotYet
  <2>1. PICK l \in first..(calls - 1) : ReceivedUpTo(l)
    BY SMTT(60), <1>1, <1>5
  <2>2. /\ last_rx_seq = Numbered(l) /\ l < f
        /\ Len(played) <= (l - first) + 1
        /\ ~blemish => Len(played) = (l - first) + 1
    BY SMTT(60), <1>2, <1>3, <2>1 DEF ReceivedUpTo
  <2>3. l \in Nat /\ f \in Nat /\ f < MaxSends /\ first \in Nat /\ first <= l
    BY SMTT(60), <1>1, <1>2, <1>3, <1>5, <2>1, CodecSizes
  <2>4. gap = IF last_rx_seq = NoFrameYet THEN 0 ELSE (f - l) - 1
    BY ZenonT(30), <2>2, <2>3, GapIs
  <2>5. /\ gap \in Nat /\ gap <= (f - l) - 1
        /\ last_rx_seq # NoFrameYet => gap = (f - l) - 1
    BY SMTT(60), <2>2, <2>3, <2>4
  <2>6. /\ SilenceCount(gap) \in Nat /\ SilenceCount(gap) <= gap
        /\ gap <= 4 => SilenceCount(gap) = gap
    BY SMTT(60), <2>5 DEF SilenceCount
  <2>7. base = first
    BY SMTT(60), <1>5
  <2>8. PICK n, sc : n = Len(played) /\ sc = SilenceCount(gap)
    BY ZenonT(30)
  <2>9. /\ n \in Nat /\ sc \in Nat /\ sc <= gap /\ n <= (l - first) + 1
        /\ gap <= 4 => sc = gap
        /\ ~blemish => n = (l - first) + 1
    BY Zenon, <1>3, <2>2, <2>6, <2>8
  <2>10. (n + sc) + 1 <= (f - first) + 1 /\ first \in 0..f
    BY ONLY <2>2, <2>3, <2>5, <2>9
  <2>11. ASSUME ~blemish, gap <= 4, last_rx_seq # NoFrameYet
         PROVE  (n + sc) + 1 = (f - first) + 1
    BY ONLY SMTT(60), <2>3, <2>5, <2>9, <2>11
  <2> QED
    BY ZenonT(30), <1>2, <1>3, <1>5, <2>5, <2>6, <2>7, <2>8, <2>10, <2>11
<1> QED
  BY SMTT(60), <1>4, <1>5

LEMMA FrameKeepsTime ==
  ASSUME CodecInv, RecvFrame
  PROVE  CodecInv'
<1>1. /\ AwaitedInv /\ blemish \in BOOLEAN /\ first \in Int
      /\ played \in Seq(Int) /\ plc_queue \in Seq(Int)
      /\ \A i \in 1..Len(played) : InPlace(i, played[i])
      /\ first = NotYet => played = <<>>
  BY DEF CodecInv
<1>2. PICK f, seq, gap, out :
        /\ f = Head(recv_audio).slot /\ seq = Head(recv_audio).seq /\ gap = Gap(seq)
        /\ out = [i \in 1..SilenceCount(gap) |-> Silence] \o <<f>>
  BY ZenonT(30)
<1>3. PICK decodes \in BOOLEAN :
        /\ plc_queue = <<>> /\ recv_audio # <<>>
        /\ last_rx_seq' = seq /\ recv_audio' = Tail(recv_audio)
        /\ IF decodes THEN played' = Append(played, Head(out)) /\ plc_queue' = Tail(out)
           ELSE UNCHANGED <<played, plc_queue>>
        /\ first' = IF first = NotYet THEN f ELSE first
        /\ blemish' = (blemish \/ ~decodes \/ gap > 4 \/ (first # NotYet /\ last_rx_seq = NoFrameYet))
        /\ UNCHANGED <<audio_tx_seq, calls>>
  BY ZenonT(30), <1>2 DEF RecvFrame
<1>4. /\ seq = Numbered(f) /\ AwaitedInv'
      /\ \A i \in 1..Len(recv_audio') : f < recv_audio'[i].slot
  BY ZenonT(30), <1>1, <1>2, <1>3, HandedOut
<1>5. PICK n, sc, base : n = Len(played) /\ sc = SilenceCount(gap) /\ base = first'
  BY Zenon
<1>6. /\ f \in 0..(calls - 1) /\ base \in 0..f /\ gap \in Nat /\ sc \in Nat
      /\ n \in Nat /\ (n + sc) + 1 <= (f - base) + 1
      /\ ~blemish /\ gap <= 4 /\ ~(first # NotYet /\ last_rx_seq = NoFrameYet) =>
           (n + sc) + 1 = (f - base) + 1
  <2>1. gap = Gap(Numbered(f)) /\ base = IF first = NotYet THEN f ELSE first
    BY ZenonT(30), <1>2, <1>3, <1>4, <1>5
  <2>2. f = Head(recv_audio).slot /\ plc_queue = <<>> /\ recv_audio # <<>>
    BY ZenonT(30), <1>2, <1>3
  <2> QED
    BY ZenonT(30), <1>5, <2>1, <2>2, FrameInPlace
<1>7. (gap > 4 <=> ~(gap <= 4)) /\ f \in Int /\ base \in Nat /\ calls \in Int
  BY SMTT(60), <1>1, <1>6 DEF AwaitedInv
<1>8. ~blemish' => ~blemish /\ decodes /\ (n + sc) + 1 = (f - base) + 1
  BY ZenonT(30), <1>3, <1>6, <1>7
<1>9. blemish' \in BOOLEAN
  BY ZenonT(30), <1>3
<1>10. \A i \in 1..n : LET x == played[i]
                        IN x # Silence => i <= (x - first') + 1 /\ (~blemish' => i = (x - first') + 1)
  <2>1. CASE first = NotYet
    <3>1. n = 0
      BY SMTT(60), <1>1, <1>5, <2>1
    <3> QED
      BY SMTT(60), <3>1
  <2>2. CASE first # NotYet
    BY ZenonT(30), <1>1, <1>3, <1>5, <1>8, <2>2 DEF InPlace
  <2> QED
    BY SMTT(60), <2>1, <2>2
<1>11. /\ out \in Seq(Int) /\ out # <<>> /\ Len(out) = sc + 1
       /\ \A i \in 1..sc : out[i] = Silence
       /\ out[sc + 1] = f
  <2>1. out = [i \in 1..sc |-> Silence] \o <<f>>
    BY ZenonT(30), <1>2, <1>5
  <2> QED
    BY ONLY SMTT(60), <1>6, <1>7, <2>1, Concealed
<1>12. \A i \in 1..(sc + 1) :
         out[i] # Silence => /\ n + i <= (out[i] - first') + 1
                             /\ ~blemish' => n + i = (out[i] - first') + 1
  <2> SUFFICES ASSUME NEW i \in 1..(sc + 1), out[i] # Silence
               PROVE  /\ n + i <= (out[i] - first') + 1
                      /\ ~blemish' => n + i = (out[i] - first') + 1
    BY SMTT(60)
  <2>1. i = sc + 1 /\ out[i] = f
    BY SMTT(60), <1>6, <1>11
  <2>2. n + i = (n + sc) + 1
    BY SMTT(60), <1>6, <2>1
  <2> QED
    BY ZenonT(30), <1>5, <1>6, <1>8, <2>1, <2>2
<1>13. first' # NotYet
  BY SMTT(60), <1>5, <1>6 DEF NotYet
<1>14. ASSUME Len(played') + Len(plc_queue') \in Int,
              Len(played') + Len(plc_queue') <= (f - base) + 1,
              ~blemish' => Len(played') + Len(plc_queue') = (f - base) + 1
       PROVE  first' \in Nat /\ \E l \in first'..(calls' - 1) : ReceivedUpTo(l)'
  <2>1. f \in first'..(calls' - 1) /\ first' \in Nat
    BY SMTT(60), <1>3, <1>5, <1>6, <1>7
  <2>2. last_rx_seq' = Numbered(f)
    BY ZenonT(30), <1>3, <1>4
  <2>3. ReceivedUpTo(f)'
    BY ZenonT(30), <1>4, <1>5, <1>14, <2>2 DEF ReceivedUpTo, Numbered
  <2> QED
    BY SMTT(60), <2>1, <2>3
<1>15. CASE decodes
  <2>1. /\ played' \in Seq(Int) /\ plc_queue' \in Seq(Int)
        /\ Len(played') = n + 1 /\ Len(plc_queue') = sc
        /\ \A i \in 1..n : played'[i] = played[i]
        /\ played'[n + 1] = out[1]
        /\ \A i \in 1..sc : plc_queue'[i] = out[i + 1]
    <3>1. played' = Append(played, Head(out)) /\ plc_queue' = Tail(out) /\ played \in Seq(Int)
      BY ZenonT(30), <1>1, <1>3, <1>15
    <3>2. /\ played' \in Seq(Int) /\ plc_queue' \in Seq(Int)
          /\ Len(played') = n + 1 /\ Len(plc_queue') = Len(out) - 1
          /\ \A i \in 1..n : played'[i] = played[i]
          /\ played'[n + 1] = out[1]
          /\ \A i \in 1..Len(plc_queue') : plc_queue'[i] = out[i + 1]
      BY ONLY SMTT(60), <1>5, <1>11, <3>1, Moved
    <3>3. Len(plc_queue') = sc
      BY ONLY SMTT(60), <1>6, <1>11, <3>2
    <3> QED
      BY ZenonT(30), <3>2, <3>3
  <2>2. ASSUME NEW i \in 1..Len(played') PROVE InPlace(i, played[i])'
    <3>1. CASE i \in 1..n
      BY ZenonT(30), <1>10, <2>1, <3>1 DEF InPlace
    <3>2. CASE i \notin 1..n
      <4>1. i = n + 1 /\ 1 \in 1..(sc + 1)
        BY SMTT(60), <1>6, <2>1, <3>2
      <4> QED
        BY ZenonT(30), <1>12, <2>1, <4>1 DEF InPlace
    <3> QED
      BY SMTT(60), <3>1, <3>2
  <2>3. ASSUME NEW i \in 1..Len(plc_queue') PROVE InPlace(Len(played) + i, plc_queue[i])'
    <3>1. i + 1 \in 1..(sc + 1) /\ Len(played') + i = n + (i + 1) /\ i \in 1..sc
      BY SMTT(60), <1>6, <2>1
    <3> QED
      BY ZenonT(30), <1>12, <2>1, <3>1 DEF InPlace
  <2>4. Len(played') + Len(plc_queue') = (n + sc) + 1
    BY SMTT(60), <1>6, <2>1
  <2>5. first' \in Nat /\ \E l \in first'..(calls' - 1) : ReceivedUpTo(l)'
    BY SMTT(60), <1>6, <1>7, <1>8, <1>14, <2>4
  <2>6. first' \in Int
    BY SMTT(60), <2>5
  <2> QED
    BY ZenonT(30), <1>4, <1>9, <1>13, <2>1, <2>2, <2>3, <2>5, <2>6 DEF CodecInv, NotYet
<1>16. CASE ~decodes
  <2>1. UNCHANGED <<played, plc_queue>> /\ blemish'
    BY ZenonT(30), <1>3, <1>16
  <2>2. Len(plc_queue) = 0 /\ plc_queue = <<>>
    BY SMTT(60), <1>3
  <2>3. ASSUME NEW i \in 1..Len(played') PROVE InPlace(i, played[i])'
    BY ZenonT(30), <1>5, <1>10, <2>1, <2>3 DEF InPlace
  <2>4. Len(played') + Len(plc_queue') <= (f - base) + 1 /\ Len(played') + Len(plc_queue') \in Int
    BY SMTT(60), <1>5, <1>6, <1>7, <2>1, <2>2
  <2>5. first' \in Nat /\ \E l \in first'..(calls' - 1) : ReceivedUpTo(l)'
    BY SMTT(60), <1>14, <2>1, <2>4
  <2>6. first' \in Int /\ \A i \in 1..Len(plc_queue') : InPlace(Len(played) + i, plc_queue[i])'
    BY SMTT(60), <2>1, <2>2, <2>5
  <2> QED
    BY ZenonT(30), <1>1, <1>4, <1>9, <1>13, <2>1, <2>3, <2>5, <2>6 DEF CodecInv, NotYet
<1> QED
  BY SMTT(60), <1>15, <1>16

LEMMA CodecNextInv == CodecInv /\ [CodecNext]_codecVars => CodecInv'
<1> SUFFICES ASSUME CodecInv, [CodecNext]_codecVars PROVE CodecInv'
  OBVIOUS
<1>1. CASE UNCHANGED <<audio_tx_seq, calls, recv_audio, last_rx_seq, plc_queue, played, first,
                       blemish>>
  BY Zenon, <1>1 DEF CodecInv, AwaitedInv, InPlace, ReceivedUpTo, Numbered, NoFrameYet, NotYet, Silence
<1>2. CASE Handshake
  BY ZenonT(30), <1>1, <1>2 DEF Handshake
<1>3. CASE UNCHANGED codecVars
  BY SMTT(60), <1>1, <1>3 DEF codecVars
<1> QED
  BY SMTT(60), <1>2, <1>3, SendKeepsOrder, QueuedKeepsTime, FrameKeepsTime DEF CodecNext

\* Concealment in recv_samples() of codec_session.rs keeps time, for every stream with
\* fewer frames than sequence numbers: nothing is played after its place, and with all
\* gaps short and all frames decoded everything is played exactly there.
THEOREM ConcealmentKeepsTime == CodecSpec => []KeepsTime
<1>1. CodecInv => KeepsTime
  <2> SUFFICES ASSUME CodecInv, NEW i \in 1..Len(Output), Output[i] # Silence
               PROVE  /\ i <= (Output[i] - first) + 1
                      /\ ~blemish => i = (Output[i] - first) + 1
    BY SMTT(60) DEF KeepsTime
  <2>1. /\ played \in Seq(Int) /\ plc_queue \in Seq(Int)
        /\ \A j \in 1..Len(played) : InPlace(j, played[j])
        /\ \A j \in 1..Len(plc_queue) : InPlace(Len(played) + j, plc_queue[j])
    BY SMTT(60) DEF CodecInv
  <2>2. /\ Len(Output) = Len(played) + Len(plc_queue) /\ Len(played) \in Nat /\ Len(plc_queue) \in Nat
        /\ \A j \in 1..(Len(played) + Len(plc_queue)) :
             Output[j] = IF j <= Len(played) THEN played[j] ELSE plc_queue[j - Len(played)]
    BY ONLY SMTT(60), <2>1, ConcatProperties, LenProperties DEF Output
  <2>3. CASE i <= Len(played)
    <3>1. i \in 1..Len(played) /\ Output[i] = played[i]
      BY SMTT(60), <2>2, <2>3
    <3> QED
      BY ZenonT(30), <2>1, <3>1 DEF InPlace
  <2>4. CASE ~(i <= Len(played))
    <3>1. /\ i - Len(played) \in 1..Len(plc_queue) /\ Output[i] = plc_queue[i - Len(played)]
          /\ Len(played) + (i - Len(played)) = i
      BY <2>2, <2>4
    <3> QED
      BY ZenonT(30), <2>1, <3>1 DEF InPlace
  <2> QED
    BY SMTT(60), <2>3, <2>4
<1> QED
  BY <1>1, CodecInitInv, CodecNextInv, PTL DEF CodecSpec

-----------------------------------------------------------------------------
(* The ring *)

USE DEF None

(* Slot indices *)

\* Two different sequences that share a slot are at least a lap apart.
LEMMA LapApart ==
  ASSUME NEW C \in Nat \ {0}, NEW a \in Nat, NEW b \in Nat, a % C = b % C, a < b
  PROVE  a + C <= b
  <1>1. SUFFICES ASSUME b < a + C PROVE FALSE
    OBVIOUS
  <1>2. a \in Int /\ b \in Int /\ a - b < C /\ b - a < C
    BY <1>1
  <1>3. a = b
    BY Zenon, <1>2, SameRemainder
  <1> QED
    BY <1>3

\* Every sequence has a slot.
LEMMA IdxInSlots == \A s \in Nat : Idx(s) \in Slots
  BY CapacityAssumption, Divided DEF Idx, Slots

\* A sequence below n + Capacity that shares the slot of n is not after n.
LEMMA SameSlotNotAfter ==
  ASSUME NEW s \in Nat, NEW n \in Nat, Idx(s) = Idx(n), s < n + Capacity
  PROVE  s <= n
  <1>1. SUFFICES ASSUME n < s PROVE FALSE
    OBVIOUS
  <1>2. n + Capacity <= s
    BY Zenon, <1>1, LapApart, CapacityAssumption DEF Idx
  <1> QED
    BY <1>2, CapacityAssumption

-----------------------------------------------------------------------------
(* The inductive invariant *)

\* The constants are what Init and the steps need them to be.
LEMMA Types ==
  /\ Capacity \in Nat /\ Capacity > 0
  /\ MaxSeq \in Nat
  /\ Frames \subseteq Nat
  /\ \A f \in Frames : f <= MaxSeq /\ f # None /\ Idx(f) \in Slots
  /\ \A f \in 0 .. MaxSeq + 1 : f \in Nat /\ Idx(f) \in Slots
  BY CapacityAssumption, MaxSeqAssumption, IdxInSlots DEF Frames

\* Init establishes the invariant.
LEMMA InitIInv == Init => IInv
  <1> SUFFICES ASSUME Init PROVE IInv
    OBVIOUS
  <1> USE Types DEF Init
  <1>1. TypeOK
    <2>1. 0 \in Frames /\ 0 \in 0 .. MaxSeq + 1
      BY DEF Frames
    <2> QED
      BY Zenon, <2>1 DEF TypeOK
  <1>2. ProducerInv
    BY DEF ProducerInv, Accepted
  <1>3. ConsumerInv
    BY DEF ConsumerInv
  <1>4. SlotInv
    BY DEF SlotInv
  <1> QED
    BY <1>1, <1>2, <1>3, <1>4 DEF IInv

\* Every step of push() keeps it.
LEMMA PushIInv == IInv /\ Push => IInv'
  <1> SUFFICES ASSUME IInv, Push PROVE IInv'
    BY Zenon
  <1> USE Types DEF IInv
  <1>1. ASSUME NEW f \in Frames, PushCall(f) PROVE IInv'
    BY SMTT(60), <1>1 DEF PushCall, TypeOK, ProducerInv, ConsumerInv, SlotInv, Accepted,
                Passed, slotVars, cVars, outVars
  <1>2. CASE PushPrime
    BY SMTT(60), <1>2 DEF PushPrime, TypeOK, ProducerInv, ConsumerInv, SlotInv, Accepted,
                Passed, slotVars, cVars, outVars
  <1>3. CASE PushPrimed
    BY <1>3 DEF PushPrimed, TypeOK, ProducerInv, ConsumerInv, SlotInv, Accepted,
                Passed, InWindow, slotVars, cVars, outVars
  <1>4. CASE PushWindow
    <2>1. TypeOK'
      BY Zenon, <1>4 DEF PushWindow, TypeOK, slotVars, cVars, outVars
    <2>2. ProducerInv'
      BY SMTT(60), <1>4 DEF PushWindow, TypeOK, ProducerInv, Accepted, slotVars, cVars, outVars
    <2>3. ConsumerInv'
      BY Zenon, <1>4 DEF PushWindow, TypeOK, ConsumerInv, slotVars, cVars, outVars
    <2>4. SlotInv'
      <3>1. SUFFICES ASSUME NEW i \in Slots, occupied[i]
                     PROVE  sequence[i] < next_seq + Capacity
        BY <1>4 DEF PushWindow, SlotInv, Passed, slotVars, cVars, outVars
      <3>2. /\ sequence[i] \in Nat /\ loaded \in Nat /\ next_seq \in Nat
            /\ loaded <= next_seq
        BY ZenonT(30), <1>4 DEF PushWindow, TypeOK, ProducerInv
      <3> QED
        BY SMTT(60), <3>1, <3>2 DEF SlotInv
    <2> QED
      BY Zenon, <2>1, <2>2, <2>3, <2>4
  <1>5. CASE PushSlot
    BY SMTT(60), <1>5 DEF PushSlot, TypeOK, ProducerInv, ConsumerInv, SlotInv, Accepted,
                Passed, slotVars, cVars, outVars
  <1>6. CASE PushExisting
    BY SMTT(60), <1>6 DEF PushExisting, TypeOK, ProducerInv, ConsumerInv, SlotInv, Accepted,
                Passed, slotVars, cVars, outVars
  <1>7. CASE PushFrame
    BY SMTT(60), <1>7 DEF PushFrame, TypeOK, ProducerInv, ConsumerInv, SlotInv, Accepted,
                Passed, cVars, outVars
  <1>8. CASE PushSequence
    BY SMTT(60), <1>8 DEF PushSequence, TypeOK, ProducerInv, ConsumerInv, SlotInv, Accepted,
                Passed, cVars, outVars
  <1>9. CASE PushOccupied
    BY SMTT(60), <1>9 DEF PushOccupied, TypeOK, ProducerInv, ConsumerInv, SlotInv, Accepted,
                Passed, InWindow, cVars, outVars
  <1> QED
    BY <1>1, <1>2, <1>3, <1>4, <1>5, <1>6, <1>7, <1>8, <1>9 DEF Push

\* Every step of pop_with_deadline() keeps it.
LEMMA PopIInv == IInv /\ Pop => IInv'
  <1> SUFFICES ASSUME IInv, Pop PROVE IInv'
    OBVIOUS
  <1> USE Types DEF IInv
  <1>0. ASSUME cpc # "idle"
        PROVE  /\ Accepted /\ Idx(pushed) = Idx(cursor) => pushed <= cursor
               /\ \A i \in Slots :
                    occupied[i] /\ i = Idx(cursor) => sequence[i] <= cursor
    <2>1. /\ cursor \in Nat /\ pushed \in Nat /\ loaded \in Nat
          /\ \A i \in Slots : sequence[i] \in Nat
          /\ loaded <= cursor
      BY Zenon, <1>0 DEF TypeOK, ProducerInv, ConsumerInv
    <2>2. Accepted => pushed < loaded + Capacity
      BY <2>1 DEF ProducerInv, InWindow
    <2>3. \A i \in Slots :
            occupied[i] => Idx(sequence[i]) = i /\ sequence[i] < loaded + Capacity
      BY Zenon DEF SlotInv
    <2> QED
      BY <2>1, <2>2, <2>3, SameSlotNotAfter
  <1>1. CASE PopCall
    BY SMTT(60), <1>1 DEF PopCall, TypeOK, ProducerInv, ConsumerInv, SlotInv, Accepted,
                Passed, slotVars, pVars, outVars
  <1>2. CASE PopOccupied
    BY SMTT(60), <1>2 DEF PopOccupied, TypeOK, ProducerInv, ConsumerInv, SlotInv, Accepted,
                Passed, slotVars, pVars, outVars
  <1>3. CASE PopSequence
    BY SMTT(60), <1>3 DEF PopSequence, TypeOK, ProducerInv, ConsumerInv, SlotInv, Accepted,
                Passed, slotVars, pVars, outVars
  <1>4. CASE PopTake
    BY SMTT(60), <1>4, <1>0 DEF PopTake, TypeOK, ProducerInv, ConsumerInv, SlotInv, Accepted,
                Passed, pVars, outVars
  <1>5. CASE PopClear
    BY SMTT(60), <1>5 DEF PopClear, TypeOK, ProducerInv, ConsumerInv, SlotInv, Accepted,
                Passed, pVars, outVars
  <1>6. CASE PopAdvance
    <2>1. TypeOK'
      BY SMTT(60), <1>6 DEF PopAdvance, Return, TypeOK, ConsumerInv, Frames, slotVars, pVars, outVars
    <2>2. ProducerInv'
      BY SMTT(60), <1>6 DEF PopAdvance, TypeOK, ProducerInv, ConsumerInv, Accepted, Passed, slotVars, pVars, outVars
    <2>3. ConsumerInv'
      BY SMTT(60), <1>6 DEF PopAdvance, Return, TypeOK, ConsumerInv, slotVars, pVars, outVars
    <2>4. SlotInv'
      <3>1. SUFFICES ASSUME NEW i \in Slots, occupied[i]
                     PROVE  /\ primed /\ Idx(sequence[i]) = i
                            /\ sequence[i] < loaded + Capacity
                            /\ sequence[i] < cursor + 1 \/ frame[i] = sequence[i]
        BY <1>6 DEF PopAdvance, SlotInv, Passed, slotVars, pVars, outVars
      <3>2. sequence[i] \in Nat /\ cursor \in Nat /\ cursor = next_seq
        BY ZenonT(30), <1>6 DEF PopAdvance, TypeOK, ConsumerInv
      <3> QED
        BY SMTT(60), <3>1, <3>2 DEF SlotInv, Passed
    <2> QED
      BY <2>1, <2>2, <2>3, <2>4
  <1>7. CASE DeadlineNotReached
    BY SMTT(60), <1>7 DEF DeadlineNotReached, TypeOK, ProducerInv, ConsumerInv, SlotInv,
                Accepted, Passed, slotVars, pVars, outVars
  <1>8. CASE SkipOccupied
    BY SMTT(60), <1>8 DEF SkipOccupied, TypeOK, ProducerInv, ConsumerInv, SlotInv, Accepted,
                Passed, pVars, outVars
  <1>9. CASE SkipFrame
    <2>1. TypeOK'
      BY Zenon, <1>9 DEF SkipFrame, TypeOK, pVars, outVars
    <2>2. ProducerInv'
      BY SMTT(60), <1>9, <1>0 DEF SkipFrame, TypeOK, ProducerInv, ConsumerInv, Accepted, Passed, pVars, outVars
    <2>3. ConsumerInv'
      BY Zenon, <1>9 DEF SkipFrame, TypeOK, ConsumerInv, pVars, outVars
    <2>4. SlotInv'
      <3>1. SUFFICES ASSUME NEW i \in Slots, occupied[i]
                     PROVE  /\ primed /\ Idx(sequence[i]) = i
                            /\ sequence[i] < loaded + Capacity
                            /\ \/ sequence[i] < next_seq \/ sequence[i] = cursor
                               \/ frame'[i] = sequence[i]
        BY <1>9 DEF SkipFrame, SlotInv, Passed, pVars, outVars
      <3>2. sequence[i] \in Nat /\ cursor \in Nat /\ cursor = next_seq
        BY ZenonT(30), <1>9 DEF SkipFrame, TypeOK, ConsumerInv
      <3>3. CASE i = Idx(cursor)
        BY SMTT(60), <3>1, <3>2, <3>3, <1>0, <1>9 DEF SkipFrame, SlotInv
      <3>4. CASE i # Idx(cursor)
        BY Zenon, <3>1, <3>2, <3>4, <1>9 DEF SkipFrame, SlotInv, Passed, TypeOK
      <3> QED
        BY Zenon, <3>3, <3>4
    <2> QED
      BY <2>1, <2>2, <2>3, <2>4
  <1>10. CASE SkipAdvance
    <2>1. TypeOK'
      BY SMTT(60), <1>10 DEF SkipAdvance, TypeOK, ConsumerInv, Frames, slotVars, pVars, outVars
    <2>2. ProducerInv'
      BY SMTT(60), <1>10 DEF SkipAdvance, TypeOK, ProducerInv, ConsumerInv, Accepted, Passed, slotVars, pVars, outVars
    <2>3. ConsumerInv'
      BY SMTT(60), <1>10 DEF SkipAdvance, TypeOK, ConsumerInv, slotVars, pVars, outVars
    <2>4. SlotInv'
      <3>1. SUFFICES ASSUME NEW i \in Slots, occupied[i]
                     PROVE  /\ primed /\ Idx(sequence[i]) = i
                            /\ sequence[i] < loaded + Capacity
                            /\ sequence[i] < cursor + 1 \/ frame[i] = sequence[i]
        BY <1>10 DEF SkipAdvance, SlotInv, Passed, slotVars, pVars, outVars
      <3>2. sequence[i] \in Nat /\ cursor \in Nat /\ cursor = next_seq
        BY Zenon, <1>10 DEF SkipAdvance, TypeOK, ConsumerInv
      <3> QED
        BY <3>1, <3>2 DEF SlotInv, Passed
    <2> QED
      BY <2>1, <2>2, <2>3, <2>4
  <1> QED
    BY Zenon, <1>1, <1>2, <1>3, <1>4, <1>5, <1>6, <1>7, <1>8, <1>9, <1>10 DEF Pop

\* The invariant holds in every reachable state of the ring.
LEMMA Invariance == Spec => []IInv
  <1>1. IInv /\ UNCHANGED vars => IInv'
    BY DEF IInv, TypeOK, ProducerInv, ConsumerInv, SlotInv, Accepted, Passed, vars,
           slotVars, pVars, outVars, cVars
  <1>2. IInv /\ [Next]_vars => IInv'
    BY <1>1, PushIInv, PopIInv DEF Next
  <1> QED
    BY <1>2, InitIInv, PTL DEF Spec

-----------------------------------------------------------------------------
(* Theorems *)

\* push() and pop_with_deadline() keep every field in its type, whatever the
\* interleaving of their accesses.
THEOREM TypeCorrect == Spec => []TypeOK
  BY Invariance, PTL DEF IInv

\* pop() never returns a torn frame, for every capacity: what it takes from the
\* slot is the frame of the sequence it waits for.
THEOREM NeverTorn == Spec => []NoTornFrame
  <1>1. IInv => NoTornFrame
    BY DEF IInv, ConsumerInv, NoTornFrame
  <1> QED
    BY <1>1, Invariance, PTL

\* push() rejects a frame of the window for a collision only if the slot holds a
\* sequence the cursor has passed.
THEOREM OnlyPassedCollide == Spec => []CollisionOnlyWithPassed
  <1>1. IInv => CollisionOnlyWithPassed
    <2>1. SUFFICES ASSUME IInv, ppc = "existing", occupied[Idx(pushed)],
                          sequence[Idx(pushed)] # pushed
                   PROVE  sequence[Idx(pushed)] < next_seq
      BY DEF CollisionOnlyWithPassed
    <2> DEFINE old == sequence[Idx(pushed)]
    <2>2. /\ pushed \in Nat /\ loaded \in Nat /\ next_seq \in Nat
          /\ Idx(pushed) \in Slots /\ old \in Nat
      BY ZenonT(30), <2>1, Types DEF IInv, TypeOK
    <2>3. Idx(old) = Idx(pushed) /\ old < loaded + Capacity /\ primed
      BY Zenon, <2>1, <2>2 DEF IInv, SlotInv
    <2>4. loaded <= next_seq /\ loaded <= pushed /\ pushed < loaded + Capacity
      BY <2>1, <2>2, <2>3, Types DEF IInv, ProducerInv, Accepted, InWindow
    <2> HIDE DEF old
    <2>5. old < pushed
      <3>1. SUFFICES ASSUME pushed < old PROVE FALSE
        BY <2>1, <2>2 DEF old
      <3>2. pushed + Capacity <= old
        BY Zenon, <3>1, <2>2, <2>3, LapApart, CapacityAssumption DEF Idx
      <3> QED
        BY <3>2, <2>2, <2>3, <2>4, Types
    <2>6. old + Capacity <= pushed
      BY ZenonT(30), <2>5, <2>2, <2>3, LapApart, CapacityAssumption DEF Idx
    <2> QED
      BY SMTT(60), <2>2, <2>4, <2>6, Types DEF old
  <1> QED
    BY <1>1, Invariance, PTL

\* The ring implements Playout: for every capacity it hands the codec each frame
\* at most once and in order.
THEOREM ImplementsPlayout == Spec => PlaysInOrder
  <1>1. Init => PlayoutSpec!Init
    BY DEF Init, PlayoutSpec!Init
  <1>2. IInv /\ [Next]_vars => [PlayoutSpec!Next]_PlayoutSpec!vars
    <2>1. SUFFICES ASSUME IInv, [Next]_vars, outVars' # outVars PROVE PlayoutSpec!Next
      BY Zenon DEF PlayoutSpec!vars, outVars
    <2>2. PopAdvance
      BY Zenon, <2>1 DEF Next, Push, Pop, vars, PushCall, PushPrime, PushPrimed, PushWindow,
         PushSlot, PushExisting, PushFrame, PushSequence, PushOccupied, PopCall,
         PopOccupied, PopSequence, PopTake, PopClear, DeadlineNotReached,
         SkipOccupied, SkipFrame, SkipAdvance
    <2>3. taken \in Frames /\ last < taken /\ last' = taken /\ turn' = 1 - turn
      BY <2>1, <2>2, Types DEF PopAdvance, Return, IInv, ConsumerInv, TypeOK
    <2> QED
      BY <2>3 DEF PlayoutSpec!Next, PlayoutSpec!Deliver
  <1> QED
    BY <1>1, <1>2, Invariance, PTL DEF Spec, PlaysInOrder, PlayoutSpec!Spec

=============================================================================
