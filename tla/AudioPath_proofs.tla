-------------------------- MODULE AudioPath_proofs --------------------------
(***************************************************************************)
(* The audio path of one session, for every capacity, parity window and    *)
(* modulus that they divide, 2^32 in the code, across the wrap: the ring   *)
(* of the receiving task has no collisions, and what it plays at each      *)
(* position of the stream is the frame sent with that number.              *)
(***************************************************************************)
EXTENDS AudioPath, Remainders, FiniteSetTheorems

-----------------------------------------------------------------------------
(* Slots modulo the wrap *)

Seqs == 0 .. Modulus - 1

LEMMA Sizes ==
  /\ Modulus \in Nat /\ Capacity \in Nat /\ Capacity > 0 /\ 2 * Capacity <= Modulus
  /\ Start \in Nat
  BY AudioAssumption

\* A number and the one that the wrap makes of it have the same slot.
LEMMA SameSlot ==
  ASSUME NEW a \in Nat, a >= Modulus
  PROVE  (a - Modulus) % Capacity = a % Capacity
<1> PICK b : b = a - Modulus
  OBVIOUS
<1>1. Capacity \in Nat \ {0} /\ Modulus \in Int /\ b \in Int /\ a = b + Modulus
  BY Sizes
<1>2. Modulus % Capacity = 0
  BY AudioAssumption
<1>3. (b + Modulus) % Capacity = b % Capacity
  BY Zenon, <1>1, <1>2, RemainderOfShift
<1> QED
  BY Zenon, <1>1, <1>3

LEMMA Wraps ==
  ASSUME NEW a \in Nat, a < 2 * Modulus
  PROVE  Wrap(a) = (IF a < Modulus THEN a ELSE a - Modulus) /\ Wrap(a) \in Seqs
<1>1. Modulus \in Nat \ {0}
  BY Sizes
<1>2. CASE a < Modulus
  <2>1. a = Modulus * 0 + a
    BY <1>1, Z3
  <2>2. a \in 0 .. Modulus - 1 /\ 0 \in Int
    BY <1>1, <1>2
  <2>3. a % Modulus = a
    BY <1>1, <2>1, <2>2, RemainderIs
  <2> QED
    BY <1>2, <2>2, <2>3 DEF Wrap, Seqs
<1>3. CASE a >= Modulus
  <2> PICK b : b = a - Modulus
    OBVIOUS
  <2>1. a = Modulus * 1 + b
    BY <1>1, Z3
  <2>2. b \in 0 .. Modulus - 1 /\ 1 \in Int
    BY <1>1, <1>3
  <2>3. a % Modulus = b
    BY <1>1, <2>1, <2>2, RemainderIs
  <2> QED
    BY <1>1, <1>3, <2>2, <2>3 DEF Wrap, Seqs
<1> QED
  BY <1>1, <1>2, <1>3

\* Two sequences of the window that share a slot are the same.
LEMMA OneOfASlot ==
  ASSUME NEW n \in Seqs, NEW s \in Seqs, NEW t \in Seqs, Idx(s) = Idx(t),
         WrappingSub(s, n) < Capacity, WrappingSub(t, n) < Capacity
  PROVE  s = t
<1> DEFINE x == n + WrappingSub(s, n)
           y == n + WrappingSub(t, n)
<1>1. /\ x \in Nat /\ y \in Nat
      /\ s = (IF x < Modulus THEN x ELSE x - Modulus)
      /\ t = (IF y < Modulus THEN y ELSE y - Modulus)
      /\ x < n + Capacity /\ y < n + Capacity /\ x >= n /\ y >= n
  BY Sizes DEF Seqs, WrappingSub
<1> HIDE DEF x, y
<1>2. x % Capacity = s % Capacity /\ y % Capacity = t % Capacity
  <2>1. Modulus \in Nat
    BY Sizes
  <2>2. x % Capacity = s % Capacity
    BY <1>1, <2>1, SameSlot
  <2>3. y % Capacity = t % Capacity
    BY <1>1, <2>1, SameSlot
  <2> QED
    BY <2>2, <2>3
<1>3. x = y
  <2>1. Capacity \in Nat \ {0} /\ x \in Int /\ y \in Int
    BY <1>1, Sizes
  <2>2. x % Capacity = y % Capacity
    BY <1>2 DEF Idx
  <2>3. x - y < Capacity /\ y - x < Capacity
    BY <1>1, Sizes DEF Seqs
  <2> QED
    BY Zenon, <2>1, <2>2, <2>3, SameRemainder
<1> QED
  BY <1>1, <1>3

-----------------------------------------------------------------------------
(* The inductive invariant *)

\* Every number on the wire is one of the modulus.
WireInv ==
  /\ audio_tx_seq \in Nat
  /\ fec_enc.seq_base \in Seqs
  /\ \A m \in net : m.seq \in Seqs

\* A slot holds a frame of its own index that the cursor reaches within one lap.
SlotInv(i) ==
  slots[i] # Nil =>
    /\ primed /\ slots[i].seq \in Seqs /\ Idx(slots[i].seq) = i
    /\ WrappingSub(slots[i].seq, next_seq) < Capacity

RingInv ==
  /\ next_seq \in Seqs /\ primed \in BOOLEAN
  /\ slots = [i \in 0 .. Capacity - 1 |-> slots[i]]
  /\ \A i \in 0 .. Capacity - 1 : SlotInv(i)

LEMMA IdxInRange == \A s \in Seqs : Idx(s) \in 0 .. Capacity - 1
<1>1. Capacity \in Nat \ {0} /\ Seqs \subseteq Nat
  BY Sizes DEF Seqs
<1> QED
  BY <1>1, Divided DEF Idx

\* push(): the frame is at its index and within the lap; the first one of all is where
\* the cursor starts.
LEMMA PushKeeps ==
  ASSUME RingInv, NEW seq \in Seqs, NEW payload, NEW number, JitterPush(seq, payload, number)
  PROVE  RingInv'
<1>1. primed' = TRUE /\ next_seq' = (IF primed THEN next_seq ELSE seq) /\ next_seq' \in Seqs
  BY DEF JitterPush, RingInv
<1>2. WrappingSub(seq, seq) = 0 /\ 0 < Capacity
  BY Sizes DEF WrappingSub, Seqs
<1>3. Accepts(seq) => WrappingSub(seq, next_seq') < Capacity
  BY <1>1, <1>2 DEF Accepts, RingInv
<1>4. /\ slots' = [i \in 0 .. Capacity - 1 |-> slots'[i]]
      /\ \A i \in 0 .. Capacity - 1 :
           \/ slots'[i] = slots[i]
           \/ i = Idx(seq) /\ Accepts(seq) /\ slots'[i] = [seq |-> seq, payload |-> payload]
  BY Zenon DEF JitterPush, RingInv
<1>5. ASSUME NEW i \in 0 .. Capacity - 1 PROVE SlotInv(i)'
  <2>1. CASE slots'[i] = slots[i]
    BY <1>1, <2>1 DEF RingInv, SlotInv
  <2>2. CASE i = Idx(seq) /\ Accepts(seq) /\ slots'[i] = [seq |-> seq, payload |-> payload]
    <3>1. slots'[i].seq = seq
      BY <2>2
    <3> QED
      BY <1>1, <1>3, <2>2, <3>1 DEF SlotInv, Idx
  <2> QED
    BY <1>4, <2>1, <2>2
<1> QED
  BY <1>1, <1>4, <1>5 DEF RingInv

\* A frame that is not the one at the cursor is nearer when the cursor has moved.
LEMMA OneNearer ==
  ASSUME NEW n \in Seqs
  PROVE  /\ Wrap(n + 1) \in Seqs
         /\ \A s \in Seqs \ {n} :
              WrappingSub(s, n) < Capacity => WrappingSub(s, Wrap(n + 1)) < Capacity
<1> PICK k : k = n + 1
  OBVIOUS
<1>1. k \in Nat /\ k < 2 * Modulus /\ n \in Nat /\ n < Modulus /\ Modulus \in Nat
  BY Sizes DEF Seqs
<1>2. Wrap(k) = (IF k < Modulus THEN k ELSE k - Modulus) /\ Wrap(k) \in Seqs
  BY <1>1, Wraps
<1> PICK w : w = Wrap(k)
  OBVIOUS
<1>3. w = (IF n + 1 < Modulus THEN n + 1 ELSE 0)
  BY <1>1, <1>2
<1>4. \A s \in Seqs \ {n} : WrappingSub(s, n) < Capacity => WrappingSub(s, w) < Capacity
  BY <1>1, <1>3, Sizes DEF WrappingSub, Seqs
<1> QED
  BY <1>2, <1>4

\* pop() and skip(1): the slot at the cursor is emptied, and every other frame is one
\* nearer, also when the cursor wraps.
LEMMA CursorMoves ==
  ASSUME RingInv, primed, primed' = primed,
         slots' = [slots EXCEPT ![Idx(next_seq)] = Nil], next_seq' = Wrap(next_seq + 1)
  PROVE  RingInv'
<1>1. /\ next_seq' \in Seqs
      /\ \A s \in Seqs \ {next_seq} :
           WrappingSub(s, next_seq) < Capacity => WrappingSub(s, next_seq') < Capacity
  BY OneNearer DEF RingInv
<1>2. /\ slots' = [i \in 0 .. Capacity - 1 |-> slots'[i]]
      /\ \A i \in 0 .. Capacity - 1 : slots'[i] = (IF i = Idx(next_seq) THEN Nil ELSE slots[i])
  BY Zenon DEF RingInv
<1>3. ASSUME NEW i \in 0 .. Capacity - 1, slots'[i] # Nil PROVE SlotInv(i)'
  <2> PICK s : s = slots[i].seq
    OBVIOUS
  <2>1. i # Idx(next_seq) /\ slots'[i] = slots[i]
    BY <1>2, <1>3
  <2>2. s \in Seqs /\ Idx(s) = i /\ WrappingSub(s, next_seq) < Capacity
    BY <1>3, <2>1 DEF RingInv, SlotInv
  <2>3. s # next_seq
    BY <2>1, <2>2
  <2>4. WrappingSub(s, next_seq') < Capacity
    BY <1>1, <2>2, <2>3
  <2> QED
    BY <2>1, <2>2, <2>4 DEF SlotInv, Idx
<1> QED
  BY <1>1, <1>2, <1>3 DEF RingInv, SlotInv

LEMMA WireNextInv == WireInv /\ [Next]_vars => WireInv'
<1> SUFFICES ASSUME WireInv, [Next]_vars PROVE WireInv'
  OBVIOUS
<1>1. \A n \in Nat : Wrap(n) \in Seqs
  <2>1. Modulus \in Nat \ {0}
    BY Sizes
  <2> QED
    BY <2>1, Divided DEF Wrap, Seqs
<1>2. ASSUME NEW len \in Lengths, SendAudio(len) PROVE WireInv'
  <2> DEFINE payload == [ids |-> {audio_tx_seq}, len |-> len]
             enc == Pushed(fec_enc, audio_tx_seq, payload)
  <2>1. Wrap(audio_tx_seq) \in Seqs
    BY <1>1 DEF WireInv
  <2>2. enc.seq_base \in Seqs
    BY <2>1 DEF Pushed, WireInv
  <2>3. fec_enc'.seq_base \in Seqs
    BY <1>2, <2>2 DEF SendAudio, Pushed
  <2>4. \A m \in net' : m \in net \/ m.seq \in Seqs
    BY <1>2, <2>1, <2>2 DEF SendAudio
  <2>5. audio_tx_seq' \in Nat
    BY <1>2 DEF SendAudio, WireInv
  <2> QED
    BY <2>3, <2>4, <2>5 DEF WireInv
<1>3. ASSUME NEW len \in Lengths, SendFails(len) PROVE WireInv'
  BY <1>3 DEF SendFails, WireInv
<1>4. ASSUME UNCHANGED <<audio_tx_seq, fec_enc>>, net' \subseteq net PROVE WireInv'
  BY <1>4 DEF WireInv
<1>5. ASSUME NEW m \in net, RecvFrame(m) \/ RecvParity(m) PROVE WireInv'
  BY Zenon, <1>4, <1>5 DEF RecvFrame, RecvParity, Received, sendVars
<1>6. CASE Tick \/ Play \/ Skip \/ SkipBound \/ UNCHANGED vars
  BY <1>4, <1>6 DEF Tick, Play, Skip, SkipBound, vars, sendVars
<1> QED
  BY <1>2, <1>3, <1>5, <1>6 DEF Next

LEMMA RingNextInv == WireInv /\ RingInv /\ [Next]_vars => RingInv'
<1> SUFFICES ASSUME WireInv, RingInv, [Next]_vars PROVE RingInv'
  OBVIOUS
<1>1. ASSUME UNCHANGED <<slots, next_seq, primed>> PROVE RingInv'
  BY <1>1 DEF RingInv, SlotInv
<1>2. ASSUME NEW m \in net, RecvFrame(m) PROVE RingInv'
  <2>1. m.seq \in Seqs /\ JitterPush(m.seq, m.payload, m.number)
    BY <1>2 DEF RecvFrame, WireInv
  <2> QED
    BY <2>1, PushKeeps
<1>3. ASSUME NEW m \in net, RecvParity(m) PROVE RingInv'
  <2>1. CASE UNCHANGED <<slots, next_seq, primed>>
    BY <1>1, <2>1
  <2>2. ASSUME NEW i \in Missing(fec_dec'), NEW payload,
               JitterPush(Wrap(m.seq + i), payload, m.number)
        PROVE  RingInv'
    <3>1. m.seq + i \in Int /\ Modulus \in Nat \ {0}
      BY Sizes, AudioAssumption DEF WireInv, Seqs, Missing
    <3>2. Wrap(m.seq + i) \in Seqs
      BY Zenon, <3>1, Divided DEF Wrap, Seqs
    <3> QED
      BY <2>2, <3>2, PushKeeps
  <2>3. Cardinality(Missing(fec_dec')) = 1 => \E i : i \in Missing(fec_dec')
    BY FS_EmptySet
  <2> QED
    BY <1>3, <2>1, <2>2, <2>3 DEF RecvParity
<1>4. CASE Play
  BY <1>4, CursorMoves DEF Play, Ready
<1>5. CASE Skip
  BY <1>1, <1>5, CursorMoves DEF Skip
<1>6. ASSUME NEW len \in Lengths, SendAudio(len) \/ SendFails(len) PROVE RingInv'
  BY <1>1, <1>6 DEF SendAudio, SendFails, recvVars
<1>7. CASE Tick \/ SkipBound \/ UNCHANGED vars
  BY <1>1, <1>7 DEF Tick, SkipBound, vars, recvVars
<1> QED
  BY <1>2, <1>3, <1>4, <1>5, <1>6, <1>7 DEF Next

LEMMA AudioInitInv == Init => WireInv /\ RingInv
<1>1. 0 \in Seqs
  BY Sizes DEF Seqs
<1> QED
  BY <1>1, Sizes DEF Init, WireInv, RingInv, SlotInv

\* Whatever is lost, repeated, reordered or rebuilt, push() of recv_audio never meets a
\* frame of another number in a slot of its window, for every capacity that divides the
\* modulus of the sequence number and is at most half of it.
THEOREM RingHasNoCollisions == Spec => []NoCollision
<1>1. RingInv => NoCollision
  <2> SUFFICES ASSUME RingInv, primed, NEW d \in 0 .. Capacity - 1, NEW seq,
                      seq = Wrap(next_seq + d), slots[Idx(seq)] # Nil
               PROVE  slots[Idx(seq)].seq = seq
    BY DEF NoCollision
  <2> PICK k : k = next_seq + d
    OBVIOUS
  <2> PICK n : n = next_seq
    OBVIOUS
  <2>1. n \in Seqs /\ k = n + d /\ k \in Nat /\ k < 2 * Modulus /\ Modulus \in Nat
    BY SMTT(60), SMTT(60), Sizes DEF RingInv, Seqs
  <2>2. seq = (IF k < Modulus THEN k ELSE k - Modulus) /\ seq \in Seqs
    BY <2>1, Wraps
  <2>3. WrappingSub(seq, n) < Capacity
    BY <2>1, <2>2, Sizes DEF WrappingSub, Seqs
  <2>4. SlotInv(Idx(seq))
    BY <2>2, IdxInRange DEF RingInv
  <2>5. /\ slots[Idx(seq)].seq \in Seqs /\ Idx(slots[Idx(seq)].seq) = Idx(seq)
        /\ WrappingSub(slots[Idx(seq)].seq, n) < Capacity
    BY <2>4 DEF SlotInv
  <2> QED
    BY <2>1, <2>2, <2>3, <2>5, OneOfASlot
<1> QED
  BY <1>1, AudioInitInv, WireNextInv, RingNextInv, PTL DEF Spec

-----------------------------------------------------------------------------
(* What is played *)

\* A payload that is the frame which travels as seq.
Genuine(seq, payload) ==
  \E k \in DOMAIN sent :
    Wrap(k) = seq /\ payload.ids = {k} /\ payload.len >= sent[k].len

\* The parity of the frames first .. last.
ParityOf(first, last, seq, payload) ==
  /\ first >= Start /\ seq = Wrap(first) /\ payload.ids = first .. last
  /\ \A k \in first .. last : payload.len >= sent[k].len

SentInv ==
  /\ failures \in Nat
  /\ audio_tx_seq \in Start .. MaxFrames
  /\ tx_sequence \in 0 .. 2 * (audio_tx_seq - Start)
  /\ DOMAIN sent = Start .. audio_tx_seq - 1
  /\ \A k \in DOMAIN sent : sent[k].ids = {k} /\ sent[k] \in Payloads

EncInv ==
  /\ fec_enc \in [count : 0 .. Window - 1, seq_base : Seqs, parity_buf : Payloads]
  /\ failures = 0 /\ fec_enc.count > 0 =>
       ParityOf(audio_tx_seq - fec_enc.count, audio_tx_seq - 1, fec_enc.seq_base,
                fec_enc.parity_buf)

DatagramInv(m) ==
  /\ m.number \in DOMAIN sent /\ m.seq \in Seqs /\ m.payload \in Payloads
  /\ m.type = "AudioFrame" => m.seq = Wrap(m.number) /\ m.payload = sent[m.number]
  /\ m.type = "AudioFec" /\ failures = 0 =>
       ParityOf(m.number - Window + 1, m.number, m.seq, m.payload)

SenderInv == SentInv /\ EncInv /\ \A m \in net : DatagramInv(m)

\* A slot of the FEC group that starts at base.
Collected(base, i, payload) ==
  payload # Nil => primed /\ Genuine(Wrap(base + i), payload)

Decoders ==
  [active : BOOLEAN, seq_base : Seqs, received : [0 .. Window - 1 -> Payloads \cup {Nil}]]

DecInv ==
  /\ fec_dec \in Decoders
  /\ \A i \in 0 .. Window - 1 : Collected(fec_dec.seq_base, i, fec_dec.received[i])

FrameInv(i) ==
  slots[i] # Nil =>
    /\ slots[i] \in [seq : Seqs, payload : Payloads]
    /\ failures = 0 => Genuine(slots[i].seq, slots[i].payload)

CursorInv ==
  /\ primed => pos \in Nat /\ pos >= Start /\ next_seq = Wrap(pos)
  /\ primed /\ failures = 0 => pos <= MaxFrames + 1
  /\ primed \in BOOLEAN /\ discarded \in BOOLEAN /\ wait \in 0 .. SkipTicks

PlayedInv ==
  played # Nil /\ failures = 0 =>
    /\ played.number \in DOMAIN sent /\ played.payload.ids = {played.number}
    /\ played.payload.len >= sent[played.number].len

ReceiverInv ==
  /\ DecInv /\ CursorInv /\ PlayedInv
  /\ \A i \in 0 .. Capacity - 1 : FrameInv(i)
StreamInv == SenderInv /\ ReceiverInv

LEMMA Bounds ==
  /\ Start \in Nat /\ MaxFrames \in Nat /\ Start <= MaxFrames
  /\ MaxFrames + 1 < Start + Modulus /\ Modulus \in Nat \ {0}
  /\ Window \in Nat /\ Window >= 2 /\ SkipTicks \in Nat
  BY Sizes, AudioAssumption, StreamAssumption

LEMMA WrapInSeqs == \A n \in Nat : Wrap(n) \in Seqs
  BY Bounds, Divided DEF Wrap, Seqs

\* Two frames of a stream have different sequences.
LEMMA SameNumber ==
  ASSUME NEW a \in Start .. MaxFrames + 1, NEW b \in Start .. MaxFrames + 1,
         Wrap(a) = Wrap(b)
  PROVE  a = b
<1>1. Modulus \in Nat \ {0} /\ a \in Int /\ b \in Int /\ a - b < Modulus /\ b - a < Modulus
  BY Bounds
<1> QED
  BY Zenon, <1>1, SameRemainder DEF Wrap

\* Wrapping twice is wrapping once.
LEMMA WrapSum ==
  ASSUME NEW a \in Nat, NEW d \in Nat
  PROVE  Wrap(Wrap(a) + d) = Wrap(a + d)
<1>1. Modulus \in Nat \ {0} /\ a \in Int /\ d \in Int
  BY Bounds
<1> QED
  BY Zenon, <1>1, RemainderOfSum DEF Wrap

-----------------------------------------------------------------------------
(* The sender *)

\* What was sent stays what it was.
SentGrows ==
  /\ DOMAIN sent \subseteq DOMAIN sent'
  /\ \A k \in DOMAIN sent : sent'[k] = sent[k]

LEMMA GenuineStays ==
  ASSUME SentGrows, NEW seq, NEW payload, Genuine(seq, payload)
  PROVE  Genuine(seq, payload)'
  BY Zenon DEF SentGrows, Genuine

\* The numbering of a frame, by a send that succeeds or fails.
LEMMA NumberTaken ==
  ASSUME SentInv, audio_tx_seq < MaxFrames, NEW len \in Lengths,
         audio_tx_seq' = audio_tx_seq + 1,
         tx_sequence' \in {tx_sequence + 1, tx_sequence + 2}, failures' \in Nat,
         sent' = [k \in DOMAIN sent \cup {audio_tx_seq} |->
                    IF k = audio_tx_seq THEN [ids |-> {k}, len |-> len] ELSE sent[k]]
  PROVE  /\ SentInv' /\ SentGrows
         /\ [ids |-> {audio_tx_seq}, len |-> len] \in Payloads
         /\ sent'[audio_tx_seq] = [ids |-> {audio_tx_seq}, len |-> len]
<1> DEFINE n == audio_tx_seq
           payload == [ids |-> {n}, len |-> len]
<1>1. n \in Start .. MaxFrames - 1 /\ Start \in Nat /\ MaxFrames \in Nat
  BY Bounds DEF SentInv
<1>2. payload \in Payloads
  BY <1>1 DEF Payloads
<1>3. DOMAIN sent' = Start .. audio_tx_seq' - 1
  BY <1>1 DEF SentInv
<1>4. n \notin DOMAIN sent
  BY <1>1 DEF SentInv
<1>5. SentGrows
  BY <1>4 DEF SentGrows
<1>6. sent'[n] = payload
  OBVIOUS
<1>7. \A k \in DOMAIN sent' : sent'[k].ids = {k} /\ sent'[k] \in Payloads
  <2> TAKE k \in DOMAIN sent'
  <2>1. CASE k = n
    BY Zenon, <1>2, <1>6, <2>1
  <2>2. CASE k # n
    <3>1. k \in DOMAIN sent
      BY <2>2
    <3> QED
      BY Zenon, <1>5, <3>1 DEF SentGrows, SentInv
  <2> QED
    BY Zenon, <2>1, <2>2
<1>8. tx_sequence' \in 0 .. 2 * (audio_tx_seq' - Start) /\ audio_tx_seq' \in Start .. MaxFrames
  BY <1>1 DEF SentInv
<1> QED
  BY Zenon, <1>2, <1>3, <1>5, <1>6, <1>7, <1>8 DEF SentInv

\* A datagram on its way stays what it was.
LEMMA DatagramStays ==
  ASSUME SentInv, SentGrows, failures' = 0 => failures = 0, NEW m, DatagramInv(m)
  PROVE  DatagramInv(m)'
<1>1. m.number \in DOMAIN sent' /\ sent'[m.number] = sent[m.number]
  BY DEF DatagramInv, SentGrows
<1>2. ASSUME m.type = "AudioFec", failures' = 0
      PROVE  ParityOf(m.number - Window + 1, m.number, m.seq, m.payload)'
  <2>1. ParityOf(m.number - Window + 1, m.number, m.seq, m.payload)
    BY <1>2 DEF DatagramInv
  <2>2. m.number \in Start .. audio_tx_seq - 1 /\ audio_tx_seq \in Int /\ Start \in Nat
    BY Bounds DEF DatagramInv, SentInv
  <2>3. m.number - Window + 1 .. m.number \subseteq DOMAIN sent
    BY <2>1, <2>2, Bounds DEF ParityOf, SentInv
  <2> QED
    BY <2>1, <2>3 DEF ParityOf, SentGrows
<1> QED
  BY <1>1, <1>2 DEF DatagramInv

LEMMA PayloadParts ==
  \A p \in Payloads : /\ p.ids \subseteq Start .. MaxFrames - 1
                      /\ p.len \in Lengths \cup {0} /\ p.len \in Nat
<1>1. \A p \in Payloads : p.ids \in SUBSET (Start .. MaxFrames - 1) /\ p.len \in Lengths \cup {0}
  BY DEF Payloads
<1>2. Lengths \cup {0} \subseteq Nat
  BY StreamAssumption
<1> QED
  BY <1>1, <1>2

LEMMA OneMore ==
  ASSUME NEW D, NEW x, x \notin D
  PROVE  (D \ {x}) \cup ({x} \ D) = D \cup {x}
  OBVIOUS

\* FecEncoder::push: a parity and the next frame make the parity of one more.
LEMMA ParityGrows ==
  ASSUME SentInv, EncInv, SentInv', SentGrows, audio_tx_seq' = audio_tx_seq + 1,
         NEW n, n = audio_tx_seq, NEW payload \in Payloads, payload.ids = {n},
         sent'[n] = payload, NEW enc, enc = Pushed(fec_enc, n, payload)
  PROVE  /\ enc \in [count : 1 .. Window, seq_base : Seqs, parity_buf : Payloads]
         /\ failures = 0 =>
              ParityOf((n + 1) - enc.count, n, enc.seq_base, enc.parity_buf)'
<1> DEFINE old == fec_enc.parity_buf
           c == fec_enc.count
<1>1. /\ n \in Nat /\ n >= Start /\ Start \in Nat /\ Wrap(n) \in Seqs
      /\ DOMAIN sent = Start .. n - 1
  <2>1. n \in Nat /\ n >= Start /\ Start \in Nat /\ DOMAIN sent = Start .. n - 1
    BY SMTT(60), Bounds DEF SentInv
  <2> QED
    BY <2>1, WrapInSeqs
<1>2. /\ c \in 0 .. Window - 1 /\ fec_enc.seq_base \in Seqs /\ old \in Payloads
      /\ Window \in Nat
  BY Bounds DEF EncInv
<1>3. /\ enc = [count |-> enc.count, seq_base |-> enc.seq_base, parity_buf |-> enc.parity_buf]
      /\ enc.count = c + 1
      /\ enc.seq_base = IF c = 0 THEN Wrap(n) ELSE fec_enc.seq_base
      /\ enc.parity_buf = IF c = 0 THEN payload ELSE Xor(old, payload)
  BY DEF Pushed
<1>4. /\ old.ids \subseteq Start .. MaxFrames - 1 /\ old.len \in Lengths \cup {0}
      /\ payload.ids \subseteq Start .. MaxFrames - 1 /\ payload.len \in Lengths \cup {0}
      /\ old.len \in Nat /\ payload.len \in Nat
  BY Zenon, <1>2, PayloadParts
<1>5. /\ Xor(old, payload).ids = (old.ids \ {n}) \cup ({n} \ old.ids)
      /\ Xor(old, payload).len = Longer(old.len, payload.len)
      /\ Xor(old, payload) \in Payloads
  BY SMTT(60), <1>4 DEF Xor, Payloads, Longer
<1>6. /\ Longer(old.len, payload.len) >= old.len
      /\ Longer(old.len, payload.len) >= payload.len
  BY SMTT(60), <1>4 DEF Longer
<1>7. ASSUME failures = 0
      PROVE  ParityOf((n + 1) - enc.count, n, enc.seq_base, enc.parity_buf)'
  <2> DEFINE first == n - c
  <2>1. (n + 1) - enc.count = first /\ (n + 1) - enc.count \in Int
    BY SMTT(60), <1>1, <1>2, <1>3
  <2>2. CASE c = 0
    <3>1. first = n /\ first .. n = {n}
      BY <1>1, <2>2
    <3>2. enc.parity_buf = payload /\ enc.seq_base = Wrap(n)
      BY <1>3, <2>2
    <3>3. payload.len >= payload.len
      BY <1>4
    <3> QED
      BY Zenon, <1>1, <2>1, <3>1, <3>2, <3>3 DEF ParityOf
  <2>3. CASE c > 0
    <3>1. ParityOf(first, n - 1, fec_enc.seq_base, old)
      BY Zenon, <1>7, <2>3 DEF EncInv
    <3>2. first >= Start /\ first .. n = (first .. n - 1) \cup {n} /\ n \notin first .. n - 1
      BY SMTT(60), <1>1, <1>2, <3>1 DEF ParityOf
    <3>3. enc.parity_buf = Xor(old, payload) /\ enc.seq_base = fec_enc.seq_base
      BY <1>2, <1>3, <2>3
    <3>4. enc.parity_buf.ids = first .. n
      <4>1. old.ids = first .. n - 1
        BY Zenon, <3>1 DEF ParityOf
      <4>2. enc.parity_buf.ids = (old.ids \ {n}) \cup ({n} \ old.ids)
        BY <1>5, <3>3
      <4> PICK D : D = first .. n - 1
        BY Zenon
      <4>3. (D \ {n}) \cup ({n} \ D) = D \cup {n}
        BY <3>2, OneMore
      <4> QED
        BY Zenon, <3>2, <4>1, <4>2, <4>3
    <3>5. \A k \in first .. n - 1 : sent'[k] = sent[k] /\ sent[k].len \in Nat
      <4>1. first .. n - 1 \subseteq DOMAIN sent
        BY SMTT(60), <1>1, <1>2, <3>2
      <4>2. \A k \in DOMAIN sent : sent[k].len \in Nat
        BY Zenon, PayloadParts DEF SentInv
      <4> QED
        BY <4>1, <4>2 DEF SentGrows
    <3>6. \A k \in first .. n - 1 : enc.parity_buf.len >= sent'[k].len
      <4> TAKE k \in first .. n - 1
      <4>1. old.len >= sent[k].len
        BY Zenon, <3>1 DEF ParityOf
      <4>2. enc.parity_buf.len >= old.len /\ enc.parity_buf.len \in Nat
        BY Zenon, <1>4, <1>5, <1>6, <3>3 DEF Longer
      <4> QED
        BY <1>4, <3>5, <4>1, <4>2
    <3>7. enc.parity_buf.len >= sent'[n].len
      BY Zenon, <1>5, <1>6, <3>3
    <3>8. fec_enc.seq_base = Wrap(first)
      BY <3>1 DEF ParityOf
    <3> QED
      BY <2>1, <3>2, <3>3, <3>4, <3>6, <3>7, <3>8 DEF ParityOf
  <2> QED
    BY SMTT(60), <1>2, <2>2, <2>3
<1> QED
  BY SMTT(60), <1>1, <1>2, <1>3, <1>5, <1>7

LEMMA SendKeeps ==
  ASSUME SenderInv, NEW len \in Lengths, SendAudio(len)
  PROVE  SenderInv' /\ SentGrows /\ failures' = failures
<1> PICK n : n = audio_tx_seq
  OBVIOUS
<1> PICK payload : payload = [ids |-> {n}, len |-> len]
  BY Zenon
<1> PICK enc : enc = Pushed(fec_enc, n, payload)
  OBVIOUS
<1> DEFINE full == enc.count >= Window
           frame == [type |-> "AudioFrame", sequence |-> tx_sequence, number |-> n,
                     seq |-> Wrap(n), payload |-> payload]
           parity == [type |-> "AudioFec", sequence |-> tx_sequence + 1, number |-> n,
                      seq |-> enc.seq_base, payload |-> enc.parity_buf]
<1>1. /\ n < MaxFrames /\ audio_tx_seq' = n + 1 /\ failures' = failures
      /\ tx_sequence' = tx_sequence + (IF full THEN 2 ELSE 1)
      /\ fec_enc' = IF full THEN [enc EXCEPT !.count = 0, !.parity_buf = Blank] ELSE enc
      /\ net' = net \cup (IF full THEN {frame, parity} ELSE {frame})
      /\ sent' = [k \in DOMAIN sent \cup {n} |-> IF k = n THEN payload ELSE sent[k]]
  BY DEF SendAudio
<1>2. sent' = [k \in DOMAIN sent \cup {n} |->
                 IF k = n THEN [ids |-> {k}, len |-> len] ELSE sent[k]]
  BY Zenon, <1>1
<1>3. SentInv /\ EncInv /\ failures \in Nat
  BY DEF SenderInv, SentInv
<1>4. SentInv' /\ SentGrows /\ payload \in Payloads /\ sent'[n] = payload
  BY Zenon, <1>1, <1>2, <1>3, NumberTaken
<1>5. /\ enc \in [count : 1 .. Window, seq_base : Seqs, parity_buf : Payloads]
      /\ failures = 0 => ParityOf((n + 1) - enc.count, n, enc.seq_base, enc.parity_buf)'
  BY Zenon, <1>1, <1>3, <1>4, ParityGrows
<1>6. n \in Nat /\ n \in DOMAIN sent' /\ Wrap(n) \in Seqs /\ Window \in Nat /\ Window >= 2
  <2>1. n \in Nat /\ n \in DOMAIN sent'
    BY SMTT(60), <1>1, <1>3, <1>4, Bounds DEF SentInv
  <2> QED
    BY <2>1, Bounds, WrapInSeqs
<1>7. EncInv'
  <2>1. /\ fec_enc' = IF full THEN [enc EXCEPT !.count = 0, !.parity_buf = Blank] ELSE enc
        /\ audio_tx_seq' = n + 1 /\ failures' = failures
    BY Zenon, <1>1
  <2>2. CASE full
    <3>1. fec_enc' = [count |-> 0, seq_base |-> enc.seq_base, parity_buf |-> Blank]
      BY ZenonT(30), <2>1, <2>2 DEF Pushed
    <3>2. Blank \in Payloads /\ enc.seq_base \in Seqs
      BY <1>5 DEF Blank, Payloads
    <3>3. fec_enc' \in [count : 0 .. Window - 1, seq_base : Seqs, parity_buf : Payloads]
      BY <1>6, <3>1, <3>2
    <3> QED
      BY <3>1, <3>3 DEF EncInv
  <2>3. CASE ~full
    <3>1. fec_enc' = enc /\ enc.count \in 1 .. Window
      BY <1>5, <2>1, <2>3
    <3>2. enc.count \in 0 .. Window - 1
      BY <1>6, <2>3, <3>1
    <3>3. enc \in [count : 0 .. Window - 1, seq_base : Seqs, parity_buf : Payloads]
      BY <1>5, <3>2
    <3>4. audio_tx_seq' - 1 = n
      BY <1>6, <2>1
    <3>5. failures' = 0 => ParityOf((n + 1) - enc.count, n, enc.seq_base, enc.parity_buf)'
      BY <1>5, <2>1
    <3>6. /\ audio_tx_seq' - fec_enc'.count = (n + 1) - enc.count
          /\ fec_enc'.seq_base = enc.seq_base /\ fec_enc'.parity_buf = enc.parity_buf
      BY Zenon, <2>1, <3>1
    <3>7. failures' = 0 => ParityOf(audio_tx_seq - fec_enc.count, audio_tx_seq - 1,
                                    fec_enc.seq_base, fec_enc.parity_buf)'
      BY Zenon, <3>4, <3>5, <3>6 DEF ParityOf
    <3> QED
      BY <3>1, <3>3, <3>7 DEF EncInv
  <2> QED
    BY <2>2, <2>3
<1>8. ASSUME NEW m \in net' PROVE DatagramInv(m)'
  <2>1. CASE m \in net
    BY SMTT(60), <1>1, <1>3, <1>4, <2>1, DatagramStays DEF SenderInv
  <2>2. CASE m = frame
    BY <1>4, <1>6, <2>2 DEF DatagramInv
  <2>3. CASE full /\ m = parity
    <3>1. (n + 1) - enc.count = n - Window + 1
      <4>1. enc.count \in 1 .. Window
        BY Zenon, <1>5
      <4> QED
        BY <1>6, <2>3, <4>1
    <3>2. /\ m.type = "AudioFec" /\ m.number = n /\ m.seq = enc.seq_base
          /\ m.payload = enc.parity_buf
      BY <2>3
    <3>3. enc.seq_base \in Seqs /\ enc.parity_buf \in Payloads
      BY <1>5
    <3>4. failures' = 0 => ParityOf(n - Window + 1, n, enc.seq_base, enc.parity_buf)'
      BY Zenon, <1>1, <1>5, <3>1 DEF ParityOf
    <3> QED
      BY ZenonT(30), <1>6, <3>2, <3>3, <3>4 DEF DatagramInv, ParityOf
  <2> QED
    BY <1>1, <2>1, <2>2, <2>3
<1> QED
  BY Zenon, <1>1, <1>4, <1>7, <1>8 DEF SenderInv

LEMMA FailKeeps ==
  ASSUME SenderInv, NEW len \in Lengths, SendFails(len)
  PROVE  SenderInv' /\ SentGrows /\ failures' # 0
<1>1. SentInv /\ EncInv /\ failures \in Nat
  BY DEF SenderInv, SentInv
<1>2. failures' \in Nat /\ failures' # 0
  BY SMTT(60), <1>1 DEF SendFails
<1>3. SentInv' /\ SentGrows
  BY Zenon, <1>1, <1>2, NumberTaken DEF SendFails
<1>4. EncInv'
  BY <1>1, <1>2 DEF EncInv, SendFails
<1>5. \A m \in net' : DatagramInv(m)'
  BY SMTT(60), <1>1, <1>2, <1>3, DatagramStays DEF SenderInv, SendFails
<1> QED
  BY Zenon, <1>2, <1>3, <1>4, <1>5 DEF SenderInv

-----------------------------------------------------------------------------
(* The receiver *)

\* The group that a datagram goes to, the active one or a new one.
LEMMA GroupIsGood ==
  ASSUME DecInv, NEW base \in Seqs, NEW g, g = GroupAt(base)
  PROVE  /\ g \in Decoders /\ g.seq_base = base
         /\ \A i \in 0 .. Window - 1 : Collected(base, i, g.received[i])
<1>1. CASE g = fec_dec /\ fec_dec.seq_base = base
  BY <1>1 DEF DecInv
<1>2. CASE g = Group(base)
  <2>1. g = [active |-> TRUE, seq_base |-> base, received |-> [i \in 0 .. Window - 1 |-> Nil]]
    BY <1>2 DEF Group
  <2>2. [i \in 0 .. Window - 1 |-> Nil] \in [0 .. Window - 1 -> Payloads \cup {Nil}]
    OBVIOUS
  <2>3. \A i \in 0 .. Window - 1 : g.received[i] = Nil
    BY <2>1
  <2> QED
    BY <2>1, <2>2, <2>3 DEF Decoders, Collected
<1> QED
  BY <1>1, <1>2 DEF GroupAt

\* Where push_data puts a frame.
LEMMA GroupBase ==
  ASSUME NEW seq \in Seqs
  PROVE  /\ seq - (seq % Window) \in Seqs
         /\ seq - (seq - (seq % Window)) \in 0 .. Window - 1
         /\ Wrap((seq - (seq % Window)) + (seq - (seq - (seq % Window)))) = seq
<1> DEFINE q == seq \div Window
           r == seq % Window
<1>1. /\ Window \in Nat \ {0} /\ seq \in Nat /\ seq \in Int /\ seq >= 0
      /\ seq < Modulus /\ Modulus \in Nat
  BY Bounds DEF Seqs
<1>2. seq = Window * q + r /\ q \in Nat /\ r \in 0 .. Window - 1
  BY Zenon, <1>1, Divided
<1> HIDE DEF q, r
<1>3. Window * q \in Nat
  BY <1>1, <1>2, Z3
<1>4. seq - r \in Seqs /\ seq - (seq - r) = r /\ (seq - r) + r = seq
  BY <1>1, <1>2, <1>3 DEF Seqs
<1>5. Wrap(seq) = seq
  BY <1>1, Wraps
<1>6. seq - (seq - r) \in 0 .. Window - 1
  BY Zenon, <1>2, <1>4
<1>7. Wrap((seq - r) + (seq - (seq - r))) = seq
  BY Zenon, <1>4, <1>5
<1> QED
  BY Zenon, <1>4, <1>6, <1>7 DEF r

LEMMA DecoderOf ==
  ASSUME NEW a \in BOOLEAN, NEW base \in Seqs,
         NEW r \in [0 .. Window - 1 -> Payloads \cup {Nil}]
  PROVE  [active |-> a, seq_base |-> base, received |-> r] \in Decoders
  BY DEF Decoders

LEMMA DataKeeps ==
  ASSUME DecInv, SentInv, NEW m, DatagramInv(m), m.type = "AudioFrame",
         fec_dec' = PushData(m.seq, m.payload), primed', sent' = sent
  PROVE  DecInv'
<1> PICK base : base = m.seq - (m.seq % Window)
  OBVIOUS
<1> PICK j : j = m.seq - base
  OBVIOUS
<1> PICK g : g = GroupAt(base)
  BY Zenon
<1>1. m.seq \in Seqs /\ m.payload \in Payloads /\ Genuine(m.seq, m.payload)
  <2>1. /\ m.seq \in Seqs /\ m.payload \in Payloads /\ m.number \in DOMAIN sent
        /\ Wrap(m.number) = m.seq /\ m.payload = sent[m.number]
    BY Zenon DEF DatagramInv
  <2>2. m.payload.ids = {m.number}
    BY Zenon, <2>1 DEF SentInv
  <2>3. m.payload.len >= m.payload.len
    BY <2>1, PayloadParts
  <2> QED
    BY Zenon, <2>1, <2>2, <2>3 DEF Genuine
<1>2. base \in Seqs /\ j \in 0 .. Window - 1 /\ Wrap(base + j) = m.seq
  BY ZenonT(30), <1>1, GroupBase
<1>3. /\ g \in Decoders /\ g.seq_base = base
      /\ \A i \in 0 .. Window - 1 : Collected(base, i, g.received[i])
  BY <1>2, GroupIsGood
<1>4. fec_dec' = [g EXCEPT !.received[j] = m.payload]
  BY ZenonT(30) DEF PushData
<1> PICK r : r = [g.received EXCEPT ![j] = m.payload]
  BY ZenonT(30)
<1>5. fec_dec' = [active |-> g.active, seq_base |-> base, received |-> r]
  BY <1>3, <1>4 DEF Decoders
<1>6. /\ r \in [0 .. Window - 1 -> Payloads \cup {Nil}]
      /\ \A i \in 0 .. Window - 1 : r[i] = IF i = j THEN m.payload ELSE g.received[i]
  BY ZenonT(30), <1>1, <1>3 DEF Decoders
<1>7. fec_dec' \in Decoders /\ fec_dec'.seq_base = base /\ fec_dec'.received = r
  <2>1. g.active \in BOOLEAN
    BY <1>3 DEF Decoders
  <2>2. r \in [0 .. Window - 1 -> Payloads \cup {Nil}]
    BY Zenon, <1>6
  <2>3. [active |-> g.active, seq_base |-> base, received |-> r] \in Decoders
    BY ZenonT(30), <1>2, <2>1, <2>2, DecoderOf
  <2> QED
    BY SMTT(60), <1>5, <2>3
<1>8. ASSUME NEW i \in 0 .. Window - 1, r[i] # Nil PROVE Genuine(Wrap(base + i), r[i])'
  <2>1. Genuine(Wrap(base + i), r[i])
    <3>1. CASE i = j
      BY ZenonT(30), <1>1, <1>2, <1>6, <3>1
    <3>2. CASE i # j
      BY SMTT(60), <1>3, <1>6, <1>8, <3>2 DEF Collected
    <3> QED
      BY <3>1, <3>2
  <2> QED
    BY SMTT(60), <2>1, GenuineStays DEF SentGrows
<1>9. \A i \in 0 .. Window - 1 : Collected(base, i, r[i])'
  BY <1>8 DEF Collected
<1> QED
  BY Zenon, <1>7, <1>9 DEF DecInv, Collected

\* push(): a genuine frame enters the ring, and the first of all sets the cursor.
LEMMA PushFrames ==
  ASSUME RingInv, CursorInv, \A i \in 0 .. Capacity - 1 : FrameInv(i),
         NEW seq \in Seqs, NEW payload \in Payloads, NEW number,
         failures = 0 => Genuine(seq, payload),
         ~primed => number \in Start .. MaxFrames + 1 /\ seq = Wrap(number),
         JitterPush(seq, payload, number),
         UNCHANGED <<sent, failures, wait>>
  PROVE  CursorInv' /\ \A i \in 0 .. Capacity - 1 : FrameInv(i)'
<1>1. CursorInv'
  <2>1. /\ primed' = TRUE /\ next_seq' = (IF primed THEN next_seq ELSE seq)
        /\ pos' = (IF primed THEN pos ELSE number) /\ wait' = wait
    BY DEF JitterPush
  <2>2. discarded' \in BOOLEAN
    BY DEF JitterPush, CursorInv
  <2> QED
    BY SMTT(60), <2>1, <2>2, Bounds DEF CursorInv
<1>2. \A i \in 0 .. Capacity - 1 :
        \/ slots'[i] = slots[i]
        \/ slots'[i] = [seq |-> seq, payload |-> payload]
  BY ZenonT(30) DEF JitterPush, RingInv
<1>3. ASSUME NEW i \in 0 .. Capacity - 1 PROVE FrameInv(i)'
  <2>1. CASE slots'[i] = slots[i]
    BY <2>1 DEF FrameInv, Genuine
  <2>2. CASE slots'[i] = [seq |-> seq, payload |-> payload]
    <3>1. /\ slots'[i] \in [seq : Seqs, payload : Payloads]
          /\ slots'[i].seq = seq /\ slots'[i].payload = payload
      BY SMTT(60), <2>2
    <3>2. failures' = 0 => Genuine(seq, payload)'
      BY Zenon DEF Genuine
    <3> QED
      BY Zenon, <3>1, <3>2 DEF FrameInv, Genuine
  <2> QED
    BY SMTT(60), <1>2, <2>1, <2>2
<1> QED
  BY Zenon, <1>1, <1>3

\* push_parity: what is rebuilt is the one frame of the group that is missing.
LEMMA RebuiltIsGenuine ==
  ASSUME SentInv, failures = 0, NEW m, DatagramInv(m), m.type = "AudioFec",
         NEW g, g \in Decoders, \A i \in 0 .. Window - 1 : Collected(m.seq, i, g.received[i]),
         NEW j \in 0 .. Window - 1, Missing(g) = {j}
  PROVE  Genuine(Wrap(m.seq + j), Recovered(g, m.payload))
<1> PICK first : first = m.number - Window + 1
  OBVIOUS
<1> PICK last : last = m.number
  BY Zenon
<1> DEFINE others == {g.received[i] : i \in (0 .. Window - 1) \ Missing(g)}
           all == UNION {p.ids : p \in others}
<1>1. /\ last \in Start .. audio_tx_seq - 1 /\ audio_tx_seq \in Start .. MaxFrames
      /\ DOMAIN sent = Start .. audio_tx_seq - 1
      /\ ParityOf(first, last, m.seq, m.payload)
  BY Zenon DEF SentInv, DatagramInv
<1>2. /\ first \in Nat /\ first >= Start /\ last = first + (Window - 1)
      /\ Window \in Nat /\ Window >= 2 /\ last < MaxFrames /\ last < audio_tx_seq
      /\ Start \in Nat /\ MaxFrames \in Nat /\ audio_tx_seq \in Nat
  <2>1. first >= Start
    BY SMTT(60), <1>1 DEF ParityOf
  <2>2. last \in Nat /\ Window \in Nat /\ first \in Int
    BY <1>1, Bounds
  <2> QED
    BY SMTT(60), <1>1, <2>1, <2>2, Bounds
<1>3. ASSUME NEW i \in 0 .. Window - 1
      PROVE  /\ Wrap(m.seq + i) = Wrap(first + i)
             /\ first + i \in first .. last /\ first + i \in DOMAIN sent
             /\ first + i \in Start .. MaxFrames + 1
  <2>1. i \in Nat
    BY <1>2
  <2>2. m.seq = Wrap(first)
    BY <1>1 DEF ParityOf
  <2>3. Wrap(Wrap(first) + i) = Wrap(first + i)
    BY <1>2, <2>1, WrapSum
  <2>4. /\ first + i \in first .. last /\ first + i \in Start .. audio_tx_seq - 1
        /\ first + i \in Start .. MaxFrames + 1
    BY <1>2
  <2> QED
    BY Zenon, <1>1, <2>2, <2>3, <2>4
<1>4. ASSUME NEW i \in 0 .. Window - 1, i # j PROVE g.received[i].ids = {first + i}
  <2>1. g.received[i] # Nil
    BY <1>4 DEF Missing
  <2>2. Genuine(Wrap(first + i), g.received[i])
    BY ZenonT(30), <1>3, <2>1 DEF Collected
  <2>3. PICK k \in DOMAIN sent : Wrap(k) = Wrap(first + i) /\ g.received[i].ids = {k}
    BY Zenon, <2>2 DEF Genuine
  <2>4. k \in Start .. MaxFrames + 1
    BY SMTT(60), <1>1, <1>2
  <2> PICK n : n = first + i
    BY Zenon
  <2>5. k = n
    BY Zenon, <1>3, <2>3, <2>4, SameNumber
  <2> QED
    BY Zenon, <2>3, <2>5
<1>5. all = {first + i : i \in (0 .. Window - 1) \ {j}}
  BY SMTT(60), <1>4
<1>6. first .. last = {first + i : i \in 0 .. Window - 1}
  <2>1. ASSUME NEW x \in first .. last PROVE \E i \in 0 .. Window - 1 : x = first + i
    <3>1. x - first \in 0 .. Window - 1 /\ x = first + (x - first)
      BY SMTT(60), <1>2
    <3> QED
      BY Zenon, <3>1
  <2> QED
    BY SMTT(60), <1>3, <2>1
<1>7. \A i \in 0 .. Window - 1 : first + i = first + j => i = j
  BY SMTT(60), <1>2
<1>8. all = (first .. last) \ {first + j}
  BY Zenon, <1>5, <1>6, <1>7
<1>9. m.payload.ids = first .. last /\ first + j \in first .. last
  BY Zenon, <1>1, <1>3 DEF ParityOf
<1>10. (m.payload.ids \ all) \cup (all \ m.payload.ids) = {first + j}
  <2> HIDE DEF all
  <2> QED
    BY SMTT(60), <1>8, <1>9
<1>11. Recovered(g, m.payload).ids = {first + j} /\ Recovered(g, m.payload).len = m.payload.len
  BY Zenon, <1>10 DEF Recovered
<1>12. m.payload.len >= sent[first + j].len
  BY Zenon, <1>1, <1>9 DEF ParityOf
<1> QED
  BY Zenon, <1>3, <1>11, <1>12 DEF Genuine

LEMMA RecoveredType ==
  ASSUME NEW g \in Decoders, NEW parity \in Payloads
  PROVE  Recovered(g, parity) \in Payloads
<1> DEFINE others == {g.received[i] : i \in (0 .. Window - 1) \ Missing(g)}
           all == UNION {p.ids : p \in others}
<1>1. others \subseteq Payloads
  BY Zenon DEF Decoders, Missing
<1>2. all \subseteq Start .. MaxFrames - 1
  BY <1>1, PayloadParts
<1>3. /\ Recovered(g, parity) = [ids |-> (parity.ids \ all) \cup (all \ parity.ids),
                                len |-> parity.len]
  BY DEF Recovered
<1> HIDE DEF all
<1>4. (parity.ids \ all) \cup (all \ parity.ids) \subseteq Start .. MaxFrames - 1
  BY ZenonT(30), <1>2, PayloadParts
<1>5. parity.len \in Lengths \cup {0}
  BY PayloadParts
<1> QED
  BY SMTT(60), <1>3, <1>4, <1>5 DEF Payloads

\* The one slot that push_parity finds empty; a frame of the group is then there already.
LEMMA OneMissing ==
  ASSUME NEW g \in Decoders, Cardinality(Missing(g)) = 1,
         NEW seq, \A i \in 0 .. Window - 1 : Collected(seq, i, g.received[i])
  PROVE  /\ (CHOOSE i \in Missing(g) : TRUE) \in 0 .. Window - 1
         /\ Missing(g) = {CHOOSE i \in Missing(g) : TRUE}
         /\ primed
<1>1. Missing(g) \subseteq 0 .. Window - 1 /\ Window \in Nat /\ Window >= 2
  BY Bounds DEF Missing
<1>2. IsFiniteSet(Missing(g))
  <2>1. IsFiniteSet(0 .. Window - 1)
    BY SMTT(60), <1>1, FS_Interval
  <2> QED
    BY <1>1, <2>1, FS_Subset
<1>3. PICK j : Missing(g) = {j}
  BY ZenonT(30), <1>2, FS_Singleton
<1>4. (CHOOSE i \in Missing(g) : TRUE) = j
  BY <1>3
<1>5. PICK i \in 0 .. Window - 1 : i # j
  <2>1. 0 \in 0 .. Window - 1 /\ 1 \in 0 .. Window - 1 /\ 0 # 1
    BY <1>1
  <2> QED
    BY <2>1
<1>6. g.received[i] # Nil
  BY Zenon, <1>3, <1>5 DEF Missing
<1>7. primed
  BY <1>6 DEF Collected
<1> QED
  BY <1>1, <1>3, <1>4, <1>7

\* pop() and skip(1): the cursor goes to the next number, and no frame changes.
LEMMA CursorSteps ==
  ASSUME RingInv, CursorInv, \A i \in 0 .. Capacity - 1 : FrameInv(i),
         primed, failures = 0 => pos <= MaxFrames, pos' = pos + 1, next_seq' = Wrap(next_seq + 1),
         slots' = [slots EXCEPT ![Idx(next_seq)] = Nil], wait' = 0,
         UNCHANGED <<sent, failures, primed, discarded>>
  PROVE  CursorInv' /\ \A i \in 0 .. Capacity - 1 : FrameInv(i)'
<1>1. pos \in Nat /\ pos >= Start /\ next_seq = Wrap(pos)
  BY DEF CursorInv
<1>2. /\ pos + 1 \in Nat /\ pos + 1 >= Start /\ 0 \in 0 .. SkipTicks
      /\ failures = 0 => pos + 1 <= MaxFrames + 1
  BY <1>1, Bounds
<1>3. next_seq' = Wrap(pos')
  <2>1. Wrap(Wrap(pos) + 1) = Wrap(pos + 1)
    BY Zenon, <1>1, WrapSum
  <2> QED
    BY ZenonT(30), <1>1, <2>1
<1>4. CursorInv'
  BY <1>2, <1>3 DEF CursorInv
<1>5. \A i \in 0 .. Capacity - 1 : slots'[i] = slots[i] \/ slots'[i] = Nil
  BY ZenonT(30) DEF RingInv
<1>6. \A i \in 0 .. Capacity - 1 : FrameInv(i)'
  BY <1>5 DEF FrameInv, Genuine
<1> QED
  BY <1>4, <1>6

\* The sender moves: what the receiver has is as genuine as it was.
LEMMA ReceiverStays ==
  ASSUME SentInv, ReceiverInv, SentGrows, failures' = 0 => failures = 0, UNCHANGED recvVars
  PROVE  ReceiverInv'
<1>1. /\ fec_dec' = fec_dec /\ slots' = slots /\ next_seq' = next_seq /\ primed' = primed
      /\ wait' = wait /\ pos' = pos /\ played' = played /\ discarded' = discarded
  BY Zenon DEF recvVars
<1>2. DecInv'
  BY Zenon, <1>1, GenuineStays DEF ReceiverInv, DecInv, Collected
<1>3. CursorInv'
  BY Zenon, <1>1 DEF ReceiverInv, CursorInv
<1>4. PlayedInv'
  BY Zenon, <1>1 DEF ReceiverInv, PlayedInv, SentGrows
<1>5. \A i \in 0 .. Capacity - 1 : FrameInv(i)'
  BY <1>1, GenuineStays DEF ReceiverInv, FrameInv
<1> QED
  BY Zenon, <1>2, <1>3, <1>4, <1>5 DEF ReceiverInv

LEMMA StreamNextInv == StreamInv /\ WireInv /\ RingInv /\ [Next]_vars => StreamInv'
<1> SUFFICES ASSUME StreamInv, WireInv, RingInv, [Next]_vars PROVE StreamInv'
  OBVIOUS
<1>0. /\ SenderInv /\ ReceiverInv /\ SentInv /\ DecInv /\ CursorInv /\ PlayedInv
      /\ \A i \in 0 .. Capacity - 1 : FrameInv(i)
      /\ \A m \in net : DatagramInv(m)
  BY DEF StreamInv, SenderInv, ReceiverInv
<1>1. ASSUME NEW len \in Lengths, SendAudio(len) PROVE StreamInv'
  <2>1. SenderInv' /\ SentGrows /\ failures' = failures
    BY <1>0, <1>1, SendKeeps
  <2>2. UNCHANGED recvVars
    BY <1>1 DEF SendAudio
  <2> QED
    BY Zenon, <1>0, <2>1, <2>2, ReceiverStays DEF StreamInv
<1>2. ASSUME NEW len \in Lengths, SendFails(len) PROVE StreamInv'
  <2>1. SenderInv' /\ SentGrows /\ failures' # 0
    BY Zenon, <1>0, <1>2, FailKeeps
  <2>2. UNCHANGED recvVars
    BY Zenon, <1>2 DEF SendFails
  <2> QED
    BY Zenon, <1>0, <2>1, <2>2, ReceiverStays DEF StreamInv
<1>3. ASSUME UNCHANGED sendVars, net' \subseteq net PROVE SenderInv'
  BY ZenonT(30), <1>0, <1>3 DEF SenderInv, SentInv, EncInv, DatagramInv, ParityOf, sendVars
<1>4. ASSUME UNCHANGED <<sendVars, played>> PROVE PlayedInv'
  BY ZenonT(30), <1>0, <1>4 DEF PlayedInv, sendVars
<1>5. ASSUME UNCHANGED <<sendVars, fec_dec, primed>> PROVE DecInv'
  BY ZenonT(30), <1>0, <1>5 DEF DecInv, Collected, Genuine, sendVars
<1>6. ASSUME NEW m \in net, RecvFrame(m) PROVE StreamInv'
  <2>1. /\ m.type = "AudioFrame" /\ DatagramInv(m) /\ JitterPush(m.seq, m.payload, m.number)
        /\ fec_dec' = PushData(m.seq, m.payload)
        /\ UNCHANGED <<sendVars, wait, played>> /\ net' \subseteq net
    BY Zenon, <1>0, <1>6 DEF RecvFrame, Received
  <2>2. sent' = sent /\ failures' = failures /\ primed'
    BY Zenon, <2>1 DEF JitterPush, sendVars
  <2>3. /\ m.seq \in Seqs /\ m.payload \in Payloads /\ m.number \in DOMAIN sent
        /\ Wrap(m.number) = m.seq /\ m.payload = sent[m.number]
    BY Zenon, <2>1 DEF DatagramInv
  <2>4. m.number \in Start .. MaxFrames + 1
    BY SMTT(60), <1>0, <2>3, Bounds DEF SentInv
  <2>5. Genuine(m.seq, m.payload)
    <3>1. m.payload.ids = {m.number}
      BY Zenon, <1>0, <2>3 DEF SentInv
    <3>2. m.payload.len >= m.payload.len
      BY SMTT(60), <2>3, PayloadParts
    <3> QED
      BY Zenon, <2>3, <3>1, <3>2 DEF Genuine
  <2>6. CursorInv' /\ \A i \in 0 .. Capacity - 1 : FrameInv(i)'
    BY Zenon, <1>0, <2>1, <2>2, <2>3, <2>4, <2>5, PushFrames
  <2>7. DecInv'
    BY Zenon, <1>0, <2>1, <2>2, DataKeeps
  <2> QED
    BY Zenon, <1>3, <1>4, <2>1, <2>6, <2>7 DEF StreamInv, ReceiverInv
<1>7. ASSUME NEW m \in net, RecvParity(m) PROVE StreamInv'
  <2>1. /\ m.type = "AudioFec" /\ DatagramInv(m) /\ fec_dec' = GroupAt(m.seq)
        /\ UNCHANGED <<sendVars, wait, played>> /\ net' \subseteq net
    BY Zenon, <1>0, <1>7 DEF RecvParity, Received
  <2>2. sent' = sent /\ failures' = failures /\ wait' = wait
    BY Zenon, <2>1 DEF sendVars
  <2>3. m.seq \in Seqs /\ m.payload \in Payloads /\ m.seq \in Nat
    BY <2>1 DEF DatagramInv, Seqs
  <2> PICK g : g = fec_dec'
    BY Zenon
  <2>4. /\ g \in Decoders /\ g.seq_base = m.seq
        /\ \A i \in 0 .. Window - 1 : Collected(m.seq, i, g.received[i])
    BY Zenon, <1>0, <2>1, <2>3, GroupIsGood
  <2>5. DecInv' \/ (primed /\ ~primed')
    <3>1. \A i \in 0 .. Window - 1 : (primed => primed') => Collected(m.seq, i, g.received[i])'
      BY ZenonT(30), <2>2, <2>4 DEF Collected, Genuine
    <3> QED
      BY ZenonT(30), <2>4, <3>1 DEF DecInv, Collected
  <2>6. CASE UNCHANGED <<slots, next_seq, primed, pos, discarded>>
    <3>1. CursorInv'
      BY Zenon, <1>0, <2>2, <2>6 DEF CursorInv
    <3>2. \A i \in 0 .. Capacity - 1 : FrameInv(i)'
      BY Zenon, <1>0, <2>2, <2>6 DEF FrameInv, Genuine
    <3> QED
      BY SMTT(60), <1>3, <1>4, <2>1, <2>5, <2>6, <3>1, <3>2 DEF StreamInv, ReceiverInv
  <2>7. ASSUME Cardinality(Missing(g)) = 1, NEW j, j = CHOOSE i \in Missing(g) : TRUE,
               JitterPush(Wrap(m.seq + j), Recovered(g, m.payload), m.number)
        PROVE  StreamInv'
    <3>1. j \in 0 .. Window - 1 /\ Missing(g) = {j} /\ primed
      BY Zenon, <2>4, <2>7, OneMissing
    <3>2. primed'
      BY <2>7 DEF JitterPush
    <3>3. m.seq + j \in Nat
      BY <2>3, <3>1, Bounds
    <3>4. Wrap(m.seq + j) \in Seqs
      BY Zenon, <3>3, WrapInSeqs
    <3>5. Recovered(g, m.payload) \in Payloads
      BY Zenon, <2>3, <2>4, RecoveredType
    <3>6. failures = 0 => Genuine(Wrap(m.seq + j), Recovered(g, m.payload))
      BY Zenon, <1>0, <2>1, <2>4, <3>1, RebuiltIsGenuine
    <3>7. CursorInv' /\ \A i \in 0 .. Capacity - 1 : FrameInv(i)'
      BY Zenon, <1>0, <2>2, <2>7, <3>1, <3>4, <3>5, <3>6, PushFrames
    <3> QED
      BY SMTT(60), <1>3, <1>4, <2>1, <2>5, <3>2, <3>7 DEF StreamInv, ReceiverInv
  <2> QED
    BY Zenon, <1>7, <2>6, <2>7 DEF RecvParity
<1>8. CASE Play
  <2>1. /\ primed /\ slots[Idx(next_seq)] # Nil /\ slots[Idx(next_seq)].seq = next_seq
        /\ played' = [number |-> pos, payload |-> slots[Idx(next_seq)].payload]
        /\ slots' = [slots EXCEPT ![Idx(next_seq)] = Nil]
        /\ next_seq' = Wrap(next_seq + 1) /\ pos' = pos + 1 /\ wait' = 0
        /\ UNCHANGED <<sendVars, net, fec_dec, primed, discarded>>
    BY ZenonT(30), <1>8 DEF Play, Ready
  <2>2. sent' = sent /\ failures' = failures
    BY <2>1 DEF sendVars
  <2> PICK f : f = slots[Idx(next_seq)]
    OBVIOUS
  <2>3. Idx(next_seq) \in 0 .. Capacity - 1
    BY Zenon, IdxInRange DEF RingInv
  <2>4. /\ pos \in Nat /\ pos >= Start /\ f.seq = Wrap(pos)
        /\ failures = 0 => pos \in Start .. MaxFrames + 1
    BY SMTT(60), <1>0, <2>1, Bounds DEF CursorInv
  <2>5. failures = 0 => Genuine(f.seq, f.payload)
    BY Zenon, <1>0, <2>1, <2>3 DEF FrameInv
  <2>6. failures = 0 => /\ pos \in DOMAIN sent /\ f.payload.ids = {pos}
                        /\ f.payload.len >= sent[pos].len
    <3> SUFFICES ASSUME failures = 0
                 PROVE  /\ pos \in DOMAIN sent /\ f.payload.ids = {pos}
                        /\ f.payload.len >= sent[pos].len
      BY Zenon
    <3>1. PICK k \in DOMAIN sent : /\ Wrap(k) = f.seq /\ f.payload.ids = {k}
                                  /\ f.payload.len >= sent[k].len
      BY Zenon, <2>5 DEF Genuine
    <3>2. k \in Start .. MaxFrames + 1
      BY SMTT(60), <1>0, Bounds DEF SentInv
    <3>3. k = pos
      BY Zenon, <2>4, <3>1, <3>2, SameNumber
    <3> QED
      BY Zenon, <3>1, <3>3
  <2>7. PlayedInv'
    BY ZenonT(30), <2>1, <2>2, <2>6 DEF PlayedInv
  <2>8. failures = 0 => pos <= MaxFrames
    BY SMTT(60), <1>0, <2>6, Bounds DEF SentInv
  <2>9. CursorInv' /\ \A i \in 0 .. Capacity - 1 : FrameInv(i)'
    BY ZenonT(30), <1>0, <2>1, <2>2, <2>8, CursorSteps
  <2> QED
    BY ZenonT(30), <1>3, <1>5, <2>1, <2>7, <2>9 DEF StreamInv, ReceiverInv
<1>9. CASE Skip
  <2>1. CASE primed
    <3>1. CursorInv' /\ \A i \in 0 .. Capacity - 1 : FrameInv(i)'
      BY Zenon, <1>0, <1>9, <2>1, CursorSteps DEF Skip, sendVars
    <3> QED
      BY Zenon, <1>3, <1>4, <1>5, <1>9, <3>1 DEF Skip, StreamInv, ReceiverInv
  <2>2. CASE ~primed
    <3>1. CursorInv'
      BY SMTT(60), <1>0, <1>9, <2>2, Bounds DEF Skip, CursorInv
    <3>2. \A i \in 0 .. Capacity - 1 : FrameInv(i)'
      BY Zenon, <1>0, <1>9, <2>2 DEF Skip, FrameInv, Genuine, sendVars
    <3> QED
      BY Zenon, <1>3, <1>4, <1>5, <1>9, <3>1, <3>2 DEF Skip, StreamInv, ReceiverInv
  <2> QED
    BY Zenon, <2>1, <2>2
<1>10. CASE Tick
  <2>1. CursorInv'
    BY SMTT(60), <1>0, <1>10, Bounds DEF Tick, Waiting, CursorInv, sendVars
  <2>2. \A i \in 0 .. Capacity - 1 : FrameInv(i)'
    BY Zenon, <1>0, <1>10 DEF Tick, FrameInv, Genuine, sendVars
  <2> QED
    BY SMTT(60), <1>3, <1>4, <1>5, <1>10, <2>1, <2>2 DEF Tick, StreamInv, ReceiverInv
<1>11. CASE SkipBound \/ UNCHANGED vars
  <2>1. UNCHANGED <<sendVars, recvVars>> /\ net' = net
    BY <1>11 DEF SkipBound, vars
  <2>2. SentGrows /\ failures' = failures
    BY <2>1 DEF SentGrows, sendVars
  <2> QED
    BY Zenon, <1>0, <1>3, <2>1, <2>2, ReceiverStays DEF StreamInv
<1> QED
  BY Zenon, <1>1, <1>2, <1>6, <1>7, <1>8, <1>9, <1>10, <1>11 DEF Next

LEMMA StreamInitInv == Init => StreamInv
<1> SUFFICES ASSUME Init PROVE StreamInv
  BY ZenonT(30)
<1>1. 0 \in Seqs /\ Blank \in Payloads /\ 0 \in 0 .. Window - 1 /\ Window \in Nat
  BY SMTT(60), Bounds DEF Seqs, Blank, Payloads
<1>2. SentInv /\ DOMAIN sent = {}
  <2>1. DOMAIN sent = {} /\ Start .. Start - 1 = {}
    BY SMTT(60), Bounds DEF Init
  <2> QED
    BY SMTT(60), <2>1, Bounds DEF Init, SentInv
<1>3. EncInv
  BY SMTT(60), <1>1 DEF Init, EncInv
<1>4. DecInv
  <2> PICK r : r = [i \in 0 .. Window - 1 |-> Nil]
    BY Zenon
  <2>1. r \in [0 .. Window - 1 -> Payloads \cup {Nil}] /\ \A i \in 0 .. Window - 1 : r[i] = Nil
    OBVIOUS
  <2>2. fec_dec = [active |-> FALSE, seq_base |-> 0, received |-> r]
    BY DEF Init
  <2>3. [active |-> FALSE, seq_base |-> 0, received |-> r] \in Decoders
    BY Zenon, <1>1, <2>1, DecoderOf
  <2> QED
    BY <2>1, <2>2, <2>3 DEF DecInv, Collected
<1>5. CursorInv /\ PlayedInv
  <2>1. primed = FALSE /\ wait = 0 /\ discarded = FALSE /\ played = Nil
    BY DEF Init
  <2>2. 0 \in 0 .. SkipTicks
    BY SMTT(60), Bounds
  <2> QED
    BY Zenon, <2>1, <2>2 DEF CursorInv, PlayedInv
<1>6. \A i \in 0 .. Capacity - 1 : FrameInv(i)
  BY Zenon DEF Init, FrameInv
<1>7. net = {}
  BY DEF Init
<1> QED
  BY Zenon, <1>2, <1>3, <1>4, <1>5, <1>6, <1>7 DEF StreamInv, SenderInv, ReceiverInv

\* Whatever the network and the two tasks do, the counters, the two FEC groups, the ring
\* and the deadline keep their types.
THEOREM AudioTypeCorrect == Spec => []TypeOK
<1>1. StreamInv /\ RingInv => TypeOK
  <2> SUFFICES ASSUME StreamInv, RingInv PROVE TypeOK
    OBVIOUS
  <2>1. /\ SentInv /\ EncInv /\ DecInv /\ CursorInv
        /\ \A i \in 0 .. Capacity - 1 : FrameInv(i)
    BY Zenon DEF StreamInv, SenderInv, ReceiverInv
  <2>2. audio_tx_seq \in Start .. MaxFrames /\ tx_sequence \in 0 .. 2 * MaxFrames
    BY SMTT(60), <2>1, Bounds DEF SentInv
  <2>3. fec_enc.count \in 0 .. Window - 1 /\ fec_enc.parity_buf \in Payloads
    BY <2>1 DEF EncInv
  <2>4. fec_dec.received \in [0 .. Window - 1 -> Payloads \cup {Nil}]
    BY <2>1 DEF DecInv, Decoders
  <2>5. slots \in [0 .. Capacity - 1 -> [seq : 0 .. Modulus - 1, payload : Payloads] \cup {Nil}]
    BY Zenon, <2>1 DEF RingInv, FrameInv, Seqs
  <2>6. next_seq \in 0 .. Modulus - 1
    BY DEF RingInv, Seqs
  <2> QED
    BY Zenon, <2>1, <2>2, <2>3, <2>4, <2>5, <2>6 DEF TypeOK, CursorInv
<1> QED
  BY <1>1, AudioInitInv, WireNextInv, RingNextInv, StreamInitInv, StreamNextInv, PTL DEF Spec

\* While no send has failed, recv_audio plays at each position of the stream the frame
\* that was sent with that number, for every capacity, parity window and modulus, and for
\* every loss, repetition and reordering of the datagrams.
THEOREM PlaysWhatWasSent == Spec => []PlaysTheFrameSent
<1>1. StreamInv => PlaysTheFrameSent
  BY DEF StreamInv, ReceiverInv, PlayedInv, PlaysTheFrameSent
<1> QED
  BY <1>1, AudioInitInv, WireNextInv, RingNextInv, StreamInitInv, StreamNextInv, PTL DEF Spec
=============================================================================
