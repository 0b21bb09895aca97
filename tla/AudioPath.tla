----------------------------- MODULE AudioPath -----------------------------
(***************************************************************************)
(* One direction of an Active session's audio: send_audio with its XOR     *)
(* forward error correction (fec.rs), the network, and recv_audio, which   *)
(* feeds the FEC decoder and the jitter buffer and plays out of it, with   *)
(* the skip of a gap after a deadline.  recv_audio is one task, so push,   *)
(* pop and skip of the jitter buffer are single steps here; JitterBuffer   *)
(* has their interleavings.                                                *)
(*                                                                         *)
(* Frames are numbered 0, 1, 2, ...; frame n travels as the u32 sequence   *)
(* n % Modulus.  A payload is the set of frames XORed into it, {n} for     *)
(* frame n itself, with its length: XOR is symmetric difference.           *)
(***************************************************************************)
EXTENDS Integers, FiniteSets

CONSTANTS
  Modulus,      \* 2^32 in the code
  Capacity,     \* slots of the jitter buffer
  Window,       \* frames of a parity group (FEC_WINDOW)
  SkipTicks,    \* recv timeouts (one per frame duration) until the deadline
  Lengths,      \* payload lengths the codec produces
  Perfect,      \* does the network lose, repeat, reorder and delay nothing?
  Start,        \* frames sent before the first one that arrives
  MaxFrames,    \* bound: frames Start .. MaxFrames - 1 are sent
  MaxFailures,  \* bound on send errors of the socket
  MaxLag,       \* bound: a datagram arrives before that many more are sent
  Nil

ASSUME AudioAssumption ==
  /\ Modulus \in Nat /\ Capacity \in Nat \ {0} /\ Window \in Nat \ {0, 1}
  /\ Modulus % Capacity = 0 /\ Modulus % Window = 0
  /\ 2 * Capacity <= Modulus
  /\ Start \in Nat /\ Start % Window = 0 /\ Start <= MaxFrames
  /\ Perfect \in BOOLEAN

\* A stream has fewer frames than there are sequence numbers.
ASSUME StreamAssumption ==
  /\ Lengths \subseteq Nat /\ SkipTicks \in Nat
  /\ MaxFrames \in Nat /\ MaxFrames + 1 < Start + Modulus

VARIABLES
  audio_tx_seq, tx_sequence,   \* frames numbered, datagrams numbered
  fec_enc,                     \* FecEncoder: count, seq_base, parity_buf
  failures,                    \* send errors so far
  net,                         \* datagrams on the network
  fec_dec,                     \* FecDecoder: active, seq_base, received
  slots, next_seq, primed,     \* JitterBuffer
  wait,                        \* time recv_audio has waited, in ticks
  sent,                        \* history: the payload of each frame
  pos,                         \* history: the number of the frame at the cursor
  played,                      \* history: the last frame played, with its number
  discarded                    \* history: did a frame newer than `played` arrive too late?

sendVars == <<audio_tx_seq, tx_sequence, fec_enc, failures, sent>>
recvVars == <<fec_dec, slots, next_seq, primed, wait, pos, played, discarded>>
vars == <<sendVars, net, recvVars>>

-----------------------------------------------------------------------------
(* Payloads and u32 arithmetic *)

\* Mutant: the sequence does not wrap.
WrapNever(n) == n

Wrap(n) == n % Modulus

WrappingSub(a, b) == IF a >= b THEN a - b ELSE a - b + Modulus
Idx(s) == s % Capacity

Longer(m, n) == IF m >= n THEN m ELSE n

\* xor_into, into an accumulator grown to the longer of the two
Xor(p, q) == [ids |-> (p.ids \ q.ids) \cup (q.ids \ p.ids), len |-> Longer(p.len, q.len)]

Blank == [ids |-> {}, len |-> 0]

Init ==
  /\ audio_tx_seq = Start
  /\ tx_sequence = 0
  /\ fec_enc = [count |-> 0, seq_base |-> 0, parity_buf |-> Blank]
  /\ failures = 0
  /\ net = {}
  /\ fec_dec = [active |-> FALSE, seq_base |-> 0, received |-> [i \in 0 .. Window - 1 |-> Nil]]
  /\ slots = [i \in 0 .. Capacity - 1 |-> Nil]
  /\ next_seq = 0
  /\ primed = FALSE
  /\ wait = 0
  /\ sent = [n \in {} |-> Blank]
  /\ pos = 0
  /\ played = Nil
  /\ discarded = FALSE

-----------------------------------------------------------------------------
(* send_audio *)

\* FecEncoder::push, for frame n: the group so far.
Pushed(enc, n, payload) ==
  [count |-> enc.count + 1,
   seq_base |-> IF enc.count = 0 THEN Wrap(n) ELSE enc.seq_base,
   parity_buf |-> IF enc.count = 0 THEN payload ELSE Xor(enc.parity_buf, payload)]

\* The frame takes its numbers, goes out, and only then enters the FEC group; a
\* full group goes out as a parity datagram.
SendAudio(len) ==
  LET n == audio_tx_seq
      payload == [ids |-> {n}, len |-> len]
      enc == Pushed(fec_enc, n, payload)
      full == enc.count >= Window
      frame == [type |-> "AudioFrame", sequence |-> tx_sequence, number |-> n,
                seq |-> Wrap(n), payload |-> payload]
      parity == [type |-> "AudioFec", sequence |-> tx_sequence + 1, number |-> n,
                 seq |-> enc.seq_base, payload |-> enc.parity_buf]
  IN /\ n < MaxFrames   \* bound
     /\ audio_tx_seq' = n + 1
     /\ tx_sequence' = tx_sequence + (IF full THEN 2 ELSE 1)
     /\ fec_enc' = IF full THEN [enc EXCEPT !.count = 0, !.parity_buf = Blank] ELSE enc
     /\ net' = net \cup (IF full THEN {frame, parity} ELSE {frame})
     /\ sent' = [k \in DOMAIN sent \cup {n} |-> IF k = n THEN payload ELSE sent[k]]
     /\ UNCHANGED <<failures, recvVars>>

\* send_to fails: the numbers are spent, the FEC encoder never sees the frame.
SendFails(len) ==
  /\ audio_tx_seq < MaxFrames /\ failures < MaxFailures   \* bounds
  /\ audio_tx_seq' = audio_tx_seq + 1
  /\ tx_sequence' = tx_sequence + 1
  /\ failures' = failures + 1
  /\ sent' = [k \in DOMAIN sent \cup {audio_tx_seq} |->
                IF k = audio_tx_seq THEN [ids |-> {k}, len |-> len] ELSE sent[k]]
  /\ UNCHANGED <<fec_enc, net, recvVars>>

-----------------------------------------------------------------------------
(* JitterBuffer, used by one task *)

\* pop() would return a frame.
Ready == primed /\ slots[Idx(next_seq)] # Nil /\ slots[Idx(next_seq)].seq = next_seq

\* Mutant: the window one slot too wide.
AcceptsOneMore(seq) ==
  \/ ~primed
  \/ /\ WrappingSub(seq, next_seq) <= Capacity
     /\ slots[Idx(seq)] # Nil => slots[Idx(seq)].seq = seq

\* push() accepts: the window, then the collision check.
Accepts(seq) ==
  \/ ~primed
  \/ /\ WrappingSub(seq, next_seq) < Capacity
     /\ slots[Idx(seq)] # Nil => slots[Idx(seq)].seq = seq

TooOld(seq) == primed /\ WrappingSub(seq, next_seq) > Modulus \div 2

JitterPush(seq, payload, number) ==
  /\ IF Accepts(seq)
     THEN slots' = [slots EXCEPT ![Idx(seq)] = [seq |-> seq, payload |-> payload]]
     ELSE UNCHANGED slots
  /\ primed' = TRUE
  /\ next_seq' = IF primed THEN next_seq ELSE seq
  /\ pos' = IF primed THEN pos ELSE number
  /\ discarded' = (discarded \/ (TooOld(seq) /\ played # Nil /\ number > played.number))

-----------------------------------------------------------------------------
(* FecDecoder *)

Group(base) == [active |-> TRUE, seq_base |-> base, received |-> [i \in 0 .. Window - 1 |-> Nil]]

\* Mutant: the group stays when the base changes.
GroupAtStale(base) == IF fec_dec.active THEN [fec_dec EXCEPT !.seq_base = base] ELSE Group(base)

\* The active group, or a new one at `base`.
GroupAt(base) ==
  IF fec_dec.active /\ fec_dec.seq_base = base THEN fec_dec ELSE Group(base)

\* push_data: groups start at the multiples of the window.
PushData(seq, payload) ==
  LET base == seq - (seq % Window)
  IN [GroupAt(base) EXCEPT !.received[seq - base] = payload]

Missing(g) == {i \in 0 .. Window - 1 : g.received[i] = Nil}

\* XOR of the parity with every frame received (whose ids are disjoint).
Recovered(g, parity) ==
  LET others == {g.received[i] : i \in (0 .. Window - 1) \ Missing(g)}
      all == UNION {p.ids : p \in others}
  IN [ids |-> (parity.ids \ all) \cup (all \ parity.ids), len |-> parity.len]

-----------------------------------------------------------------------------
(* recv_audio and dispatch_packet *)

Waiting == ~Ready /\ wait < SkipTicks

\* A datagram the network may hand over now.
Arrives(m) ==
  /\ m \in net
  /\ Perfect => \A k \in net : m.sequence <= k.sequence
  /\ tx_sequence - m.sequence <= MaxLag   \* bound

Received(m) == net' = IF Perfect THEN net \ {m} ELSE net

RecvFrame(m) ==
  /\ Waiting /\ Arrives(m) /\ m.type = "AudioFrame"
  /\ Received(m)
  /\ fec_dec' = PushData(m.seq, m.payload)
  /\ JitterPush(m.seq, m.payload, m.number)
  /\ UNCHANGED <<sendVars, wait, played>>

\* push_parity: exactly one frame of the group missing is rebuilt and pushed.
RecvParity(m) ==
  /\ Waiting /\ Arrives(m) /\ m.type = "AudioFec"
  /\ Received(m)
  /\ fec_dec' = GroupAt(m.seq)
  /\ IF Cardinality(Missing(fec_dec')) = 1
     THEN LET i == CHOOSE i \in Missing(fec_dec') : TRUE
          IN JitterPush(Wrap(m.seq + i), Recovered(fec_dec', m.payload), m.number)
     ELSE UNCHANGED <<slots, next_seq, primed, pos, discarded>>
  /\ UNCHANGED <<sendVars, wait, played>>

\* A frame duration passes, as recv times out.
Tick ==
  /\ Waiting
  /\ Perfect => net = {}
  /\ wait' = wait + 1
  /\ UNCHANGED <<sendVars, net, fec_dec, slots, next_seq, primed, pos, played, discarded>>

\* pop: recv_audio returns the frame, and the next call sets a new deadline.
Play ==
  /\ Ready
  /\ played' = [number |-> pos, payload |-> slots[Idx(next_seq)].payload]
  /\ slots' = [slots EXCEPT ![Idx(next_seq)] = Nil]
  /\ next_seq' = Wrap(next_seq + 1)
  /\ pos' = pos + 1
  /\ wait' = 0
  /\ UNCHANGED <<sendVars, net, fec_dec, primed, discarded>>

\* Mutant: the deadline is reset without a skip.
SkipNothing ==
  /\ ~Ready /\ wait >= SkipTicks
  /\ wait' = 0
  /\ UNCHANGED <<sendVars, net, fec_dec, slots, next_seq, primed, pos, played, discarded>>

\* The deadline passed: skip(1), if there is a cursor to move, and a new deadline.
Skip ==
  /\ ~Ready /\ wait >= SkipTicks
  /\ pos <= MaxFrames   \* bound
  /\ wait' = 0
  /\ IF primed
     THEN /\ slots' = [slots EXCEPT ![Idx(next_seq)] = Nil]
          /\ next_seq' = Wrap(next_seq + 1)
          /\ pos' = pos + 1
     ELSE UNCHANGED <<slots, next_seq, pos>>
  /\ UNCHANGED <<sendVars, net, fec_dec, primed, played, discarded>>

\* The bound on skips: the receiver idles here instead of moving on for ever.
SkipBound == ~Ready /\ wait >= SkipTicks /\ pos > MaxFrames /\ UNCHANGED vars

-----------------------------------------------------------------------------
Next ==
  \/ \E len \in Lengths : SendAudio(len)
  \/ \E len \in Lengths : SendFails(len)
  \/ \E m \in net : RecvFrame(m)
  \/ \E m \in net : RecvParity(m)
  \/ Tick \/ Play \/ Skip \/ SkipBound

Spec == Init /\ [][Next]_vars

\* The application keeps calling recv_audio and time passes.
FairSpec == Spec /\ WF_vars(Tick) /\ WF_vars(Play) /\ WF_vars(Skip)

-----------------------------------------------------------------------------
(* Properties *)

Payloads == [ids : SUBSET (Start .. MaxFrames - 1), len : Lengths \cup {0}]

\* Every variable has its type.
TypeOK ==
  /\ audio_tx_seq \in Start .. MaxFrames
  /\ tx_sequence \in 0 .. 2 * MaxFrames
  /\ fec_enc.count \in 0 .. Window - 1 /\ fec_enc.parity_buf \in Payloads
  /\ fec_dec.received \in [0 .. Window - 1 -> Payloads \cup {Nil}]
  /\ slots \in [0 .. Capacity - 1 -> [seq : 0 .. Modulus - 1, payload : Payloads] \cup {Nil}]
  /\ next_seq \in 0 .. Modulus - 1
  /\ primed \in BOOLEAN /\ discarded \in BOOLEAN
  /\ wait \in 0 .. SkipTicks

\* While no send has failed, the frame played at each position of the stream is
\* the frame sent with that number, in particular in order and once, although
\* datagrams are lost, repeated and reordered, the u32 sequence wraps, and frames
\* are rebuilt from parity.  A rebuilt frame may only be longer than the original.
PlaysTheFrameSent ==
  played # Nil /\ failures = 0 =>
    /\ played.payload.ids = {played.number}
    /\ played.payload.len >= sent[played.number].len

\* Used by one task, the ring has no collisions: the slot of every sequence of the
\* window is empty or holds that very sequence, also across the wrap of the u32.
NoCollision ==
  primed => \A d \in 0 .. Capacity - 1 :
    LET seq == Wrap(next_seq + d)
    IN slots[Idx(seq)] # Nil => slots[Idx(seq)].seq = seq

\* No lost frame stalls the stream: what is in the ring is played or skipped.
RingDrains == \A i \in 0 .. Capacity - 1 : slots[i] # Nil ~> slots[i] = Nil

\* A frame rebuilt by FEC is the frame that was lost, to the byte.
RebuiltExactly ==
  played # Nil => played.payload = sent[played.number]

\* Frames are dropped as too old only if a newer one has been played.
DropsOnlyOlder == ~discarded
=============================================================================
