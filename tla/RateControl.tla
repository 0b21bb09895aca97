---------------------------- MODULE RateControl ----------------------------
(***************************************************************************)
(* LossTracker (gravital-talk-metrics/loss.rs), CongestionController       *)
(* (gravital-talk-transport/congestion.rs) and the two places where the    *)
(* session drives them: check_liveness() on one task and a ControlBitrate  *)
(* of the peer on another.  Frames get lost, late and repeated on the way. *)
(* Packets have absolute numbers here; the code sees Start + number modulo *)
(* SeqSpace.  The bitmap is the set of its one bits.                       *)
(***************************************************************************)
EXTENDS Integers, FiniteSets, FiniteSetsExt

CONSTANTS
  Width,          \* LOSS_WINDOW_SIZE, the bits of the bitmap
  SeqSpace, Start, \* 2^32, and the first sequence number
  MinBitrate,     \* CONGESTION_MIN_BITRATE
  Increment,      \* CONGESTION_AIMD_INCREMENT
  MaxBitrates,    \* the max_bitrate of a configuration
  Requests,       \* bitrates a peer asks for
  MaxFrames,      \* frames sent
  MaxInFlight,    \* frames in flight at once
  MaxUpdates      \* updates of the controller, requests included

ASSUME BitrateAssumption ==
  /\ MinBitrate \in Nat /\ Increment \in Nat
  /\ MaxBitrates \subseteq Nat /\ Requests \subseteq Nat

\* No frame comes so late that its number looks newer than the newest.
ASSUME WindowAssumption ==
  /\ Width \in Nat \ {0} /\ Start \in Nat
  /\ MaxFrames \in Nat /\ SeqSpace \in Nat \ {0} /\ 2 * MaxFrames <= SeqSpace

VARIABLES
  bitmap, high_seq, initialised,  \* LossTracker
  reorder_count, total_packets,
  bitrate, max_bitrate,           \* CongestionController
  updater,                        \* the task in update(): what it has loaded
  frames,                         \* the network
  updates,                        \* bounds the updates
  jumped                          \* history: a frame was Width or more ahead

rateVars == <<bitmap, high_seq, initialised, reorder_count, total_packets, bitrate,
              max_bitrate, updater, frames, updates, jumped>>

Clamp(b) == IF b < MinBitrate THEN MinBitrate ELSE IF b > max_bitrate THEN max_bitrate ELSE b

\* CongestionController::new as Session::new calls it: clamp panics on an empty range.
RateInit ==
  /\ bitmap = {} /\ high_seq = 0 /\ initialised = FALSE
  /\ reorder_count = 0 /\ total_packets = 0
  /\ max_bitrate \in MaxBitrates
  /\ bitrate = IF max_bitrate < MinBitrate THEN -1 ELSE max_bitrate
  /\ updater = [at |-> "idle"]
  /\ frames = [sent |-> 0, inFlight |-> {}, arrived |-> {}]
  /\ updates = 0 /\ jumped = FALSE

-----------------------------------------------------------------------------
(* LossTracker *)

\* (sequence.wrapping_sub(high) as i32)
Signed(d) == LET m == d % SeqSpace IN IF m < SeqSpace \div 2 THEN m ELSE m - SeqSpace

\* u64 << n in a release build: the amount is taken modulo the width.
ShiftLeft(bits, n) == {b + (n % Width) : b \in bits} \cap 0..(Width - 1)

\* Mutant: the bit of a late frame is one too high.
RecordOneOff(sequence) ==
  LET diff == Signed(sequence - high_seq)
  IN /\ initialised' = TRUE
     /\ high_seq' = IF ~initialised \/ diff > 0 THEN sequence ELSE high_seq
     /\ bitmap' = IF ~initialised THEN {0}
                  ELSE IF diff > 0 THEN ShiftLeft(bitmap, Min({diff, Width})) \cup {0}
                  ELSE IF diff < 0 /\ -diff < Width - 1 THEN bitmap \cup {1 - diff}
                  ELSE bitmap
     /\ reorder_count' = IF initialised /\ diff < 0 THEN reorder_count + 1 ELSE reorder_count
     /\ total_packets' = IF initialised THEN total_packets + 1 ELSE 1

record(sequence) ==
  LET diff == Signed(sequence - high_seq)
  IN /\ initialised' = TRUE
     /\ high_seq' = IF ~initialised \/ diff > 0 THEN sequence ELSE high_seq
     /\ bitmap' = IF ~initialised THEN {0}
                  ELSE IF diff > 0 THEN ShiftLeft(bitmap, Min({diff, Width})) \cup {0}
                  ELSE IF diff < 0 /\ -diff < Width THEN bitmap \cup {-diff}
                  ELSE bitmap
     /\ reorder_count' = IF initialised /\ diff < 0 THEN reorder_count + 1 ELSE reorder_count
     /\ total_packets' = IF initialised THEN total_packets + 1 ELSE 1

\* Mutant: nothing received counts as everything lost.
LossFromTheStart == Width - Cardinality(bitmap)
\* loss_percent, in packets of the window.
Lost == IF initialised THEN Width - Cardinality(bitmap) ELSE 0

-----------------------------------------------------------------------------
(* The stream of audio frames *)

Newest == Max(frames.arrived)

FrameSent ==
  /\ bitrate >= 0 /\ frames.sent < MaxFrames /\ Cardinality(frames.inFlight) < MaxInFlight
  /\ frames' = [frames EXCEPT !.sent = @ + 1, !.inFlight = @ \cup {frames.sent}]
  /\ UNCHANGED <<bitmap, high_seq, initialised, reorder_count, total_packets, bitrate,
                 max_bitrate, updater, updates, jumped>>

FrameLost(n) ==
  /\ frames' = [frames EXCEPT !.inFlight = @ \ {n}]
  /\ UNCHANGED <<bitmap, high_seq, initialised, reorder_count, total_packets, bitrate,
                 max_bitrate, updater, updates, jumped>>

\* dispatch_packet records the frame's number; a frame may come a second time.
FrameArrives(n) ==
  /\ \E again \in BOOLEAN :
       /\ again => n \notin frames.arrived
       /\ frames' = [frames EXCEPT !.arrived = @ \cup {n},
                                   !.inFlight = IF again THEN @ ELSE @ \ {n}]
  /\ jumped' = (jumped \/ (initialised /\ n >= Newest + Width))
  /\ record((Start + n) % SeqSpace)
  /\ UNCHANGED <<bitrate, max_bitrate, updater, updates>>

-----------------------------------------------------------------------------
(* CongestionController *)

\* What the frames say: how many of the last Width numbers did not arrive.
TrulyLost == IF frames.arrived = {} THEN 0
             ELSE Cardinality({i \in 0..(Width - 1) : Newest - i \notin frames.arrived})

\* check_liveness reads the loss and the round trip time, then update() loads.
UpdateLoads ==
  /\ bitrate >= 0 /\ updater.at = "idle" /\ updates < MaxUpdates
  /\ \E slow \in BOOLEAN :
       updater' = [at |-> "loaded", current |-> bitrate, slow |-> slow,
                   lost |-> Lost, truth |-> TrulyLost]
  /\ updates' = updates + 1
  /\ UNCHANGED <<bitmap, high_seq, initialised, reorder_count, total_packets, bitrate,
                 max_bitrate, frames, jumped>>

\* loss_rate > 0.05, then rtt_us > 150_000, then the additive increase.
NewBitrate(current, lost, slow) ==
  IF 100 * lost > 5 * Width THEN (current * 85) \div 100
  ELSE IF slow THEN (current * 95) \div 100
  ELSE current + Increment

UpdateStores ==
  /\ updater.at = "loaded"
  /\ bitrate' = Clamp(NewBitrate(updater.current, updater.lost, updater.slow))
  /\ updater' = [at |-> "idle"]
  /\ UNCHANGED <<bitmap, high_seq, initialised, reorder_count, total_packets,
                 max_bitrate, frames, updates, jumped>>

\* Mutant: the peer's request is stored as it came.
SetBitrateUnclamped(b) ==
  /\ bitrate >= 0 /\ updates < MaxUpdates
  /\ bitrate' = b
  /\ updates' = updates + 1
  /\ UNCHANGED <<bitmap, high_seq, initialised, reorder_count, total_packets,
                 max_bitrate, updater, frames, jumped>>

set_bitrate(b) ==
  /\ bitrate >= 0 /\ updates < MaxUpdates
  /\ bitrate' = Clamp(b)
  /\ updates' = updates + 1
  /\ UNCHANGED <<bitmap, high_seq, initialised, reorder_count, total_packets,
                 max_bitrate, updater, frames, jumped>>

RateNext ==
  \/ FrameSent
  \/ \E n \in frames.inFlight : FrameLost(n) \/ FrameArrives(n)
  \/ UpdateLoads \/ UpdateStores
  \/ \E b \in Requests : set_bitrate(b)

RateSpec == RateInit /\ [][RateNext]_rateVars

-----------------------------------------------------------------------------
\* The bitmap is the arrivals among the last Width numbers, across losses, reordering,
\* repetitions and the wrap of the sequence.  Only after a jump of a whole window, where
\* the shift by 64 of loss.rs:60 shifts by nothing, does it hold more than that.
LossWindowExact ==
  LET truth == {i \in 0..(Width - 1) : initialised /\ Newest - i \in frames.arrived}
  IN truth \subseteq bitmap /\ (~jumped => bitmap = truth)

\* However updates and a peer's requests interleave, the bitrate stays within its
\* range; a max_bitrate below the minimum aborts Session::new instead.
BitrateInRange ==
  IF max_bitrate < MinBitrate THEN bitrate = -1 ELSE bitrate \in MinBitrate..max_bitrate

\* update() lowers the bitrate for a cause only: more than 5% of the window did not
\* arrive (at the start, numbers before the first count as lost), the round trip is
\* slow, or it overwrites a request that came between its load and its store.
LowersForCause ==
  [][updater.at = "loaded" /\ updater'.at = "idle" /\ bitrate' < bitrate =>
       100 * updater.truth > 5 * Width \/ updater.slow \/ bitrate # updater.current]_rateVars
=============================================================================
