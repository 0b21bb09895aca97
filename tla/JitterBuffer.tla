---------------------------- MODULE JitterBuffer ----------------------------
(***************************************************************************)
(* The lock-free single-producer single-consumer ring of jitter_buffer.rs, *)
(* one step per shared-memory access.  The producer runs push(), the       *)
(* consumer runs pop_with_deadline() (pop, then skip(1) when the deadline  *)
(* passed).  The accesses are Release/Acquire and the frame is under its   *)
(* slot's Mutex; each thread's accesses take effect in program order here  *)
(* (a store the hardware delays past a later load is not modelled).        *)
(*                                                                         *)
(* A frame is represented by its sequence number.  Sequence numbers are    *)
(* naturals here: telling a u32 from its lap around 2^32 needs 2^32 cursor *)
(* advances inside one push.  The wrapping arithmetic is modelled by       *)
(* AudioPath.                                                              *)
(***************************************************************************)
EXTENDS Integers

CONSTANTS
  Capacity,   \* slots of the ring (a power of two in the code)
  MaxSeq      \* bound: frames are numbered 0 .. MaxSeq

ASSUME CapacityAssumption == Capacity \in Nat \ {0}
ASSUME MaxSeqAssumption == MaxSeq \in Nat

VARIABLES
  occupied,   \* Slot.occupied
  sequence,   \* Slot.sequence
  frame,      \* Slot.frame, None when taken
  next_seq, primed,
  ppc, pushed, loaded,  \* the producer: where it is, its frame, the cursor it read
  cpc, cursor, taken,   \* the consumer: where it is, the cursor it read, what it took
  last, turn            \* history: the last frame pop() returned, and a bit that
                        \*   flips whenever it returns one

slotVars == <<occupied, sequence, frame>>
pVars == <<ppc, pushed, loaded>>
cVars == <<cpc, cursor, taken>>
outVars == <<last, turn>>
vars == <<slotVars, next_seq, primed, pVars, cVars, outVars>>

None == -1
Frames == 0 .. MaxSeq
Slots == 0 .. Capacity - 1

\* sequence & mask, for a power-of-two capacity
Idx(s) == s % Capacity

Init ==
  /\ occupied = [i \in Slots |-> FALSE]
  /\ sequence = [i \in Slots |-> 0]
  /\ frame = [i \in Slots |-> None]
  /\ next_seq = 0
  /\ primed = FALSE
  /\ ppc = "idle" /\ pushed = 0 /\ loaded = 0
  /\ cpc = "idle" /\ cursor = 0 /\ taken = None
  /\ last = None /\ turn = 0

-----------------------------------------------------------------------------
(* push *)

\* push(frame) is called; it loads `primed`.
PushCall(f) ==
  /\ ppc = "idle"
  /\ pushed' = f
  /\ ppc' = IF primed THEN "window" ELSE "prime"
  /\ UNCHANGED <<slotVars, next_seq, primed, loaded, cVars, outVars>>

\* The first frame fixes the cursor, before `primed` lets the consumer in.
PushPrime ==
  /\ ppc = "prime"
  /\ next_seq' = pushed
  /\ ppc' = "primed"
  /\ UNCHANGED <<slotVars, primed, pushed, loaded, cVars, outVars>>

PushPrimed ==
  /\ ppc = "primed"
  /\ primed' = TRUE
  /\ loaded' = pushed
  /\ ppc' = "slot"
  /\ UNCHANGED <<slotVars, next_seq, pushed, cVars, outVars>>

\* Mutant: the window one slot too wide.
InWindowOneMore(f, n) == f >= n /\ f - n <= Capacity

\* Too old, or too far in the future: push returns false.
InWindow(f, n) == f >= n /\ f - n < Capacity

PushWindow ==
  /\ ppc = "window"
  /\ loaded' = next_seq
  /\ ppc' = IF InWindow(pushed, next_seq) THEN "slot" ELSE "idle"
  /\ UNCHANGED <<slotVars, next_seq, primed, pushed, cVars, outVars>>

PushSlot ==
  /\ ppc = "slot"
  /\ ppc' = IF occupied[Idx(pushed)] THEN "existing" ELSE "frame"
  /\ UNCHANGED <<slotVars, next_seq, primed, pushed, loaded, cVars, outVars>>

\* A slot that holds another sequence is a collision (push returns false);
\* one that holds the same sequence is overwritten.
PushExisting ==
  /\ ppc = "existing"
  /\ ppc' = IF sequence[Idx(pushed)] # pushed THEN "idle" ELSE "frame"
  /\ UNCHANGED <<slotVars, next_seq, primed, pushed, loaded, cVars, outVars>>

PushFrame ==
  /\ ppc = "frame"
  /\ frame' = [frame EXCEPT ![Idx(pushed)] = pushed]
  /\ ppc' = "sequence"
  /\ UNCHANGED <<occupied, sequence, next_seq, primed, pushed, loaded, cVars, outVars>>

PushSequence ==
  /\ ppc = "sequence"
  /\ sequence' = [sequence EXCEPT ![Idx(pushed)] = pushed]
  /\ ppc' = "occupied"
  /\ UNCHANGED <<occupied, frame, next_seq, primed, pushed, loaded, cVars, outVars>>

PushOccupied ==
  /\ ppc = "occupied"
  /\ occupied' = [occupied EXCEPT ![Idx(pushed)] = TRUE]
  /\ ppc' = "idle"
  /\ UNCHANGED <<sequence, frame, next_seq, primed, pushed, loaded, cVars, outVars>>

-----------------------------------------------------------------------------
(* pop_with_deadline *)

\* pop() returns None at once unless primed.  The cursor has no other writer
\* once primed, so reading it belongs to the same step.
PopCall ==
  /\ cpc = "idle" /\ primed
  /\ cursor' = next_seq
  /\ cpc' = "occupied"
  /\ UNCHANGED <<slotVars, next_seq, primed, pVars, taken, outVars>>

PopOccupied ==
  /\ cpc = "occupied"
  /\ cpc' = IF occupied[Idx(cursor)] THEN "sequence" ELSE "none"
  /\ UNCHANGED <<slotVars, next_seq, primed, pVars, cursor, taken, outVars>>

\* Mutant: pop() does not compare the slot's sequence.
PopSequenceUnchecked ==
  /\ cpc = "sequence"
  /\ cpc' = "take"
  /\ UNCHANGED <<slotVars, next_seq, primed, pVars, cursor, taken, outVars>>

PopSequence ==
  /\ cpc = "sequence"
  /\ cpc' = IF sequence[Idx(cursor)] = cursor THEN "take" ELSE "none"
  /\ UNCHANGED <<slotVars, next_seq, primed, pVars, cursor, taken, outVars>>

PopTake ==
  /\ cpc = "take"
  /\ taken' = frame[Idx(cursor)]
  /\ frame' = [frame EXCEPT ![Idx(cursor)] = None]
  /\ cpc' = "clear"
  /\ UNCHANGED <<occupied, sequence, next_seq, primed, pVars, cursor, outVars>>

PopClear ==
  /\ cpc = "clear"
  /\ occupied' = [occupied EXCEPT ![Idx(cursor)] = FALSE]
  /\ cpc' = "advance"
  /\ UNCHANGED <<sequence, frame, next_seq, primed, pVars, cursor, taken, outVars>>

\* What pop() returns: Some(frame), or None if the slot's Option was empty.
Return ==
  IF taken # None
  THEN last' = taken /\ turn' = 1 - turn
  ELSE UNCHANGED outVars

\* Mutants: pop() leaves the cursor, or moves it by two.
PopAdvanceStays ==
  /\ cpc = "advance"
  /\ Return
  /\ cpc' = "idle"
  /\ UNCHANGED <<slotVars, next_seq, primed, pVars, cursor, taken>>

PopAdvanceByTwo ==
  /\ cpc = "advance"
  /\ next_seq' = cursor + 2
  /\ Return
  /\ cpc' = "idle"
  /\ UNCHANGED <<slotVars, primed, pVars, cursor, taken>>

\* After None, pop_with_deadline looks at the deadline, from the new cursor.
PopAdvance ==
  /\ cpc = "advance"
  /\ next_seq' = cursor + 1
  /\ Return
  /\ IF taken # None
     THEN cpc' = "idle" /\ UNCHANGED cursor
     ELSE cpc' = "none" /\ cursor' = cursor + 1
  /\ UNCHANGED <<slotVars, primed, pVars, taken>>

\* pop() found nothing and the deadline has not passed.
DeadlineNotReached ==
  /\ cpc = "none"
  /\ cpc' = "idle"
  /\ UNCHANGED <<slotVars, next_seq, primed, pVars, cursor, taken, outVars>>

\* The deadline has passed: skip(1) empties the slot and moves the cursor.
SkipOccupied ==
  /\ cpc = "none"
  /\ next_seq <= MaxSeq   \* bound
  /\ occupied' = [occupied EXCEPT ![Idx(cursor)] = FALSE]
  /\ cpc' = "skip_frame"
  /\ UNCHANGED <<sequence, frame, next_seq, primed, pVars, cursor, taken, outVars>>

SkipFrame ==
  /\ cpc = "skip_frame"
  /\ frame' = [frame EXCEPT ![Idx(cursor)] = None]
  /\ cpc' = "skip_advance"
  /\ UNCHANGED <<occupied, sequence, next_seq, primed, pVars, cursor, taken, outVars>>

\* Mutant: skip() empties the slot and leaves the cursor.
SkipAdvanceStays ==
  /\ cpc = "skip_advance"
  /\ cpc' = "idle"
  /\ UNCHANGED <<slotVars, next_seq, primed, pVars, cursor, taken, outVars>>

SkipAdvance ==
  /\ cpc = "skip_advance"
  /\ next_seq' = cursor + 1
  /\ cpc' = "idle"
  /\ UNCHANGED <<slotVars, primed, pVars, cursor, taken, outVars>>

-----------------------------------------------------------------------------
Push ==
  \/ \E f \in Frames : PushCall(f)
  \/ PushPrime \/ PushPrimed \/ PushWindow \/ PushSlot \/ PushExisting
  \/ PushFrame \/ PushSequence \/ PushOccupied

Pop ==
  \/ PopCall \/ PopOccupied \/ PopSequence \/ PopTake \/ PopClear \/ PopAdvance
  \/ DeadlineNotReached \/ SkipOccupied \/ SkipFrame \/ SkipAdvance

Next == Push \/ Pop

Spec == Init /\ [][Next]_vars

\* recv_audio calls pop_with_deadline again and again, and time passes, so a
\* consumer that keeps finding its slot empty reaches the deadline.
FairSpec == Spec /\ WF_vars(Pop) /\ SF_vars(SkipOccupied)

-----------------------------------------------------------------------------
(* Properties *)

\* Every variable has its type.
TypeOK ==
  /\ occupied \in [Slots -> BOOLEAN]
  /\ sequence \in [Slots -> Frames]
  /\ frame \in [Slots -> Frames \cup {None}]
  /\ next_seq \in 0 .. MaxSeq + 1
  /\ primed \in BOOLEAN
  /\ ppc \in {"idle", "prime", "primed", "window", "slot", "existing",
              "frame", "sequence", "occupied"}
  /\ pushed \in Frames
  /\ loaded \in 0 .. MaxSeq + 1
  /\ cpc \in {"idle", "occupied", "sequence", "take", "clear", "advance",
              "none", "skip_frame", "skip_advance"}
  /\ cursor \in 0 .. MaxSeq + 1
  /\ taken \in Frames \cup {None}
  /\ last \in Frames \cup {None} /\ turn \in {0, 1}

\* The three stores of push() and the three of pop() never combine into a torn
\* frame: when pop() has seen `occupied` and the sequence it waits for, the
\* frame it takes is there and is the frame of that sequence, even if a
\* duplicate of it is being written at the same time.
NoTornFrame == cpc \in {"clear", "advance"} => taken = cursor

\* push() refuses a frame inside the window for a collision only when the slot
\* holds a leftover of a sequence the cursor has already passed: two frames that
\* are both still to be played never compete for a slot.
CollisionOnlyWithPassed ==
  ppc = "existing" /\ occupied[Idx(pushed)] /\ sequence[Idx(pushed)] # pushed
    => sequence[Idx(pushed)] < next_seq

\* A frame in the ring leaves it: whatever was lost before it, and whatever a
\* late push() left in the slots between, the cursor passes it.
NoHeadOfLineBlocking ==
  \A f \in Frames :
    (occupied[Idx(f)] /\ sequence[Idx(f)] = f) ~> next_seq > f

\* What the ring hands to the codec is a Playout: each frame at most once and in
\* order.
PlayoutSpec == INSTANCE Playout WITH Frames <- Frames, last <- last, turn <- turn

PlaysInOrder == PlayoutSpec!Spec

-----------------------------------------------------------------------------
(* The inductive invariant *)

\* The producer has passed the window check of its frame.
Accepted == ppc \in {"slot", "existing", "frame", "sequence", "occupied"}

\* The cursor has passed s, or is about to after having emptied its slot.
Passed(s) ==
  \/ s < next_seq
  \/ s = cursor /\ cpc \in {"clear", "advance", "skip_advance"}

ProducerInv ==
  /\ primed => loaded <= next_seq
  /\ Accepted => primed /\ InWindow(pushed, loaded)
  /\ ppc = "window" => primed
  /\ ppc \in {"prime", "primed"} => ~primed
  /\ ppc = "primed" => next_seq = pushed
  /\ ppc \in {"frame", "sequence", "occupied"} /\ occupied[Idx(pushed)]
       => sequence[Idx(pushed)] = pushed
  /\ ppc \in {"sequence", "occupied"}
       => frame[Idx(pushed)] = pushed \/ Passed(pushed)
  /\ ppc = "occupied" => sequence[Idx(pushed)] = pushed

ConsumerInv ==
  /\ cpc # "idle" => primed /\ cursor = next_seq
  /\ cpc \in {"sequence", "take"} => occupied[Idx(cursor)]
  /\ cpc = "take" => sequence[Idx(cursor)] = cursor
  /\ cpc \in {"skip_frame", "skip_advance"} => cursor <= MaxSeq
  /\ cpc \in {"clear", "advance"} => taken = cursor
  /\ last < next_seq
  /\ ~primed => last = None

SlotInv ==
  \A i \in Slots : occupied[i] =>
    /\ primed
    /\ Idx(sequence[i]) = i
    /\ sequence[i] < loaded + Capacity
    /\ Passed(sequence[i]) \/ frame[i] = sequence[i]

IInv == TypeOK /\ ProducerInv /\ ConsumerInv /\ SlotInv
=============================================================================
