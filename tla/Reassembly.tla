---------------------------- MODULE Reassembly ----------------------------
(***************************************************************************)
(* FragmentReassembler (gravital-talk-core/fragment.rs): the fragments of  *)
(* one frame arrive in any order, again, or not at all, and with indices   *)
(* out of range; finish() is called at any time.  The sessions do not use  *)
(* it yet.  A fragment's content is named by its index.                    *)
(***************************************************************************)
EXTENDS Integers, FiniteSets

CONSTANTS
  Totals,         \* the numbers of fragments announced
  MaxFragments    \* MAX_FRAGMENTS

ASSUME FragmentAssumption == Totals \subseteq Nat /\ MaxFragments \in Nat

VARIABLE reassembler

Missing == -1

\* FragmentReassembler::new refuses 0 and more than MAX_FRAGMENTS.
ReassemblyInit ==
  \E total \in Totals :
    reassembler =
      IF total = 0 \/ total > MaxFragments THEN [at |-> "TooManyFragments"]
      ELSE [at |-> "open", expected_total |-> total, received |-> 0,
            buffers |-> [i \in 0..(total - 1) |-> Missing]]

\* Mutant: a duplicate is counted again.
InsertAgain(index) ==
  /\ reassembler.at = "open"
  /\ IF index >= reassembler.expected_total
     THEN UNCHANGED reassembler
     ELSE reassembler' = [reassembler EXCEPT !.buffers[index] = index, !.received = @ + 1]

\* insert: FragmentOutOfRange and DuplicateFragment change nothing.
Insert(index) ==
  /\ reassembler.at = "open"
  /\ IF index >= reassembler.expected_total \/ reassembler.buffers[index] # Missing
     THEN UNCHANGED reassembler
     ELSE reassembler' = [reassembler EXCEPT !.buffers[index] = index, !.received = @ + 1]

is_complete == reassembler.received = reassembler.expected_total

Present == {i \in 0..(reassembler.expected_total - 1) : reassembler.buffers[i] # Missing}

\* buffers.into_iter().flatten(): what is there, in the order of its index.
Flattened ==
  [k \in 1..Cardinality(Present) |->
     reassembler.buffers[CHOOSE i \in Present : Cardinality({j \in Present : j < i}) = k - 1]]

\* finish consumes the reassembler: IncompleteReassembly, or the fragments in order.
Finish ==
  /\ reassembler.at = "open"
  /\ reassembler' =
       IF ~is_complete THEN [at |-> "IncompleteReassembly"]
       ELSE [at |-> "done", expected_total |-> reassembler.expected_total, frame |-> Flattened]

ReassemblyNext ==
  \/ \E index \in 0..MaxFragments : Insert(index)
  \/ Finish

ReassemblySpec == ReassemblyInit /\ [][ReassemblyNext]_reassembler

\* A frame that finish() returns is the sender's, whole and in order, whatever the
\* order and the repetitions in which its fragments came.
FrameRebuilt ==
  reassembler.at = "done" =>
    reassembler.frame = [i \in 1..reassembler.expected_total |-> i - 1]
=============================================================================
