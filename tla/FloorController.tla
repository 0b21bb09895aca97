-------------------------- MODULE FloorController --------------------------
(***************************************************************************)
(* FloorController (gravital-talk-core/floor.rs): the state machine of the *)
(* floor that a client or an arbiter may run.  Ssrcs are participants; 0   *)
(* is nobody.                                                              *)
(***************************************************************************)
EXTENDS Integers

CONSTANT Ssrcs

\* No participant has the number that stands for nobody.
ASSUME SsrcAssumption == 0 \notin Ssrcs

VARIABLES floor_state, holder_ssrc

floorVars == <<floor_state, holder_ssrc>>

FloorEvents == {"Request", "Grant", "Deny", "Release", "Taken", "Timeout", "Reset"}

FloorInit == floor_state = "Idle" /\ holder_ssrc = 0

\* transition(event, ssrc): the new state and holder; an invalid event changes nothing.
Transition(s, h, event, ssrc) ==
  CASE s \in {"Idle", "Released"} /\ event = "Request" -> <<"Requested", ssrc>>
    [] s = "Idle" /\ event = "Reset" -> <<"Idle", h>>
    [] s \in {"Idle", "Requested", "Released"} /\ event = "Grant" -> <<"Granted", ssrc>>
    [] s \in {"Requested", "Granted"} /\ event = "Taken" -> <<"Granted", ssrc>>
    [] s = "Requested" /\ event \in {"Deny", "Reset", "Timeout"} -> <<"Idle", 0>>
    [] s = "Granted" /\ event \in {"Release", "Timeout"} -> <<"Released", 0>>
    [] s = "Granted" /\ event = "Reset" -> <<"Idle", 0>>
    [] s = "Released" /\ event \in {"Reset", "Release"} -> <<"Idle", 0>>
    [] OTHER -> <<s, h>>

\* Mutant: a transmission that times out keeps its holder.
FloorEventKeepsHolder(event, ssrc) ==
  LET next == Transition(floor_state, holder_ssrc, event, ssrc)
  IN /\ floor_state' = next[1]
     /\ holder_ssrc' = IF event = "Timeout" THEN holder_ssrc ELSE next[2]

FloorEvent(event, ssrc) ==
  LET next == Transition(floor_state, holder_ssrc, event, ssrc)
  IN floor_state' = next[1] /\ holder_ssrc' = next[2]

FloorNext == \E event \in FloorEvents, ssrc \in Ssrcs : FloorEvent(event, ssrc)

FloorSpec == FloorInit /\ [][FloorNext]_floorVars

is_available == floor_state \in {"Idle", "Released"}

\* The floor that is_available() offers has no holder, and a floor requested or granted
\* has one, after any sequence of events, the refused ones included.
HolderMatchesState == is_available <=> holder_ssrc = 0
=============================================================================
