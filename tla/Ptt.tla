-------------------------------- MODULE Ptt --------------------------------
(***************************************************************************)
(* Push-to-talk between two sessions: ptt_press, ptt_release and the floor *)
(* messages of Session::dispatch_packet, either directly or through the    *)
(* relay, whose UDP loop arbitrates the floor (Relay models the table in   *)
(* full; here both peers are known to it).  A call stores the flag and     *)
(* then sends its two messages one after the other.  Datagrams keep their  *)
(* order on each leg and may be lost.                                      *)
(***************************************************************************)
EXTENDS Integers, Sequences

CONSTANTS
  PttPeers,       \* two sessions
  MaxPresses,     \* how often each of them presses
  MaxLost         \* datagrams lost: through the relay, directly

VARIABLES
  relayed,        \* through the relay, or direct
  ptt_active,     \* the flag of the session's own user
  peer_ptt_active,\* the flag of the other one
  calling,        \* what the call under way has still to send
  pressed,        \* the user's last call was ptt_press
  presses,
  up, down,       \* datagrams from and to each peer
  floor_holder,   \* of the relay's entry; NoHolder if free
  lost, expired   \* how much was lost; history: a hold has expired

pttVars == <<relayed, ptt_active, peer_ptt_active, calling, pressed, presses, up, down,
             floor_holder, lost, expired>>

NoHolder == "nobody"
Other(p) == CHOOSE q \in PttPeers : q # p

ASSUME PeersAssumption == NoHolder \notin PttPeers /\ \E a, b \in PttPeers : a # b /\ PttPeers = {a, b}

PttInit ==
  /\ relayed \in BOOLEAN
  /\ ptt_active = [p \in PttPeers |-> FALSE]
  /\ peer_ptt_active = [p \in PttPeers |-> FALSE]
  /\ calling = [p \in PttPeers |-> <<>>]
  /\ pressed = [p \in PttPeers |-> FALSE]
  /\ presses = [p \in PttPeers |-> 0]
  /\ up = [p \in PttPeers |-> <<>>] /\ down = [p \in PttPeers |-> <<>>]
  /\ floor_holder = NoHolder /\ lost = 0 /\ expired = FALSE

-----------------------------------------------------------------------------
(* The session's user *)

ptt_press(p) ==
  /\ ~pressed[p] /\ calling[p] = <<>> /\ presses[p] < MaxPresses[p]
  /\ pressed' = [pressed EXCEPT ![p] = TRUE]
  /\ presses' = [presses EXCEPT ![p] = @ + 1]
  /\ ptt_active' = [ptt_active EXCEPT ![p] = TRUE]
  /\ calling' = [calling EXCEPT ![p] = <<"FloorRequest", "ControlResume">>]
  /\ UNCHANGED <<relayed, peer_ptt_active, up, down, floor_holder, lost, expired>>

\* Mutant: the release is announced once, as a floor message.
ReleaseAnnouncedOnce(p) ==
  /\ pressed[p] /\ calling[p] = <<>>
  /\ pressed' = [pressed EXCEPT ![p] = FALSE]
  /\ ptt_active' = [ptt_active EXCEPT ![p] = FALSE]
  /\ calling' = [calling EXCEPT ![p] = <<"FloorRelease">>]
  /\ UNCHANGED <<relayed, peer_ptt_active, presses, up, down, floor_holder, lost, expired>>

ptt_release(p) ==
  /\ pressed[p] /\ calling[p] = <<>>
  /\ pressed' = [pressed EXCEPT ![p] = FALSE]
  /\ ptt_active' = [ptt_active EXCEPT ![p] = FALSE]
  /\ calling' = [calling EXCEPT ![p] = <<"FloorRelease", "ControlPause">>]
  /\ UNCHANGED <<relayed, peer_ptt_active, presses, up, down, floor_holder, lost, expired>>

\* send_control, one message of the call.
SendNext(p) ==
  /\ calling[p] # <<>>
  /\ up' = [up EXCEPT ![p] = Append(@, Head(calling[p]))]
  /\ calling' = [calling EXCEPT ![p] = Tail(@)]
  /\ UNCHANGED <<relayed, ptt_active, peer_ptt_active, pressed, presses, down,
                 floor_holder, lost, expired>>

-----------------------------------------------------------------------------
(* Session::dispatch_packet *)

\* Mutant: a denial is not heeded.
DispatchIgnoresDeny(p) ==
  /\ down[p] # <<>>
  /\ LET m == Head(down[p])
     IN /\ peer_ptt_active' = [peer_ptt_active EXCEPT ![p] =
             CASE m = "ControlResume" -> TRUE
               [] m \in {"ControlPause", "FloorRelease"} -> FALSE
               [] OTHER -> @]
        /\ up' = [up EXCEPT ![p] =
             IF m = "FloorRequest" /\ ~ptt_active[p] THEN Append(@, "FloorGrant") ELSE @]
  /\ down' = [down EXCEPT ![p] = Tail(@)]
  /\ UNCHANGED <<relayed, ptt_active, calling, pressed, presses, floor_holder, lost, expired>>

\* A floor request is granted if the own user is not talking and never denied; grants
\* and FloorTaken change nothing.
dispatch_packet(p) ==
  /\ down[p] # <<>>
  /\ LET m == Head(down[p])
     IN /\ peer_ptt_active' = [peer_ptt_active EXCEPT ![p] =
             CASE m = "ControlResume" -> TRUE
               [] m \in {"ControlPause", "FloorRelease"} -> FALSE
               [] OTHER -> @]
        /\ ptt_active' = [ptt_active EXCEPT ![p] = @ /\ m # "FloorDeny"]
        /\ up' = [up EXCEPT ![p] =
             IF m = "FloorRequest" /\ ~ptt_active[p] THEN Append(@, "FloorGrant") ELSE @]
  /\ down' = [down EXCEPT ![p] = Tail(@)]
  /\ UNCHANGED <<relayed, calling, pressed, presses, floor_holder, lost, expired>>

-----------------------------------------------------------------------------
(* The network, and the relay *)

\* What the relay makes of a message of p: the new holder, what p gets, what the other
\* gets.  A request of the holder itself is denied like any other.
Arbitrate(p, m) ==
  CASE m = "FloorRequest" /\ floor_holder = NoHolder ->
         [holder |-> p, back |-> <<"FloorGrant">>, on |-> <<"FloorTaken">>]
    [] m = "FloorRequest" /\ floor_holder # NoHolder ->
         [holder |-> floor_holder, back |-> <<"FloorDeny">>, on |-> <<>>]
    [] m = "FloorRelease" /\ floor_holder \in {p, NoHolder} ->
         [holder |-> NoHolder, back |-> <<>>, on |-> <<"FloorRelease">>]
    [] m = "FloorRelease" /\ floor_holder \notin {p, NoHolder} ->
         [holder |-> floor_holder, back |-> <<>>, on |-> <<>>]
    [] OTHER -> [holder |-> floor_holder, back |-> <<>>, on |-> <<m>>]

Carry(p) ==
  /\ up[p] # <<>>
  /\ LET m == Head(up[p])
         r == IF relayed THEN Arbitrate(p, m)
              ELSE [holder |-> floor_holder, back |-> <<>>, on |-> <<m>>]
     IN /\ floor_holder' = r.holder
        /\ down' = [q \in PttPeers |-> down[q] \o (IF q = p THEN r.back ELSE r.on)]
  /\ up' = [up EXCEPT ![p] = Tail(@)]
  /\ UNCHANGED <<relayed, ptt_active, peer_ptt_active, calling, pressed, presses, lost, expired>>

\* External: a datagram is lost on its way to the relay or to the peer.
Lose(p) ==
  /\ lost < MaxLost[relayed] /\ lost' = lost + 1
  /\ \/ up[p] # <<>> /\ up' = [up EXCEPT ![p] = Tail(@)] /\ UNCHANGED down
     \/ down[p] # <<>> /\ down' = [down EXCEPT ![p] = Tail(@)] /\ UNCHANGED up
  /\ UNCHANGED <<relayed, ptt_active, peer_ptt_active, calling, pressed, presses,
                 floor_holder, expired>>

\* FLOOR_MAX_HOLD_SECS after the grant the floor is free.
PttHoldExpires ==
  /\ relayed /\ floor_holder # NoHolder
  /\ floor_holder' = NoHolder /\ expired' = TRUE
  /\ UNCHANGED <<relayed, ptt_active, peer_ptt_active, calling, pressed, presses, up, down, lost>>

PttNext ==
  \/ \E p \in PttPeers : ptt_press(p) \/ ptt_release(p) \/ SendNext(p)
  \/ \E p \in PttPeers : dispatch_packet(p) \/ Carry(p) \/ Lose(p)
  \/ PttHoldExpires

PttSpec == PttInit /\ [][PttNext]_pttVars

-----------------------------------------------------------------------------
Quiet == \A p \in PttPeers : calling[p] = <<>> /\ up[p] = <<>> /\ down[p] = <<>>

\* Once everything sent has arrived, is_peer_ptt_active() is what the other user's last
\* call was, through the relay's arbitration too.  In a direct call one lost datagram
\* never leaves a user who has released shown as talking: the release is sent twice.
IndicatorSettles ==
  Quiet => \A p \in PttPeers :
    /\ lost = 0 => peer_ptt_active[p] = pressed[Other(p)]
    /\ ~relayed /\ lost <= 1 => (peer_ptt_active[p] => pressed[Other(p)])

\* Through the relay, once everything has arrived, a session that has its flag set is
\* the one that the relay holds the floor for, so at most one has: both pressing at
\* once, denials that arrive after the next press, releases of a floor never had.
TalkerHasFloor ==
  Quiet /\ relayed /\ lost = 0 /\ ~expired =>
    \A p \in PttPeers : ptt_active[p] => floor_holder = p
=============================================================================
