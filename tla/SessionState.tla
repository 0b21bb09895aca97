---------------------------- MODULE SessionState ----------------------------
(***************************************************************************)
(* The session state machine of gravital-talk-core (session.rs): a table   *)
(* of transitions.  An event the table does not name is refused and leaves *)
(* the state alone.                                                        *)
(***************************************************************************)

States == {"Idle", "Handshaking", "Active", "Paused", "Closing", "Closed",
           "Error", "Reconnecting"}

\* SessionStateMachine::transition: the state an event leads to, or "Err".
Target(s, e) ==
  CASE s = "Idle" /\ e \in {"StartConnect", "StartAccept"} -> "Handshaking"
    [] s = "Handshaking" /\ e = "HandshakeOk" -> "Active"
    [] s = "Handshaking" /\ e \in {"HandshakeTimeout", "Close"} -> "Closed"
    [] s = "Active" /\ e = "Pause" -> "Paused"
    [] s = "Paused" /\ e = "Resume" -> "Active"
    [] s \in {"Active", "Paused"} /\ e \in {"Close", "PeerClosed", "PeerTimeout"} -> "Closing"
    [] s \in {"Handshaking", "Active", "Paused", "Reconnecting"} /\ e = "FatalError" -> "Error"
    [] s = "Closing" /\ e \in {"PeerClosed", "Close"} -> "Closed"
    [] s \in {"Error", "Closed"} /\ e = "Reconnect" -> "Reconnecting"
    [] s = "Reconnecting" /\ e \in {"StartConnect", "StartAccept", "ReconnectOk"} -> "Handshaking"
    [] s = "Reconnecting" /\ e = "HandshakeTimeout" -> "Error"
    [] OTHER -> "Err"

Legal(s, e) == Target(s, e) # "Err"

\* Mutant: a refused event is applied.
TransitionUnchecked(s, e) == Target(s, e)

\* The state after the event; the caller may ignore the refusal.
Transition(s, e) == IF Legal(s, e) THEN Target(s, e) ELSE s
=============================================================================
