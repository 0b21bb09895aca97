--------------------------- MODULE Session_proofs ---------------------------
(***************************************************************************)
(* Proofs about Session, for every number of clients, attempts, versions   *)
(* and codecs: what close() ends stays ended, what an established session  *)
(* has stored belongs to one attempt, and both ends agree on it.           *)
(***************************************************************************)
EXTENDS Session, TLAPS

-----------------------------------------------------------------------------
(* The state machine and close() *)

\* The states a session is in between two steps.
Resting == {"Idle", "Handshaking", "Active", "Closing", "Closed"}

Places == {"idle", "recv_server_hello", "recv_confirm", "check_hello", "recv_hello",
           "check_key_exchange", "recv_key_exchange", "store", "ok", "running", "stopped",
           "failed", "dead"}

\* Only the receive loop runs in Active.  After close() the one way out of Closed is the
\* walk of handshake_open back to Handshaking, which stands before a look at `closed`.
StateInv(s) ==
  /\ pc[s] = "idle" <=> state[s] = "Idle"
  /\ state[s] = "Active" => pc[s] \in {"running", "dead"}
  /\ cl[s] # "no" => closed[s]
  /\ cl[s] = "done" => \/ state[s] = "Closed"
                       \/ state[s] = "Handshaking" /\ pc[s] \in {"check_hello", "dead"}

FsmTypes ==
  /\ state \in [Sessions -> Resting]
  /\ pc \in [Sessions -> Places]
  /\ mode \in [Sessions -> {"known", "open"}]
  /\ closed \in [Sessions -> BOOLEAN]
  /\ cl \in [Sessions -> {"no", "flag", "keys", "sent", "done", "missed"}]

FsmInv == FsmTypes /\ \A s \in Sessions : StateInv(s)

\* What the events that Session uses make of a resting state.
LEMMA Transitions ==
  ASSUME NEW s \in Resting
  PROVE  /\ \A e \in {"StartConnect", "StartAccept"} :
              Transition(s, e) = IF s = "Idle" THEN "Handshaking" ELSE s
         /\ Transition(s, "HandshakeOk") = IF s = "Handshaking" THEN "Active" ELSE s
         /\ Legal(s, "HandshakeOk") <=> s = "Handshaking"
         /\ Transition(s, "HandshakeTimeout") = IF s = "Handshaking" THEN "Closed" ELSE s
         /\ Transition(s, "PeerClosed") =
              IF s = "Active" THEN "Closing" ELSE IF s = "Closing" THEN "Closed" ELSE s
         /\ Transition(s, "PeerTimeout") = IF s = "Active" THEN "Closing" ELSE s
         /\ Transition(s, "Close") = IF s \in {"Handshaking", "Closing"} THEN "Closed"
                                     ELSE IF s = "Active" THEN "Closing" ELSE s
  BY ZenonT(30) DEF Resting, Transition, Legal, Target

\* The walk of handshake_open after a failed attempt.
LEMMA Walk ==
  ASSUME NEW s \in Resting
  PROVE  Transition(Transition(Transition(s, "HandshakeTimeout"), "Reconnect"), "StartAccept") =
           IF s \in {"Idle", "Handshaking", "Closed"} THEN "Handshaking" ELSE s
<1>1. Transition(s, "HandshakeTimeout") = IF s = "Handshaking" THEN "Closed" ELSE s
  BY ZenonT(30), Transitions
<1>2. \A x \in Resting : Transition(x, "Reconnect") = IF x = "Closed" THEN "Reconnecting" ELSE x
  BY SMTT(60), SMTT(30) DEF Resting, Transition, Legal, Target
<1>3. \A x \in Resting \cup {"Reconnecting"} :
        Transition(x, "StartAccept") = IF x \in {"Idle", "Reconnecting"} THEN "Handshaking" ELSE x
  BY DEF Resting, Transition, Legal, Target
<1> QED
  BY <1>1, <1>2, <1>3 DEF Resting

\* A step moves the tasks of one session.
LEMMA OneMoves ==
  ASSUME FsmInv, NEW s \in Sessions, FsmTypes',
         \A u \in Sessions \ {s} : /\ state'[u] = state[u] /\ pc'[u] = pc[u]
                                   /\ cl'[u] = cl[u] /\ closed'[u] = closed[u],
         StateInv(s)'
  PROVE  FsmInv'
  BY DEF FsmInv, StateInv

LEMMA FailFsm ==
  ASSUME FsmInv, NEW s \in Sessions, Fail(s), pc[s] \notin {"idle", "running", "dead"},
         UNCHANGED <<mode, closed, cl>>
  PROVE  FsmInv'
<1>1. state[s] \in {"Handshaking", "Closing", "Closed"} /\ StateInv(s)
  BY DEF FsmInv, FsmTypes, StateInv, Resting
<1>2. /\ state' = [state EXCEPT ![s] = IF state[s] = "Handshaking" THEN "Closed" ELSE state[s]]
      /\ pc' = [pc EXCEPT ![s] = "failed"]
  BY ZenonT(30), <1>1, Transitions DEF Fail, Resting
<1>3. FsmTypes'
  BY Zenon, <1>1, <1>2 DEF FsmInv, FsmTypes, Places, Resting
<1>4. /\ pc'[s] = "failed" /\ state'[s] \in {"Closing", "Closed"}
      /\ cl'[s] = cl[s] /\ closed'[s] = closed[s]
      /\ state[s] = "Closed" => state'[s] = "Closed"
      /\ state[s] = "Handshaking" => state'[s] = "Closed"
  BY Zenon, <1>1, <1>2 DEF FsmInv, FsmTypes
<1>5. StateInv(s)'
  BY Zenon, <1>1, <1>4 DEF StateInv
<1> QED
  BY Zenon, <1>2, <1>3, <1>5, OneMoves DEF FsmInv, FsmTypes

LEMMA FailAttemptFsm ==
  ASSUME FsmInv, FailAttempt, pc[Server] \notin {"idle", "running", "dead"},
         UNCHANGED <<mode, closed, cl>>
  PROVE  FsmInv'
<1>1. CASE mode[Server] = "known"
  BY Zenon, <1>1, FailFsm DEF FailAttempt, Sessions
<1>2. CASE mode[Server] # "known"
  <2>1. state[Server] \in {"Handshaking", "Closing", "Closed"} /\ StateInv(Server) /\ Server \in Sessions
    BY Zenon DEF FsmInv, FsmTypes, StateInv, Resting, Sessions
  <2>2. /\ state' = [state EXCEPT ![Server] =
                       IF state[Server] = "Closing" THEN "Closing" ELSE "Handshaking"]
        /\ pc' = [pc EXCEPT ![Server] = "check_hello"]
    BY ZenonT(30), <1>2, <2>1, Walk DEF FailAttempt, Resting
  <2>3. FsmTypes'
    BY Zenon, <2>1, <2>2 DEF FsmInv, FsmTypes, Places, Resting
  <2>4. /\ pc'[Server] = "check_hello" /\ cl'[Server] = cl[Server] /\ closed'[Server] = closed[Server]
        /\ state'[Server] = IF state[Server] = "Closing" THEN "Closing" ELSE "Handshaking"
    BY Zenon, <2>1, <2>2 DEF FsmInv, FsmTypes
  <2>5. StateInv(Server)'
    BY Zenon, <2>1, <2>4 DEF StateInv
  <2> QED
    BY Zenon, <2>1, <2>2, <2>3, <2>5, OneMoves DEF FsmInv, FsmTypes
<1> QED
  BY Zenon, <1>1, <1>2

\* Steps that leave the state machine and close() alone, and move the task of s on.
Midway == Places \ {"idle", "dead"}

LEMMA GoesOnFsm ==
  ASSUME FsmInv, NEW s \in Sessions, \E at \in Midway : pc' = [pc EXCEPT ![s] = at],
         pc[s] \notin {"idle", "running", "dead"},
         pc[s] = "check_hello" => cl[s] = "no",
         UNCHANGED <<state, mode, closed, cl>>
  PROVE  FsmInv'
<1>1. StateInv(s)
  BY Zenon DEF FsmInv
<1>2. pc'[s] \in Midway /\ FsmTypes'
  BY Zenon DEF FsmInv, FsmTypes, Midway
<1>3. StateInv(s)'
  BY Zenon, <1>1, <1>2 DEF StateInv, Midway
<1> QED
  BY Zenon, <1>2, <1>3, OneMoves DEF FsmInv, FsmTypes

LEMMA StartsFsm ==
  ASSUME FsmInv, NEW s \in Sessions, pc[s] = "idle",
         \E e \in {"StartConnect", "StartAccept"} : state' = [state EXCEPT ![s] = Transition(@, e)],
         \E at \in Midway : pc' = [pc EXCEPT ![s] = at],
         mode' \in [Sessions -> {"known", "open"}], UNCHANGED <<closed, cl>>
  PROVE  FsmInv'
<1>1. state[s] = "Idle" /\ StateInv(s)
  BY Zenon DEF FsmInv, StateInv
<1>2. state' = [state EXCEPT ![s] = "Handshaking"]
  <2>1. "Idle" \in Resting
    BY Zenon DEF Resting
  <2>2. \A e \in {"StartConnect", "StartAccept"} : Transition("Idle", e) = "Handshaking"
    BY <2>1, Transitions
  <2> QED
    BY Zenon, <1>1, <2>2
<1>3. FsmTypes' /\ pc'[s] \in Midway /\ state'[s] = "Handshaking"
  BY ZenonT(30), <1>2 DEF FsmInv, FsmTypes, Resting, Midway
<1>4. StateInv(s)'
  BY Zenon, <1>1, <1>3 DEF StateInv, Midway
<1> QED
  BY Zenon, <1>2, <1>3, <1>4, OneMoves DEF FsmInv, FsmTypes

LEMMA ClientFsm ==
  ASSUME FsmInv, NEW c \in Clients, ClientStep(c)
  PROVE  FsmInv'
<1>1. c \in Sessions
  BY Zenon DEF Sessions
<1>2. CASE StartConnect(c)
  <2>1. /\ pc[c] = "idle" /\ mode' \in [Sessions -> {"known", "open"}] /\ UNCHANGED <<closed, cl>>
        /\ \E e \in {"StartConnect", "StartAccept"} : state' = [state EXCEPT ![c] = Transition(@, e)]
        /\ \E at \in Midway : pc' = [pc EXCEPT ![c] = at]
    BY Zenon, <1>2 DEF StartConnect, FsmInv, FsmTypes, closeVars, Midway, Places
  <2> QED
    BY Zenon, <1>1, <2>1, StartsFsm
<1>3. CASE RetryHello(c)
  BY Zenon, <1>3 DEF RetryHello, fsmVars, taskVars, closeVars, FsmInv, FsmTypes, StateInv
<1>4. CASE Crash(c)
  <2>1. pc' = [pc EXCEPT ![c] = "dead"] /\ UNCHANGED <<state, mode, closed, cl>> /\ pc[c] # "idle"
    BY Zenon, <1>4 DEF Crash, fsmVars, closeVars
  <2>2. FsmTypes' /\ pc'[c] = "dead" /\ StateInv(c)
    BY Zenon, <1>1, <2>1 DEF FsmInv, FsmTypes, Places
  <2>3. StateInv(c)'
    BY Zenon, <2>1, <2>2 DEF StateInv
  <2> QED
    BY Zenon, <1>1, <2>1, <2>2, <2>3, OneMoves DEF FsmInv, FsmTypes
<1>5. ASSUME NEW m \in net, RecvServerHello(c, m) PROVE FsmInv'
  <2>1. pc[c] = "recv_server_hello" /\ UNCHANGED <<mode, closed, cl>>
    BY Zenon, <1>5 DEF RecvServerHello, closeVars
  <2>2. CASE Fail(c)
    BY Zenon, <1>1, <2>1, <2>2, FailFsm
  <2>3. CASE pc' = [pc EXCEPT ![c] = "recv_confirm"] /\ UNCHANGED state
    <3>1. (\E at \in Midway : pc' = [pc EXCEPT ![c] = at]) /\ UNCHANGED <<state, mode, closed, cl>>
      BY Zenon, <2>1, <2>3 DEF Midway, Places
    <3> QED
      BY Zenon, <1>1, <2>1, <3>1, GoesOnFsm
  <2> QED
    BY Zenon, <1>5, <2>2, <2>3 DEF RecvServerHello
<1>6. ASSUME NEW m \in net, RecvConfirm(c, m) PROVE FsmInv'
  <2>1. pc[c] = "recv_confirm" /\ UNCHANGED <<mode, closed, cl>>
    BY Zenon, <1>6 DEF RecvConfirm, closeVars
  <2>2. CASE Fail(c)
    BY Zenon, <1>1, <2>1, <2>2, FailFsm
  <2>3. CASE pc' = [pc EXCEPT ![c] = "store"] /\ UNCHANGED state
    <3>1. (\E at \in Midway : pc' = [pc EXCEPT ![c] = at]) /\ UNCHANGED <<state, mode, closed, cl>>
      BY Zenon, <2>1, <2>3 DEF Midway, Places
    <3> QED
      BY Zenon, <1>1, <2>1, <3>1, GoesOnFsm
  <2> QED
    BY Zenon, <1>6, <2>2, <2>3 DEF RecvConfirm
<1> QED
  BY Zenon, <1>2, <1>3, <1>4, <1>5, <1>6 DEF ClientStep

LEMMA CheckClosedFsm == ASSUME FsmInv, CheckClosed PROVE FsmInv'
<1>1. /\ Server \in Sessions /\ StateInv(Server) /\ UNCHANGED <<mode, closed, cl>>
      /\ pc[Server] \in {"check_hello", "check_key_exchange"}
  BY Zenon DEF CheckClosed, FsmInv, Sessions, closeVars
<1>2. CASE ~closed[Server]
  <2>1. \E at \in Midway : pc' = [pc EXCEPT ![Server] = at]
    BY Zenon, <1>1, <1>2 DEF CheckClosed, Midway, Places
  <2>2. cl[Server] = "no" /\ UNCHANGED <<state, mode, closed, cl>>
    BY Zenon, <1>1, <1>2 DEF StateInv, CheckClosed
  <2> QED
    BY Zenon, <1>1, <2>1, <2>2, GoesOnFsm
<1>3. CASE closed[Server] /\ mode[Server] = "known"
  <2>1. Fail(Server)
    BY Zenon, <1>3 DEF CheckClosed
  <2> QED
    BY Zenon, <1>1, <2>1, FailFsm
<1>4. CASE closed[Server] /\ mode[Server] # "known"
  <2>1. state[Server] \in {"Handshaking", "Closing", "Closed"}
    BY Zenon, <1>1 DEF FsmInv, FsmTypes, StateInv, Resting
  <2>2. state' = [state EXCEPT ![Server] = "Closed"] /\ pc' = [pc EXCEPT ![Server] = "failed"]
    BY <1>4, <2>1, Transitions DEF CheckClosed, Resting
  <2>3. FsmTypes' /\ state'[Server] = "Closed" /\ pc'[Server] = "failed"
    BY Zenon, <1>1, <2>2 DEF FsmInv, FsmTypes, Resting, Places
  <2>4. StateInv(Server)'
    BY Zenon, <1>1, <2>3 DEF StateInv
  <2> QED
    BY Zenon, <1>1, <2>2, <2>3, <2>4, OneMoves DEF FsmInv, FsmTypes
<1> QED
  BY Zenon, <1>2, <1>3, <1>4

LEMMA ServerFsm == ASSUME FsmInv, ServerStep PROVE FsmInv'
<1>1. Server \in Sessions
  BY Zenon DEF Sessions
<1>2. ASSUME NEW addr, NEW m \in {"known", "open"}, StartAccept(addr, m) PROVE FsmInv'
  <2>1. /\ pc[Server] = "idle" /\ mode' \in [Sessions -> {"known", "open"}] /\ UNCHANGED <<closed, cl>>
        /\ \E e \in {"StartConnect", "StartAccept"} :
             state' = [state EXCEPT ![Server] = Transition(@, e)]
    BY Zenon, <1>2 DEF StartAccept, FsmInv, FsmTypes, closeVars
  <2>2. \E at \in Midway : pc' = [pc EXCEPT ![Server] = at]
    <3>1. "check_hello" \in Midway /\ "recv_hello" \in Midway
      BY Zenon DEF Midway, Places
    <3>2. pc' = [pc EXCEPT ![Server] = "check_hello"] \/ pc' = [pc EXCEPT ![Server] = "recv_hello"]
      BY Zenon, <1>2 DEF StartAccept
    <3> QED
      BY Zenon, <3>1, <3>2
  <2> QED
    BY Zenon, <1>1, <2>1, <2>2, StartsFsm
<1>3. CASE RecvNothing
  <2>1. /\ pc[Server] \in {"recv_hello", "recv_key_exchange"} /\ UNCHANGED <<state, mode, closed, cl>>
        /\ \E at \in Midway : pc' = [pc EXCEPT ![Server] = at]
    BY Zenon, <1>3 DEF RecvNothing, fsmVars, closeVars, Midway, Places
  <2> QED
    BY Zenon, <1>1, <2>1, GoesOnFsm
<1>4. ASSUME NEW m \in net, RecvHello(m) PROVE FsmInv'
  <2>1. pc[Server] = "recv_hello" /\ UNCHANGED <<mode, closed, cl>>
    BY Zenon, <1>4 DEF RecvHello, closeVars
  <2>2. CASE FailAttempt
    BY Zenon, <2>1, <2>2, FailAttemptFsm
  <2>3. CASE pc' = [pc EXCEPT ![Server] = "check_key_exchange"] /\ UNCHANGED state
    <3>1. (\E at \in Midway : pc' = [pc EXCEPT ![Server] = at]) /\ UNCHANGED <<state, mode, closed, cl>>
      BY Zenon, <2>1, <2>3 DEF Midway, Places
    <3> QED
      BY Zenon, <1>1, <2>1, <3>1, GoesOnFsm
  <2> QED
    BY Zenon, <1>4, <2>2, <2>3 DEF RecvHello
<1>5. ASSUME NEW m \in net, RepeatServerHello(m) PROVE FsmInv'
  <2>1. /\ pc[Server] = "recv_key_exchange" /\ UNCHANGED <<state, mode, closed, cl>>
        /\ \E at \in Midway : pc' = [pc EXCEPT ![Server] = at]
    BY Zenon, <1>5 DEF RepeatServerHello, fsmVars, closeVars, Midway, Places
  <2> QED
    BY Zenon, <1>1, <2>1, GoesOnFsm
<1>6. ASSUME NEW m \in net, RecvKeyExchange(m) PROVE FsmInv'
  <2>1. pc[Server] = "recv_key_exchange" /\ UNCHANGED <<mode, closed, cl>>
    BY Zenon, <1>6 DEF RecvKeyExchange, closeVars
  <2>2. CASE FailAttempt
    BY Zenon, <2>1, <2>2, FailAttemptFsm
  <2>3. CASE pc' = [pc EXCEPT ![Server] = "store"] /\ UNCHANGED state
    <3>1. (\E at \in Midway : pc' = [pc EXCEPT ![Server] = at]) /\ UNCHANGED <<state, mode, closed, cl>>
      BY Zenon, <2>1, <2>3 DEF Midway, Places
    <3> QED
      BY Zenon, <1>1, <2>1, <3>1, GoesOnFsm
  <2> QED
    BY Zenon, <1>6, <2>2, <2>3 DEF RecvKeyExchange
<1> QED
  BY Zenon, <1>2, <1>3, <1>4, <1>5, <1>6, CheckClosedFsm DEF ServerStep

LEMMA HandshakeOkFsm == ASSUME FsmInv, NEW s \in Sessions, HandshakeOk(s) PROVE FsmInv'
<1>1. /\ pc[s] = "ok" /\ StateInv(s) /\ state[s] \in {"Handshaking", "Closing", "Closed"}
      /\ UNCHANGED <<mode, closed, cl>>
  BY Zenon DEF HandshakeOk, FsmInv, FsmTypes, StateInv, Resting, closeVars
<1>2. /\ state' = [state EXCEPT ![s] = IF state[s] = "Handshaking" THEN "Active" ELSE state[s]]
      /\ pc' = [pc EXCEPT ![s] = IF state[s] = "Handshaking" THEN "running" ELSE "failed"]
  BY ZenonT(30), <1>1, Transitions DEF HandshakeOk, Resting
<1>3. /\ FsmTypes'
      /\ state'[s] = IF state[s] = "Handshaking" THEN "Active" ELSE state[s]
      /\ pc'[s] = IF state[s] = "Handshaking" THEN "running" ELSE "failed"
  BY Zenon, <1>1, <1>2 DEF FsmInv, FsmTypes, Resting, Places
<1>4. StateInv(s)'
  BY Zenon, <1>1, <1>3 DEF StateInv
<1> QED
  BY Zenon, <1>1, <1>2, <1>3, <1>4, OneMoves DEF FsmInv, FsmTypes

\* The receive loop leaves Active for Closing, and nothing else for anything.
LEMMA StopsFsm ==
  ASSUME FsmInv, NEW s \in Sessions, pc[s] = "running",
         \E e \in {"PeerClosed", "PeerTimeout"} : state' = [state EXCEPT ![s] = Transition(@, e)],
         pc' = [pc EXCEPT ![s] = "stopped"], UNCHANGED <<mode, closed, cl>>
  PROVE  FsmInv'
<1>1. state[s] \in Resting \ {"Idle"} /\ StateInv(s)
  BY Zenon DEF FsmInv, FsmTypes, StateInv
<1>2. PICK x \in Resting \ {"Idle", "Active"} :
        /\ state' = [state EXCEPT ![s] = x]
        /\ state[s] = "Closed" => x = "Closed"
  <2>1. state[s] \in Resting
    BY Zenon, <1>1
  <2>2. \A e \in {"PeerClosed", "PeerTimeout"} :
          LET x == Transition(state[s], e)
          IN x \in Resting \ {"Idle", "Active"} /\ (state[s] = "Closed" => x = "Closed")
    BY <1>1, <2>1, Transitions DEF Resting
  <2> QED
    BY Zenon, <2>2
<1>3. FsmTypes' /\ pc'[s] = "stopped" /\ state'[s] = x
  BY Zenon, <1>2 DEF FsmInv, FsmTypes, Places
<1>4. StateInv(s)'
  BY Zenon, <1>1, <1>2, <1>3 DEF StateInv
<1> QED
  BY Zenon, <1>2, <1>3, <1>4, OneMoves DEF FsmInv, FsmTypes

LEMMA CloseFsm ==
  ASSUME FsmInv, NEW s \in Sessions,
         CloseFlag(s) \/ CloseKeys(s) \/ CloseSend(s) \/ CloseFinish(s)
  PROVE  FsmInv'
<1>1. StateInv(s) /\ state[s] \in Resting /\ UNCHANGED <<pc, mode>>
  BY Zenon DEF FsmInv, FsmTypes, CloseFlag, CloseKeys, CloseSend, CloseFinish, taskVars
<1>2. CASE CloseFinish(s)
  <2>1. /\ state' = [state EXCEPT ![s] = IF state[s] = "Idle" THEN "Idle" ELSE "Closed"]
        /\ cl' = [cl EXCEPT ![s] = IF state[s] = "Idle" THEN "missed" ELSE "done"]
        /\ cl[s] = "sent" /\ UNCHANGED closed
    BY ZenonT(30), <1>1, <1>2, Transitions DEF CloseFinish, Resting
  <2>2. /\ FsmTypes'
        /\ state'[s] = IF state[s] = "Idle" THEN "Idle" ELSE "Closed"
        /\ cl'[s] = IF state[s] = "Idle" THEN "missed" ELSE "done"
    BY Zenon, <1>1, <2>1 DEF FsmInv, FsmTypes, Resting
  <2>3. StateInv(s)'
    BY <1>1, <2>1, <2>2 DEF StateInv
  <2> QED
    BY Zenon, <1>1, <2>1, <2>2, <2>3, OneMoves DEF FsmInv, FsmTypes
<1>3. CASE CloseFlag(s) \/ CloseKeys(s) \/ CloseSend(s)
  <2>1. PICK at \in {"flag", "keys", "sent"} :
          /\ cl' = [cl EXCEPT ![s] = at]
          /\ UNCHANGED state
          /\ \/ UNCHANGED closed /\ cl[s] # "no"
             \/ closed' = [closed EXCEPT ![s] = TRUE]
    BY Zenon, <1>3 DEF CloseFlag, CloseKeys, CloseSend, fsmVars
  <2>2. FsmTypes' /\ cl'[s] = at /\ closed'[s]
    BY ZenonT(30), <1>1, <2>1 DEF FsmInv, FsmTypes, StateInv
  <2>3. StateInv(s)'
    BY Zenon, <1>1, <2>1, <2>2 DEF StateInv
  <2> QED
    BY Zenon, <1>1, <2>1, <2>2, <2>3, OneMoves DEF FsmInv, FsmTypes
<1> QED
  BY Zenon, <1>2, <1>3

LEMMA FsmNextInv == FsmInv /\ [Next]_vars => FsmInv'
<1> SUFFICES ASSUME FsmInv, [Next]_vars PROVE FsmInv'
  OBVIOUS
<1>1. ASSUME UNCHANGED <<state, pc, mode, closed, cl>> PROVE FsmInv'
  BY Zenon, <1>1 DEF FsmInv, FsmTypes, StateInv
<1>2. ASSUME NEW s \in Sessions, SessionStep(s) \/ PollTimeout(s) \/ SendAudio(s) \/ CloseFlag(s)
      PROVE  FsmInv'
  <2>1. CASE HandshakeTimeout(s)
    <3>1. pc[s] \notin {"idle", "running", "dead"} /\ UNCHANGED <<mode, closed, cl>>
      BY Zenon, <2>1 DEF HandshakeTimeout, closeVars
    <3> QED
      BY Zenon, <2>1, <3>1, FailFsm, FailAttemptFsm DEF HandshakeTimeout
  <2>2. CASE StoreKeys(s)
    <3>1. /\ pc[s] = "store" /\ UNCHANGED <<state, mode, closed, cl>>
          /\ \E at \in Midway : pc' = [pc EXCEPT ![s] = at]
      BY Zenon, <2>2 DEF StoreKeys, fsmVars, closeVars, Midway, Places
    <3> QED
      BY Zenon, <3>1, GoesOnFsm
  <2>3. CASE HandshakeOk(s)
    BY Zenon, <2>3, HandshakeOkFsm
  <2>4. ASSUME NEW m \in net, Dispatch(s, m) PROVE FsmInv'
    <3>1. pc[s] = "running" /\ UNCHANGED <<mode, closed, cl>>
      BY Zenon, <2>4 DEF Dispatch, closeVars
    <3>2. CASE m.type = "Close"
      BY Zenon, <2>4, <3>1, <3>2, StopsFsm DEF Dispatch
    <3>3. CASE m.type # "Close"
      BY Zenon, <1>1, <2>4, <3>1, <3>3 DEF Dispatch
    <3> QED
      BY Zenon, <3>2, <3>3
  <2>5. CASE PollTimeout(s)
    <3>1. pc[s] = "running" /\ UNCHANGED <<mode, closed, cl>>
      BY Zenon, <2>5 DEF PollTimeout, closeVars
    <3>2. CASE last_rx[s] = "old"
      BY Zenon, <2>5, <3>1, <3>2, StopsFsm DEF PollTimeout
    <3>3. CASE last_rx[s] # "old"
      BY Zenon, <1>1, <2>5, <3>1, <3>3 DEF PollTimeout
    <3> QED
      BY Zenon, <3>2, <3>3
  <2>6. CASE Silence(s) \/ SendAudio(s)
    BY Zenon, <1>1, <2>6 DEF Silence, SendAudio, fsmVars, taskVars, closeVars
  <2> QED
    BY Zenon, <1>2, <2>1, <2>2, <2>3, <2>4, <2>5, <2>6, CloseFsm DEF SessionStep
<1>3. CASE UNCHANGED vars
  BY Zenon, <1>1, <1>3 DEF vars, fsmVars, taskVars, closeVars
<1>4. Pollers \subseteq Sessions /\ Talkers \subseteq Sessions /\ Closers \subseteq Sessions
  BY Zenon, SessionsAssumption
<1> QED
  BY Zenon, <1>2, <1>3, <1>4, ClientFsm, ServerFsm DEF Next

LEMMA FsmInitInv == Init => FsmInv
  BY DEF Init, FsmInv, FsmTypes, StateInv, Resting, Places

\* A close() that found a handshake begun is not undone: neither the end of a handshake
\* that was still running nor the walk of handshake_open back to Handshaking brings the
\* session to Active again (close, handshake and handshake_open of session.rs).
THEOREM CloseStaysFinal == Spec => []CloseIsFinal
<1>1. FsmInv => CloseIsFinal
  BY Zenon DEF FsmInv, StateInv, CloseIsFinal
<1> QED
  BY FsmInitInv, FsmNextInv, <1>1, PTL DEF Spec

-----------------------------------------------------------------------------
(* The attempts *)

Addresses == {Addr[s] : s \in Sessions}
Alive(c) == pc[c] \notin {"idle", "dead"}

\* A client's attempt comes after those of the clients that had its address before.
Later(c, n) ==
  Alive(c) => \A d \in Clients \ {c} : Addr[d] = Addr[c] => hs[d].n < n

AttemptTypes ==
  /\ peer \in [Sessions -> Addresses \cup {Nil}]
  /\ sid \in [Sessions -> 0 .. MaxAttempts]
  /\ enc \in [Sessions -> Keys \cup {Nil}]
  /\ dec \in [Sessions -> Keys \cup {Nil}]
  /\ last_rx \in [Sessions -> {"never", "recent", "old"}]
  /\ attempts \in 0 .. MaxAttempts
  /\ codec = [s \in Sessions |-> codec[s]]
  /\ hs = [s \in Sessions |-> hs[s]]
  /\ \A s \in Sessions : hs[s].n \in Nat /\ hs[s].n <= hs[Server].n
  /\ hs[Server].n <= attempts

\* One process at a time owns an address.
AloneInv ==
  \A c, d \in Clients : c # d /\ Addr[c] = Addr[d] => ~(Alive(c) /\ Alive(d))

\* What a client knows: of its attempt since the ServerHello, that the server holds the
\* attempt to be this client's since the SessionConfirm, its keys when they are stored.
ClientInv(c) ==
  /\ pc[c] \in {"idle", "recv_server_hello"} => hs[c].n = 0
  /\ pc[c] \in {"recv_confirm", "store", "ok", "running"} =>
       hs[c].client = c /\ hs[c].n > 0 /\ InSeq(hs[c].codec, Supported[c])
  /\ hs[c].n > 0 /\ hs[c].n = hs[Server].n => hs[c].codec = hs[Server].codec
  /\ pc[c] \in {"store", "ok", "running"} =>
       sid[c] = hs[c].n /\ codec[c] = hs[c].codec /\ Later(c, hs[c].n)
  /\ pc[c] \in {"ok", "running"} /\ ~closed[c] =>
       enc[c] = Key(c, hs[c].n, "up") /\ dec[c] = Key(c, hs[c].n, "down")

\* What the server knows of the client of its last attempt.
Partner(c) ==
  /\ c \in Clients /\ pc[c] # "idle" /\ Later(c, hs[Server].n)
  /\ InSeq(hs[Server].codec, Supported[Server])
  /\ pc[Server] \in {"check_key_exchange", "recv_key_exchange", "store", "ok", "running"} =>
       /\ sid[Server] = hs[Server].n /\ codec[Server] = hs[Server].codec
       /\ peer[Server] = Addr[c]
  /\ pc[Server] \in {"store", "ok", "running"} => hs[c].n = hs[Server].n
  /\ pc[Server] \in {"ok", "running"} /\ ~closed[Server] =>
       enc[Server] = Key(c, hs[Server].n, "down") /\ dec[Server] = Key(c, hs[Server].n, "up")

ServerInv ==
  /\ pc[Server] \in {"check_key_exchange", "recv_key_exchange", "store", "ok", "running"} =>
       hs[Server].n > 0
  /\ hs[Server].n > 0 => Partner(hs[Server].client)

\* What a datagram in flight says of the attempt it belongs to.
MessageInv(m) ==
  /\ m.type = "ClientHello" =>
       m.client \in Clients /\ m.from = Addr[m.client] /\ pc[m.client] # "idle"
  /\ m.type = "ServerHello" =>
       /\ m.n \in Nat /\ m.n > 0 /\ m.n <= hs[Server].n
       /\ m.n = hs[Server].n => m.codec = hs[Server].codec
  /\ m.type = "KeyExchange" =>
       \E c \in Clients : m.tag = Key(c, m.n, "up") /\ m.n = hs[c].n /\ m.n > 0
  /\ m.type = "SessionConfirm" =>
       \E c \in Clients :
         m.tag = Key(c, m.n, "down") /\ m.n = hs[c].n /\ m.n > 0 /\ Later(c, m.n)

AttemptInv ==
  /\ AttemptTypes /\ AloneInv /\ ServerInv
  /\ \A c \in Clients : ClientInv(c)
  /\ \A m \in net : MessageInv(m)

-----------------------------------------------------------------------------
(* What a step leaves true of the sessions it does not concern *)

\* No client comes back, a client's attempt changes with its ServerHello only, and the
\* server's attempts are numbered upwards.
Moves ==
  /\ \A c \in Clients :
       /\ pc[c] # "idle" => pc'[c] # "idle"
       /\ pc[c] = "dead" => pc'[c] = "dead"
       /\ hs'[c] = hs[c] \/ pc[c] = "recv_server_hello"
  /\ hs'[Server] = hs[Server] \/ (hs'[Server].n \in Nat /\ hs'[Server].n > hs[Server].n)

LEMMA LaterStays ==
  ASSUME AloneInv, Moves, NEW c \in Clients, NEW n, pc[c] # "idle", Later(c, n)
  PROVE  Later(c, n)'
<1> SUFFICES ASSUME Alive(c)', NEW d \in Clients \ {c}, Addr[d] = Addr[c]
             PROVE  hs'[d].n < n
  BY Zenon DEF Later
<1>1. Alive(c)
  BY Zenon DEF Moves, Alive
<1>2. hs[d].n < n /\ ~Alive(d)
  BY Zenon, <1>1 DEF Later, AloneInv
<1>3. hs'[d] = hs[d]
  BY Zenon, <1>2 DEF Moves, Alive
<1> QED
  BY Zenon, <1>2, <1>3

\* A client whose attempt has a number has had its ServerHello.
LEMMA Numbered ==
  ASSUME AttemptInv, Moves, NEW c \in Clients, hs[c].n > 0
  PROVE  pc[c] # "idle" /\ hs'[c] = hs[c]
<1>1. hs[c].n \in Nat /\ ClientInv(c)
  BY Zenon DEF AttemptInv, AttemptTypes, Sessions
<1>2. pc[c] \notin {"idle", "recv_server_hello"}
  BY <1>1 DEF ClientInv
<1> QED
  BY Zenon, <1>2 DEF Moves

LEMMA MessageStays ==
  ASSUME AttemptInv, Moves, NEW m \in net
  PROVE  MessageInv(m)'
<1>1. MessageInv(m) /\ AloneInv /\ hs[Server].n \in Nat
  BY Zenon DEF AttemptInv, AttemptTypes, Sessions
<1>2. CASE m.type = "ClientHello"
  BY Zenon, <1>1, <1>2 DEF MessageInv, Moves
<1>3. CASE m.type = "ServerHello"
  BY <1>1, <1>3 DEF MessageInv, Moves
<1>4. CASE m.type = "KeyExchange"
  <2>1. PICK c \in Clients : m.tag = Key(c, m.n, "up") /\ m.n = hs[c].n /\ m.n > 0
    BY Zenon, <1>1, <1>4 DEF MessageInv
  <2>2. hs'[c] = hs[c]
    BY Zenon, <2>1, Numbered
  <2> QED
    BY Zenon, <1>4, <2>1, <2>2 DEF MessageInv
<1>5. CASE m.type = "SessionConfirm"
  <2>1. PICK c \in Clients : /\ m.tag = Key(c, m.n, "down") /\ m.n = hs[c].n /\ m.n > 0
                             /\ Later(c, m.n)
    BY Zenon, <1>1, <1>5 DEF MessageInv
  <2>2. hs'[c] = hs[c] /\ pc[c] # "idle"
    BY Zenon, <2>1, Numbered
  <2>3. Later(c, m.n)'
    BY Zenon, <1>1, <2>1, <2>2, LaterStays
  <2> QED
    BY Zenon, <1>5, <2>1, <2>2, <2>3 DEF MessageInv
<1> QED
  BY Zenon, <1>2, <1>3, <1>4, <1>5 DEF MessageInv

\* The task of s is where what it knows is no more than what it was.
Stays(s) ==
  \/ pc'[s] \in {"check_hello", "recv_hello", "stopped", "failed", "dead"}
  \/ /\ \/ pc'[s] = pc[s]
        \/ {pc[s], pc'[s]} \subseteq {"check_key_exchange", "recv_key_exchange"}
        \/ pc[s] = "ok" /\ pc'[s] = "running"
     /\ sid'[s] = sid[s] /\ codec'[s] = codec[s] /\ peer'[s] = peer[s]
     /\ closed'[s] \/ (~closed[s] /\ enc'[s] = enc[s] /\ dec'[s] = dec[s])

LEMMA ClientStays ==
  ASSUME AttemptInv, Moves, NEW c \in Clients, Stays(c), hs'[c] = hs[c]
  PROVE  ClientInv(c)'
<1>1. ClientInv(c) /\ AloneInv /\ hs[c].n \in Nat /\ hs[Server].n \in Nat /\ hs[c].n <= hs[Server].n
  BY Zenon DEF AttemptInv, AttemptTypes, Sessions
<1>2. hs[c].n > 0 /\ hs[c].n = hs'[Server].n => hs[c].codec = hs'[Server].codec
  BY <1>1 DEF ClientInv, Moves
<1>3. ASSUME pc'[c] \in {"store", "ok", "running"} PROVE Later(c, hs[c].n)'
  <2>1. pc[c] \in {"store", "ok", "running"}
    BY Zenon, <1>3 DEF Stays
  <2> QED
    BY Zenon, <1>1, <2>1, LaterStays DEF ClientInv
<1> QED
  BY Zenon, <1>1, <1>2, <1>3 DEF ClientInv, Stays

LEMMA ServerStays ==
  ASSUME AttemptInv, Moves, Stays(Server), hs'[Server] = hs[Server]
  PROVE  ServerInv'
<1>1. ServerInv /\ AloneInv /\ hs[Server].n \in Nat
  BY Zenon DEF AttemptInv, AttemptTypes, Sessions
<1>2. \A P \in {{"check_key_exchange", "recv_key_exchange", "store", "ok", "running"},
                {"store", "ok", "running"}, {"ok", "running"}} : pc'[Server] \in P => pc[Server] \in P
  BY Zenon DEF Stays
<1>3. ASSUME hs[Server].n > 0 PROVE Partner(hs[Server].client)'
  <2> PICK c : c = hs[Server].client
    OBVIOUS
  <2>1. Partner(c)
    BY Zenon, <1>1, <1>3 DEF ServerInv
  <2>2. pc'[c] # "idle"
    BY Zenon, <2>1 DEF Partner, Moves
  <2>3. Later(c, hs[Server].n)'
    BY Zenon, <1>1, <2>1, LaterStays DEF Partner
  <2>4. pc[Server] \in {"store", "ok", "running"} => hs'[c] = hs[c]
    BY Zenon, <1>3, <2>1, Numbered DEF Partner
  <2>5. Partner(c)'
    BY Zenon, <1>2, <2>1, <2>2, <2>3, <2>4 DEF Partner, Stays
  <2> QED
    BY Zenon, <2>5
<1> QED
  BY Zenon, <1>1, <1>2, <1>3 DEF ServerInv

\* Steps in which nobody learns anything of an attempt.
LEMMA NothingLearnt ==
  ASSUME AttemptInv, AttemptTypes', hs' = hs,
         \A c \in Clients : /\ pc[c] # "idle" => pc'[c] # "idle"
                            /\ Alive(c)' => Alive(c),
         \A s \in Sessions : Stays(s),
         \A m \in net' : m \in net \/ MessageInv(m)'
  PROVE  AttemptInv'
<1>1. Moves
  BY Zenon DEF Moves, Alive
<1>2. AloneInv'
  BY Zenon DEF AttemptInv, AloneInv
<1>3. \A c \in Clients : ClientInv(c)'
  BY Zenon, <1>1, ClientStays DEF Sessions
<1>4. ServerInv'
  BY Zenon, <1>1, ServerStays DEF Sessions
<1>5. \A m \in net' : MessageInv(m)'
  BY Zenon, <1>1, MessageStays
<1> QED
  BY Zenon, <1>2, <1>3, <1>4, <1>5 DEF AttemptInv

\* A session's task stops, or the server goes back to waiting for a ClientHello.
LEMMA OneStops ==
  ASSUME FsmInv, AttemptInv, AttemptTypes', hs' = hs,
         NEW s \in Sessions, s = Server \/ Alive(s),
         \E at \in {"check_hello", "recv_hello", "stopped", "failed", "dead"} :
           pc' = [pc EXCEPT ![s] = at],
         \A u \in Sessions \ {s} : /\ sid'[u] = sid[u] /\ codec'[u] = codec[u] /\ peer'[u] = peer[u]
                                   /\ enc'[u] = enc[u] /\ dec'[u] = dec[u] /\ closed'[u] = closed[u],
         \A m \in net' : m \in net \/ MessageInv(m)'
  PROVE  AttemptInv'
<1>1. /\ pc'[s] \in {"check_hello", "recv_hello", "stopped", "failed", "dead"}
      /\ \A u \in Sessions \ {s} : pc'[u] = pc[u]
  BY Zenon DEF FsmInv, FsmTypes
<1>2. \A c \in Clients : (pc[c] # "idle" => pc'[c] # "idle") /\ (Alive(c)' => Alive(c))
  BY ZenonT(30), <1>1, SessionsAssumption DEF Alive, Sessions
<1>3. ASSUME NEW u \in Sessions PROVE Stays(u)
  BY Zenon, <1>1 DEF Stays, FsmInv, FsmTypes
<1> QED
  BY Zenon, <1>2, <1>3, NothingLearnt

\* Nobody's task moves.
LEMMA TasksRest ==
  ASSUME AttemptInv, AttemptTypes', UNCHANGED <<pc, hs, sid, codec, peer>>,
         \A s \in Sessions : closed'[s] \/ (~closed[s] /\ enc'[s] = enc[s] /\ dec'[s] = dec[s]),
         \A m \in net' : m \in net \/ MessageInv(m)'
  PROVE  AttemptInv'
<1>1. \A s \in Sessions : Stays(s)
  BY Zenon DEF Stays
<1>2. \A c \in Clients : (pc[c] # "idle" => pc'[c] # "idle") /\ (Alive(c)' => Alive(c))
  BY Zenon DEF Alive
<1> QED
  BY Zenon, <1>1, <1>2, NothingLearnt

\* Datagrams that are not of a handshake.
LEMMA Other ==
  ASSUME NEW m, m.type \notin {"ClientHello", "ServerHello", "KeyExchange", "SessionConfirm"}
  PROVE  MessageInv(m)'
  BY Zenon DEF MessageInv

LEMMA CloseAttempt ==
  ASSUME FsmInv, AttemptInv, NEW s \in Sessions,
         CloseFlag(s) \/ CloseKeys(s) \/ CloseSend(s) \/ CloseFinish(s)
  PROVE  AttemptInv'
<1>1. UNCHANGED <<pc, hs, sid, codec, peer, last_rx, attempts>>
  BY Zenon DEF CloseFlag, CloseKeys, CloseSend, CloseFinish, taskVars, idVars
<1>2. AttemptTypes'
  <2>1. enc' \in [Sessions -> Keys \cup {Nil}] /\ dec' \in [Sessions -> Keys \cup {Nil}]
    BY Zenon DEF CloseFlag, CloseKeys, CloseSend, CloseFinish, keyVars, AttemptInv, AttemptTypes
  <2> QED
    BY Zenon, <1>1, <2>1 DEF AttemptInv, AttemptTypes
<1>3. ASSUME NEW u \in Sessions
      PROVE  closed'[u] \/ (~closed[u] /\ enc'[u] = enc[u] /\ dec'[u] = dec[u])
  <2>1. closed \in [Sessions -> BOOLEAN] /\ StateInv(s)
    BY Zenon DEF FsmInv, FsmTypes
  <2>2. CASE CloseFlag(s)
    BY Zenon, <2>1, <2>2 DEF CloseFlag, keyVars
  <2>3. CASE CloseKeys(s)
    BY Zenon, <2>1, <2>3 DEF CloseKeys, StateInv, AttemptInv, AttemptTypes
  <2>4. CASE CloseSend(s) \/ CloseFinish(s)
    BY Zenon, <2>1, <2>4 DEF CloseSend, CloseFinish, keyVars
  <2> QED
    BY Zenon, <2>2, <2>3, <2>4
<1>4. ASSUME NEW m \in net' PROVE m \in net \/ MessageInv(m)'
  <2>1. m \in net \/ m = Datagram("Close", s, peer[s])
    BY Zenon, <1>4 DEF CloseFlag, CloseKeys, CloseSend, CloseFinish, Send
  <2>2. Datagram("Close", s, peer[s]).type = "Close"
    BY Zenon DEF Datagram
  <2> QED
    BY Zenon, <2>1, <2>2, Other
<1> QED
  BY Zenon, <1>1, <1>2, <1>3, <1>4, TasksRest

\* send_audio, and the clock of the liveness check.
LEMMA IdleAttempt ==
  ASSUME FsmInv, AttemptInv, NEW s \in Sessions, SendAudio(s) \/ Silence(s)
  PROVE  AttemptInv'
<1>1. UNCHANGED <<pc, hs, sid, codec, peer>> /\ UNCHANGED <<enc, dec, closed, attempts>>
  BY Zenon DEF SendAudio, Silence, taskVars, idVars, keyVars, closeVars
<1>2. last_rx' \in [Sessions -> {"never", "recent", "old"}]
  BY Zenon DEF SendAudio, Silence, AttemptInv, AttemptTypes
<1>3. AttemptTypes'
  BY Zenon, <1>1, <1>2 DEF AttemptInv, AttemptTypes
<1>4. \A u \in Sessions : closed'[u] \/ (~closed[u] /\ enc'[u] = enc[u] /\ dec'[u] = dec[u])
  BY Zenon, <1>1 DEF FsmInv, FsmTypes
<1>5. ASSUME NEW m \in net' PROVE m \in net \/ MessageInv(m)'
  <2>1. m \in net \/ m = Audio(s, peer[s])
    BY Zenon, <1>5 DEF SendAudio, Silence, Send
  <2>2. Audio(s, peer[s]).type = "AudioFrame"
    BY Zenon DEF Audio
  <2> QED
    BY Zenon, <2>1, <2>2, Other
<1> QED
  BY Zenon, <1>1, <1>3, <1>4, <1>5, TasksRest

\* The receive loop.
LEMMA LoopAttempt ==
  ASSUME FsmInv, AttemptInv, NEW s \in Sessions, PollTimeout(s) \/ \E m \in net : Dispatch(s, m)
  PROVE  AttemptInv'
<1>1. /\ pc[s] = "running" /\ hs' = hs
      /\ UNCHANGED <<sid, codec, peer, enc, dec, closed, attempts>>
  BY Zenon DEF PollTimeout, Dispatch, idVars, keyVars, closeVars
<1>2. last_rx' \in [Sessions -> {"never", "recent", "old"}]
  BY Zenon DEF PollTimeout, Dispatch, AttemptInv, AttemptTypes
<1>3. AttemptTypes'
  BY Zenon, <1>1, <1>2 DEF AttemptInv, AttemptTypes
<1>4. ASSUME NEW m \in net' PROVE m \in net \/ MessageInv(m)'
  <2>1. PICK t \in {"Heartbeat", "HeartbeatAck"} : m \in net \/ m = Datagram(t, s, peer[s])
    BY Zenon, <1>4 DEF PollTimeout, Dispatch, Send, Receive
  <2>2. Datagram(t, s, peer[s]).type = t
    BY Zenon DEF Datagram
  <2> QED
    BY Zenon, <2>1, <2>2, Other
<1>5. CASE pc' = [pc EXCEPT ![s] = "stopped"]
  <2>1. Alive(s)
    BY Zenon, <1>1 DEF Alive
  <2> QED
    BY Zenon, <1>1, <1>3, <1>4, <1>5, <2>1, OneStops
<1>6. CASE pc' = pc
  <2>1. UNCHANGED <<pc, hs, sid, codec, peer>>
    BY Zenon, <1>1, <1>6
  <2>2. \A u \in Sessions : closed'[u] \/ (~closed[u] /\ enc'[u] = enc[u] /\ dec'[u] = dec[u])
    BY Zenon, <1>1 DEF FsmInv, FsmTypes
  <2> QED
    BY Zenon, <1>3, <1>4, <2>1, <2>2, TasksRest
<1> QED
  BY Zenon, <1>5, <1>6 DEF PollTimeout, Dispatch

\* Handshakes that fail.
LEMMA FailAttempts ==
  ASSUME FsmInv, AttemptInv, NEW s \in Sessions, s = Server \/ Alive(s),
         Fail(s) \/ (s = Server /\ FailAttempt),
         UNCHANGED <<codec, enc, dec, hs, closed, last_rx>>, attempts' \in attempts .. MaxAttempts,
         sid' \in [Sessions -> 0 .. MaxAttempts],
         \A u \in Sessions \ {s} : sid'[u] = sid[u],
         \A m \in net' : m \in net \/ MessageInv(m)'
  PROVE  AttemptInv'
<1>1. /\ \E at \in {"check_hello", "recv_hello", "stopped", "failed", "dead"} :
           pc' = [pc EXCEPT ![s] = at]
      /\ peer' = peer \/ peer' = [peer EXCEPT ![s] = Nil]
  BY Zenon DEF Fail, FailAttempt
<1>2. AttemptTypes'
  <2>1. peer' \in [Sessions -> Addresses \cup {Nil}]
    BY Zenon, <1>1 DEF AttemptInv, AttemptTypes
  <2>2. /\ hs[Server].n \in Nat /\ hs[Server].n <= attempts
        /\ attempts \in Nat /\ MaxAttempts \in Nat
    BY SMTT(60), SMTT(30), SessionsAssumption DEF AttemptInv, AttemptTypes, Sessions
  <2>3. attempts' \in 0 .. MaxAttempts /\ hs[Server].n <= attempts'
    BY <2>2
  <2> QED
    BY Zenon, <2>1, <2>3 DEF AttemptInv, AttemptTypes
<1>3. \A u \in Sessions \ {s} : peer'[u] = peer[u]
  BY Zenon, <1>1 DEF AttemptInv, AttemptTypes
<1> QED
  BY Zenon, <1>1, <1>2, <1>3, OneStops

\* The other ways in which a handshake goes on without learning anything.
LEMMA OneGoesOn ==
  ASSUME FsmInv, AttemptInv, NEW s \in Sessions,
         UNCHANGED <<hs, peer, sid, codec, enc, dec, closed, last_rx, attempts>>,
         \E at : /\ pc' = [pc EXCEPT ![s] = at]
                 /\ \/ at = pc[s] /\ Alive(s)
                    \/ s = Server /\ at \in {"check_hello", "recv_hello"}
                    \/ s = Server /\ {pc[s], at} \subseteq {"check_key_exchange", "recv_key_exchange"}
                    \/ pc[s] = "ok" /\ at \in {"running", "failed"},
         \A m \in net' : m \in net \/ MessageInv(m)'
  PROVE  AttemptInv'
<1>1. AttemptTypes'
  BY Zenon DEF AttemptInv, AttemptTypes
<1>2. ASSUME NEW u \in Sessions PROVE Stays(u)
  BY Zenon DEF Stays, FsmInv, FsmTypes
<1>3. ASSUME NEW c \in Clients PROVE (pc[c] # "idle" => pc'[c] # "idle") /\ (Alive(c)' => Alive(c))
  BY Zenon, SessionsAssumption DEF FsmInv, FsmTypes, Sessions, Alive
<1> QED
  BY Zenon, <1>1, <1>2, <1>3, NothingLearnt

LEMMA TimeoutAttempt ==
  ASSUME FsmInv, AttemptInv, NEW s \in Sessions, HandshakeTimeout(s)
  PROVE  AttemptInv'
<1>1. /\ s = Server \/ Alive(s)
      /\ Fail(s) \/ (s = Server /\ FailAttempt)
      /\ UNCHANGED <<codec, enc, dec, hs, closed, last_rx>>
      /\ sid' = sid /\ attempts' = attempts /\ net' = net
  BY Zenon DEF HandshakeTimeout, keyVars, closeVars, Alive
<1>2. sid' \in [Sessions -> 0 .. MaxAttempts] /\ attempts' \in attempts .. MaxAttempts
  BY <1>1, SessionsAssumption DEF AttemptInv, AttemptTypes
<1> QED
  BY Zenon, <1>1, <1>2, FailAttempts

LEMMA HandshakeOkAttempt ==
  ASSUME FsmInv, AttemptInv, NEW s \in Sessions, HandshakeOk(s)
  PROVE  AttemptInv'
<1>1. /\ UNCHANGED <<hs, peer, sid, codec, enc, dec, closed, last_rx, attempts>> /\ net' = net
      /\ pc[s] = "ok" /\ \E at \in {"running", "failed"} : pc' = [pc EXCEPT ![s] = at]
  BY Zenon DEF HandshakeOk, idVars, keyVars, closeVars
<1> QED
  BY Zenon, <1>1, OneGoesOn

LEMMA CrashAttempt ==
  ASSUME FsmInv, AttemptInv, NEW c \in Clients, Crash(c)
  PROVE  AttemptInv'
<1>1. /\ UNCHANGED <<hs, peer, sid, codec, enc, dec, closed, last_rx, attempts>> /\ net' = net
      /\ Alive(c) /\ pc' = [pc EXCEPT ![c] = "dead"] /\ c \in Sessions
  BY Zenon DEF Crash, idVars, keyVars, closeVars, Alive, Sessions
<1>2. AttemptTypes'
  BY Zenon, <1>1 DEF AttemptInv, AttemptTypes
<1> QED
  BY Zenon, <1>1, <1>2, OneStops

LEMMA RetryAttempt ==
  ASSUME FsmInv, AttemptInv, NEW c \in Clients, RetryHello(c)
  PROVE  AttemptInv'
<1>1. UNCHANGED <<pc, hs, sid, codec, peer>> /\ UNCHANGED <<enc, dec, closed, last_rx, attempts>>
  BY Zenon DEF RetryHello, idVars, keyVars, taskVars, closeVars
<1>2. AttemptTypes'
  BY Zenon, <1>1 DEF AttemptInv, AttemptTypes
<1>3. \A u \in Sessions : closed'[u] \/ (~closed[u] /\ enc'[u] = enc[u] /\ dec'[u] = dec[u])
  BY Zenon, <1>1 DEF FsmInv, FsmTypes
<1>4. ASSUME NEW m \in net' PROVE m \in net \/ MessageInv(m)'
  <2>1. m \in net \/ m = ClientHello(c, peer[c])
    BY Zenon DEF RetryHello, Send
  <2>2. pc'[c] # "idle"
    BY Zenon, <1>1 DEF RetryHello
  <2>3. m = ClientHello(c, peer[c]) => MessageInv(m)'
    BY <2>2 DEF MessageInv, ClientHello
  <2> QED
    BY Zenon, <2>1, <2>3
<1> QED
  BY Zenon, <1>1, <1>2, <1>3, <1>4, TasksRest

LEMMA AcceptAttempt ==
  ASSUME FsmInv, AttemptInv, NEW addr \in Addresses \cup {Nil}, NEW w, StartAccept(addr, w)
  PROVE  AttemptInv'
<1>1. /\ UNCHANGED <<hs, sid, codec, enc, dec, closed, last_rx, attempts>> /\ net' = net
      /\ peer' = [peer EXCEPT ![Server] = addr]
      /\ \E at \in {"check_hello", "recv_hello"} : pc' = [pc EXCEPT ![Server] = at]
      /\ Server \in Sessions
  BY Zenon DEF StartAccept, keyVars, closeVars, Sessions
<1>2. AttemptTypes'
  BY Zenon, <1>1 DEF AttemptInv, AttemptTypes
<1>3. \A u \in Sessions \ {Server} : peer'[u] = peer[u]
  BY Zenon, <1>1 DEF AttemptInv, AttemptTypes
<1> QED
  BY Zenon, <1>1, <1>2, <1>3, OneStops

LEMMA LoopsAttempt ==
  ASSUME FsmInv, AttemptInv, CheckClosed \/ RecvNothing
  PROVE  AttemptInv'
<1>1. /\ UNCHANGED <<hs, sid, codec, enc, dec, closed, last_rx, attempts>> /\ net' = net
      /\ peer' = peer /\ Server \in Sessions
      /\ pc[Server] \in {"check_hello", "recv_hello", "check_key_exchange", "recv_key_exchange"}
  BY Zenon DEF CheckClosed, RecvNothing, Fail, idVars, keyVars, closeVars, Sessions
<1>2. CASE pc' = [pc EXCEPT ![Server] = "failed"]
  <2>1. AttemptTypes'
    BY Zenon, <1>1 DEF AttemptInv, AttemptTypes
  <2> QED
    BY Zenon, <1>1, <1>2, <2>1, OneStops
<1>3. CASE \E at : /\ pc' = [pc EXCEPT ![Server] = at]
                   /\ \/ at \in {"check_hello", "recv_hello"}
                      \/ {pc[Server], at} \subseteq {"check_key_exchange", "recv_key_exchange"}
  BY Zenon, <1>1, <1>3, OneGoesOn
<1>4. \/ pc' = [pc EXCEPT ![Server] = "failed"]
      \/ pc' = [pc EXCEPT ![Server] = "check_hello"]
      \/ pc' = [pc EXCEPT ![Server] = "recv_hello"]
      \/ pc[Server] = "check_key_exchange" /\ pc' = [pc EXCEPT ![Server] = "recv_key_exchange"]
      \/ pc[Server] = "recv_key_exchange" /\ pc' = [pc EXCEPT ![Server] = "check_key_exchange"]
  BY Zenon, <1>1 DEF CheckClosed, RecvNothing, Fail
<1> QED
  BY Zenon, <1>2, <1>3, <1>4

-----------------------------------------------------------------------------
(* Steps in which one session learns something *)

Untouched(u) ==
  /\ pc'[u] = pc[u] /\ hs'[u] = hs[u] /\ sid'[u] = sid[u] /\ codec'[u] = codec[u]
  /\ peer'[u] = peer[u] /\ enc'[u] = enc[u] /\ dec'[u] = dec[u] /\ closed'[u] = closed[u]

LEMMA OneLearns ==
  ASSUME FsmInv, AttemptInv, Moves, AttemptTypes', AloneInv', NEW s \in Sessions,
         \A u \in Sessions \ {s} : Untouched(u),
         s = Server => ServerInv', s \in Clients => ClientInv(s)',
         \A m \in net' : m \in net \/ MessageInv(m)'
  PROVE  AttemptInv'
<1>1. ASSUME NEW u \in Sessions \ {s} PROVE Stays(u) /\ hs'[u] = hs[u]
  BY Zenon, <1>1 DEF Stays, Untouched, FsmInv, FsmTypes
<1>2. ASSUME NEW c \in Clients PROVE ClientInv(c)'
  <2>1. CASE c = s
    BY Zenon, <2>1
  <2>2. CASE c # s
    <3>1. c \in Sessions \ {s}
      BY Zenon, <2>2 DEF Sessions
    <3> QED
      BY Zenon, <1>1, <3>1, ClientStays
  <2> QED
    BY Zenon, <2>1, <2>2
<1>3. ServerInv'
  <2>1. CASE s # Server
    <3>1. Server \in Sessions \ {s}
      BY Zenon, <2>1 DEF Sessions
    <3> QED
      BY Zenon, <1>1, <3>1, ServerStays
  <2> QED
    BY Zenon, <2>1
<1>4. \A m \in net' : MessageInv(m)'
  BY Zenon, MessageStays
<1> QED
  BY Zenon, <1>2, <1>3, <1>4 DEF AttemptInv

\* Nobody comes to life when a task that is alive, or the server's, moves.
LEMMA StaysAlone ==
  ASSUME AttemptInv, NEW s \in Sessions, s = Server \/ Alive(s),
         \A u \in Sessions \ {s} : Untouched(u)
  PROVE  AloneInv'
<1>1. \A c \in Clients : Alive(c)' => Alive(c)
  BY Zenon, SessionsAssumption DEF Untouched, Alive, Sessions
<1> QED
  BY Zenon, <1>1 DEF AttemptInv, AloneInv

LEMMA ConnectAttempt ==
  ASSUME FsmInv, AttemptInv, NEW c \in Clients, StartConnect(c)
  PROVE  AttemptInv'
<1>1. /\ UNCHANGED <<hs, sid, codec, enc, dec, closed, last_rx, attempts>>
      /\ peer' = [peer EXCEPT ![c] = Addr[Server]] /\ pc' = [pc EXCEPT ![c] = "recv_server_hello"]
      /\ pc[c] = "idle" /\ AddressFree(c) /\ c \in Sessions /\ c # Server
  BY Zenon, SessionsAssumption DEF StartConnect, keyVars, closeVars, Sessions
<1>2. pc'[c] = "recv_server_hello" /\ \A u \in Sessions \ {c} : Untouched(u)
  BY Zenon, <1>1 DEF Untouched, AttemptInv, AttemptTypes, FsmInv, FsmTypes
<1>3. AttemptTypes'
  <2>1. Addr[Server] \in Addresses
    BY Zenon DEF Addresses, Sessions
  <2> QED
    BY Zenon, <1>1, <2>1 DEF AttemptInv, AttemptTypes
<1>4. AloneInv'
  <2>1. \A d \in Clients \ {c} : pc'[d] = pc[d]
    BY Zenon, <1>2 DEF Untouched, Sessions
  <2> QED
    BY Zenon, <1>1, <2>1 DEF AttemptInv, AloneInv, AddressFree, Alive
<1>5. Moves
  BY Zenon, <1>1, <1>2 DEF Moves, Untouched, Sessions
<1>6. ClientInv(c)'
  <2>1. hs'[c].n = 0
    BY Zenon, <1>1 DEF AttemptInv, ClientInv
  <2> QED
    BY <1>2, <2>1 DEF ClientInv
<1>7. ASSUME NEW m \in net' PROVE m \in net \/ MessageInv(m)'
  <2>1. m \in net \/ m = ClientHello(c, Addr[Server])
    BY Zenon DEF StartConnect, Send
  <2>2. m = ClientHello(c, Addr[Server]) => MessageInv(m)'
    BY <1>2 DEF MessageInv, ClientHello
  <2> QED
    BY Zenon, <2>1, <2>2
<1> QED
  BY Zenon, <1>1, <1>2, <1>3, <1>4, <1>5, <1>6, <1>7, OneLearns

LEMMA ServerHelloAttempt ==
  ASSUME FsmInv, AttemptInv, NEW c \in Clients, NEW m \in net, RecvServerHello(c, m)
  PROVE  AttemptInv'
<1>1. /\ UNCHANGED <<sid, codec, enc, dec, closed, last_rx, attempts>>
      /\ pc[c] = "recv_server_hello" /\ Alive(c) /\ c \in Sessions /\ c # Server
  BY Zenon, SessionsAssumption DEF RecvServerHello, keyVars, closeVars, Sessions, Alive
<1>2. CASE Fail(c) /\ Receive(m, {}) /\ UNCHANGED hs
  <2>1. sid' \in [Sessions -> 0 .. MaxAttempts] /\ attempts' \in attempts .. MaxAttempts
    BY <1>1, SessionsAssumption DEF AttemptInv, AttemptTypes
  <2>2. \A x \in net' : x \in net
    BY Zenon, <1>2 DEF Receive
  <2> QED
    BY Zenon, <1>1, <1>2, <2>1, <2>2, FailAttempts
<1>3. CASE /\ InSeq(m.codec, Supported[c]) /\ UNCHANGED peer
           /\ hs' = [hs EXCEPT ![c] = [client |-> c, n |-> m.n, codec |-> m.codec,
                                       version |-> m.version]]
           /\ pc' = [pc EXCEPT ![c] = "recv_confirm"]
           /\ Receive(m, {KeyExchange(c, m.n)})
  <2>1. pc'[c] = "recv_confirm" /\ \A u \in Sessions \ {c} : Untouched(u)
    BY Zenon, <1>1, <1>3 DEF Untouched, AttemptInv, AttemptTypes, FsmInv, FsmTypes
  <2>2. hs'[c].client = c /\ hs'[c].n = m.n /\ hs'[c].codec = m.codec
    BY Zenon, <1>1, <1>3 DEF AttemptInv, AttemptTypes
  <2>3. /\ m.n \in Nat /\ m.n > 0 /\ m.n <= hs[Server].n
        /\ m.n = hs[Server].n => m.codec = hs[Server].codec
    BY Zenon DEF AttemptInv, MessageInv, RecvServerHello
  <2>4. hs'[Server] = hs[Server] /\ Server \in Sessions
    BY Zenon, <1>1, <2>1 DEF Untouched, Sessions
  <2>5. AttemptTypes'
    <3>1. \A u \in Sessions : hs'[u].n \in Nat /\ hs'[u].n <= hs'[Server].n
      BY Zenon, <2>1, <2>2, <2>3, <2>4 DEF Untouched, AttemptInv, AttemptTypes
    <3>2. hs' = [u \in Sessions |-> hs'[u]]
      BY Zenon, <1>3 DEF AttemptInv, AttemptTypes
    <3> QED
      BY Zenon, <1>1, <1>3, <2>4, <3>1, <3>2 DEF AttemptInv, AttemptTypes
  <2>6. AloneInv'
    BY Zenon, <1>1, <2>1, StaysAlone
  <2>7. Moves
    BY Zenon, <1>1, <2>1, <2>4 DEF Moves, Untouched, Sessions
  <2>8. ClientInv(c)'
    BY Zenon, <1>3, <2>1, <2>2, <2>3, <2>4 DEF ClientInv
  <2>9. ASSUME NEW x \in net' PROVE x \in net \/ MessageInv(x)'
    <3>1. x \in net \/ x = KeyExchange(c, m.n)
      BY Zenon, <1>3 DEF Receive
    <3>2. x = KeyExchange(c, m.n) => MessageInv(x)'
      BY <2>2, <2>3 DEF MessageInv, KeyExchange
    <3> QED
      BY Zenon, <3>1, <3>2
  <2> QED
    BY Zenon, <1>1, <2>1, <2>5, <2>6, <2>7, <2>8, <2>9, OneLearns
<1> QED
  BY Zenon, <1>2, <1>3 DEF RecvServerHello

LEMMA ConfirmAttempt ==
  ASSUME FsmInv, AttemptInv, NEW c \in Clients, NEW m \in net, RecvConfirm(c, m)
  PROVE  AttemptInv'
<1>1. /\ UNCHANGED <<hs, enc, dec, closed, last_rx, attempts>> /\ net' \subseteq net
      /\ pc[c] = "recv_confirm" /\ Alive(c) /\ c \in Sessions /\ c # Server
  BY Zenon, SessionsAssumption DEF RecvConfirm, keyVars, closeVars, Sessions, Alive, Receive
<1>2. CASE Fail(c) /\ UNCHANGED <<sid, codec>>
  <2>1. sid' \in [Sessions -> 0 .. MaxAttempts] /\ attempts' \in attempts .. MaxAttempts
    BY <1>1, <1>2, SessionsAssumption DEF AttemptInv, AttemptTypes
  <2> QED
    BY Zenon, <1>1, <1>2, <2>1, FailAttempts
<1>3. CASE /\ m.n = hs[c].n /\ m.tag = Key(c, hs[c].n, "down") /\ UNCHANGED peer
           /\ sid' = [sid EXCEPT ![c] = hs[c].n]
           /\ codec' = [codec EXCEPT ![c] = hs[c].codec]
           /\ pc' = [pc EXCEPT ![c] = "store"]
  <2>1. pc'[c] = "store" /\ \A u \in Sessions \ {c} : Untouched(u)
    BY Zenon, <1>1, <1>3 DEF Untouched, AttemptInv, AttemptTypes, FsmInv, FsmTypes
  <2>2. sid'[c] = hs[c].n /\ codec'[c] = hs[c].codec
    BY Zenon, <1>1, <1>3 DEF AttemptInv, AttemptTypes
  <2>3. AttemptTypes'
    <3>1. hs[c].n \in Nat /\ hs[c].n <= hs[Server].n /\ hs[Server].n \in Nat
      BY Zenon, <1>1 DEF AttemptInv, AttemptTypes, Sessions
    <3>2. hs[Server].n <= attempts /\ attempts \in Nat /\ attempts <= MaxAttempts
      BY SessionsAssumption DEF AttemptInv, AttemptTypes
    <3>3. hs[c].n \in 0 .. MaxAttempts
      BY <3>1, <3>2, SessionsAssumption
    <3>4. codec' = [u \in Sessions |-> codec'[u]]
      BY Zenon, <1>3 DEF AttemptInv, AttemptTypes
    <3> QED
      BY Zenon, <1>1, <1>3, <3>3, <3>4 DEF AttemptInv, AttemptTypes
  <2>4. AloneInv'
    BY Zenon, <1>1, <2>1, StaysAlone
  <2>5. Moves
    BY Zenon, <1>1, <2>1 DEF Moves, Untouched, Sessions
  <2>6. Later(c, hs[c].n)
    <3>1. PICK d \in Clients : m.tag = Key(d, m.n, "down") /\ Later(d, m.n)
      BY Zenon DEF AttemptInv, MessageInv, RecvConfirm
    <3>2. d = c
      BY <1>3, <3>1 DEF Key
    <3> QED
      BY Zenon, <1>3, <3>1, <3>2
  <2>7. Later(c, hs[c].n)'
    BY Zenon, <1>1, <2>5, <2>6, LaterStays DEF AttemptInv
  <2>8. ClientInv(c)'
    <3>1. ClientInv(c)
      BY Zenon DEF AttemptInv
    <3> QED
      BY Zenon, <1>1, <2>1, <2>2, <2>7, <3>1 DEF ClientInv
  <2> QED
    BY Zenon, <1>1, <2>1, <2>3, <2>4, <2>5, <2>8, OneLearns
<1> QED
  BY Zenon, <1>2, <1>3 DEF RecvConfirm

\* A ClientHello begins an attempt numbered after all the others, so after those of the
\* clients that had this client's address before.
LEMMA HelloAttempt ==
  ASSUME FsmInv, AttemptInv, NEW m \in net, RecvHello(m)
  PROVE  AttemptInv'
<1>1. /\ UNCHANGED <<enc, dec, closed, last_rx>> /\ Server \in Sessions
      /\ pc[Server] = "recv_hello"
      /\ m.client \in Clients /\ m.from = Addr[m.client] /\ pc[m.client] # "idle"
  BY Zenon DEF RecvHello, keyVars, closeVars, Sessions, AttemptInv, MessageInv
<1>2. attempts \in Nat /\ attempts <= MaxAttempts /\ MaxAttempts \in Nat
  BY SessionsAssumption DEF AttemptInv, AttemptTypes
<1>3. CASE FailAttempt /\ Receive(m, {}) /\ UNCHANGED <<codec, hs>>
  <2>1. \/ sid' = sid /\ attempts' = attempts
        \/ /\ attempts < MaxAttempts /\ attempts' = attempts + 1
           /\ sid' = [sid EXCEPT ![Server] = attempts']
    BY Zenon, <1>3 DEF RecvHello
  <2>2. attempts' \in attempts .. MaxAttempts /\ attempts' \in 0 .. MaxAttempts
    BY <1>2, <2>1
  <2>3. sid' \in [Sessions -> 0 .. MaxAttempts] /\ \A u \in Sessions \ {Server} : sid'[u] = sid[u]
    BY Zenon, <2>1, <2>2 DEF AttemptInv, AttemptTypes
  <2>4. \A x \in net' : x \in net
    BY Zenon, <1>3 DEF Receive
  <2> QED
    BY Zenon, <1>1, <1>3, <2>2, <2>3, <2>4, FailAttempts
<1>4. ASSUME NEW v, NEW k, InSeq(k, Supported[Server]),
             attempts < MaxAttempts, attempts' = attempts + 1,
             sid' = [sid EXCEPT ![Server] = attempts'],
             peer' = [peer EXCEPT ![Server] = m.from],
             codec' = [codec EXCEPT ![Server] = k],
             hs' = [hs EXCEPT ![Server] =
                      [client |-> m.client, n |-> attempts', codec |-> k, version |-> v]],
             pc' = [pc EXCEPT ![Server] = "check_key_exchange"],
             Receive(m, {ServerHello(m.from, attempts', v, k)})
      PROVE  AttemptInv'
  <2>1. pc'[Server] = "check_key_exchange" /\ \A u \in Sessions \ {Server} : Untouched(u)
    BY Zenon, <1>1, <1>4 DEF Untouched, AttemptInv, AttemptTypes, FsmInv, FsmTypes
  <2>2. /\ hs'[Server].client = m.client /\ hs'[Server].n = attempts' /\ hs'[Server].codec = k
        /\ sid'[Server] = attempts' /\ codec'[Server] = k /\ peer'[Server] = m.from
    BY Zenon, <1>1, <1>4 DEF AttemptInv, AttemptTypes
  <2>3. attempts' \in 0 .. MaxAttempts /\ attempts' \in Nat /\ attempts' > 0 /\ attempts' > attempts
    BY <1>2, <1>4
  <2>4. \A u \in Sessions : hs[u].n \in Nat /\ hs[u].n < attempts'
    <3>1. \A u \in Sessions : hs[u].n \in Nat /\ hs[u].n <= hs[Server].n
      BY Zenon DEF AttemptInv, AttemptTypes
    <3>2. hs[Server].n <= attempts /\ hs[Server].n \in Nat
      BY Zenon, <1>1, <3>1 DEF AttemptInv, AttemptTypes
    <3> QED
      BY <1>2, <2>3, <3>1, <3>2
  <2>5. AttemptTypes'
    <3>1. \A u \in Sessions : hs'[u].n \in Nat /\ hs'[u].n <= hs'[Server].n
      BY <2>1, <2>2, <2>3, <2>4 DEF Untouched
    <3>2. hs' = [u \in Sessions |-> hs'[u]] /\ codec' = [u \in Sessions |-> codec'[u]]
      BY Zenon, <1>4 DEF AttemptInv, AttemptTypes
    <3>3. m.from \in Addresses
      BY Zenon, <1>1 DEF Addresses, Sessions
    <3>4. hs'[Server].n <= attempts'
      BY <2>2, <2>3
    <3>5. /\ peer' \in [Sessions -> Addresses \cup {Nil}] /\ sid' \in [Sessions -> 0 .. MaxAttempts]
      BY Zenon, <1>4, <2>3, <3>3 DEF AttemptInv, AttemptTypes
    <3> QED
      BY Zenon, <1>1, <2>3, <3>1, <3>2, <3>4, <3>5 DEF AttemptInv, AttemptTypes
  <2>6. AloneInv'
    BY Zenon, <1>1, <2>1, StaysAlone
  <2>7. \A c \in Clients : c \in Sessions \ {Server} /\ Untouched(c)
    BY Zenon, <2>1, SessionsAssumption DEF Sessions
  <2>8. Moves
    BY Zenon, <1>1, <2>2, <2>3, <2>4, <2>7 DEF Moves, Untouched
  <2>9. ServerInv'
    <3>1. Later(m.client, hs[Server].n)'
      BY Zenon, <2>2, <2>4, <2>7 DEF Later, Untouched
    <3>2. Partner(m.client)'
      BY Zenon, <1>1, <1>4, <2>1, <2>2, <2>7, <3>1 DEF Partner, Untouched
    <3> QED
      BY Zenon, <2>2, <2>3, <3>2 DEF ServerInv
  <2>10. ASSUME NEW x \in net' PROVE x \in net \/ MessageInv(x)'
    <3>1. x \in net \/ x = ServerHello(m.from, attempts', v, k)
      BY Zenon, <1>4 DEF Receive
    <3>2. x = ServerHello(m.from, attempts', v, k) => MessageInv(x)'
      BY <2>2, <2>3 DEF MessageInv, ServerHello
    <3> QED
      BY Zenon, <3>1, <3>2
  <2> QED
    BY Zenon, <1>1, <2>1, <2>5, <2>6, <2>8, <2>9, <2>10, SessionsAssumption, OneLearns
<1>5. CASE ~(FailAttempt /\ Receive(m, {}) /\ UNCHANGED <<codec, hs>>)
  <2>1. Supported[Server] # <<>>
    BY Zenon, <1>5 DEF RecvHello
  <2>2. InSeq(ChosenCodec(m.codec), Supported[Server])
    BY <1>1, <2>1, SupportedAssumption DEF ChosenCodec, InSeq
  <2> QED
    BY Zenon, <1>4, <1>5, <2>1, <2>2 DEF RecvHello
<1> QED
  BY Zenon, <1>3, <1>5

LEMMA RepeatAttempt ==
  ASSUME FsmInv, AttemptInv, NEW m \in net, RepeatServerHello(m)
  PROVE  AttemptInv'
<1>1. /\ UNCHANGED <<hs, peer, sid, codec, enc, dec, closed, last_rx, attempts>>
      /\ pc[Server] = "recv_key_exchange" /\ pc' = [pc EXCEPT ![Server] = "check_key_exchange"]
      /\ Server \in Sessions
  BY Zenon DEF RepeatServerHello, idVars, keyVars, closeVars, Sessions
<1>2. hs[Server].n \in Nat /\ hs[Server].n > 0
  BY Zenon, <1>1 DEF AttemptInv, AttemptTypes, ServerInv
<1>3. ASSUME NEW x \in net' PROVE x \in net \/ MessageInv(x)'
  <2> DEFINE hello == ServerHello(peer[Server], hs[Server].n, hs[Server].version, hs[Server].codec)
  <2>1. x \in net \/ x = hello
    BY Zenon DEF RepeatServerHello, Receive
  <2>2. x = hello => MessageInv(x)'
    BY <1>1, <1>2 DEF MessageInv, ServerHello
  <2> QED
    BY Zenon, <2>1, <2>2
<1>4. {pc[Server], "check_key_exchange"} \subseteq {"check_key_exchange", "recv_key_exchange"}
  BY Zenon, <1>1
<1> QED
  BY Zenon, <1>1, <1>3, <1>4, OneGoesOn

LEMMA KeyExchangeAttempt ==
  ASSUME FsmInv, AttemptInv, NEW m \in net, RecvKeyExchange(m)
  PROVE  AttemptInv'
<1>1. /\ UNCHANGED <<sid, codec, enc, dec, hs, closed, last_rx, attempts>> /\ Server \in Sessions
      /\ pc[Server] = "recv_key_exchange"
  BY Zenon DEF RecvKeyExchange, keyVars, closeVars, Sessions
<1>2. CASE FailAttempt /\ Receive(m, {})
  <2>1. sid' \in [Sessions -> 0 .. MaxAttempts] /\ attempts' \in attempts .. MaxAttempts
    BY <1>1, SessionsAssumption DEF AttemptInv, AttemptTypes
  <2>2. \A x \in net' : x \in net
    BY Zenon, <1>2 DEF Receive
  <2> QED
    BY Zenon, <1>1, <1>2, <2>1, <2>2, FailAttempts
<1>3. CASE /\ m.n = hs[Server].n /\ m.tag = Key(hs[Server].client, hs[Server].n, "up")
           /\ Receive(m, {SessionConfirm(peer[Server], hs[Server].client, hs[Server].n)})
           /\ pc' = [pc EXCEPT ![Server] = "store"] /\ UNCHANGED peer
  <2> PICK c : c = hs[Server].client
    OBVIOUS
  <2>1. pc'[Server] = "store" /\ \A u \in Sessions \ {Server} : Untouched(u)
    BY Zenon, <1>1, <1>3 DEF Untouched, FsmInv, FsmTypes
  <2>2. AttemptTypes'
    BY Zenon, <1>1, <1>3 DEF AttemptInv, AttemptTypes
  <2>3. AloneInv'
    BY Zenon, <1>1, <2>1, StaysAlone
  <2>4. \A d \in Clients : d \in Sessions \ {Server} /\ Untouched(d)
    BY Zenon, <2>1, SessionsAssumption DEF Sessions
  <2>5. Moves
    BY Zenon, <1>1, <2>4 DEF Moves, Untouched
  <2>6. hs[Server].n > 0 /\ Partner(c) /\ AloneInv /\ c \in Clients
    BY Zenon, <1>1 DEF AttemptInv, ServerInv, Partner
  <2>7. hs[c].n = hs[Server].n
    <3>1. PICK d \in Clients : m.tag = Key(d, m.n, "up") /\ m.n = hs[d].n
      BY Zenon DEF AttemptInv, MessageInv, RecvKeyExchange
    <3>2. d = c
      BY <1>3, <3>1 DEF Key
    <3> QED
      BY Zenon, <1>3, <3>1, <3>2
  <2>8. Later(c, hs[Server].n)'
    BY Zenon, <1>1, <2>5, <2>6, LaterStays DEF Partner
  <2>9. ServerInv'
    <3>1. Partner(c)'
      BY Zenon, <1>1, <1>3, <2>1, <2>4, <2>6, <2>7, <2>8 DEF Partner, Untouched
    <3> QED
      BY Zenon, <1>1, <2>6, <3>1 DEF ServerInv
  <2>10. ASSUME NEW x \in net' PROVE x \in net \/ MessageInv(x)'
    <3>1. x \in net \/ x = SessionConfirm(peer[Server], c, hs[Server].n)
      BY Zenon, <1>3 DEF Receive
    <3>2. x = SessionConfirm(peer[Server], c, hs[Server].n) => MessageInv(x)'
      BY <1>1, <2>6, <2>7, <2>8 DEF MessageInv, SessionConfirm
    <3> QED
      BY Zenon, <3>1, <3>2
  <2> QED
    BY Zenon, <1>1, <2>1, <2>2, <2>3, <2>5, <2>9, <2>10, SessionsAssumption, OneLearns
<1> QED
  BY Zenon, <1>2, <1>3 DEF RecvKeyExchange

LEMMA StoreAttempt ==
  ASSUME FsmInv, AttemptInv, NEW s \in Sessions, StoreKeys(s)
  PROVE  AttemptInv'
<1> DEFINE up == Key(hs[s].client, hs[s].n, "up")
           down == Key(hs[s].client, hs[s].n, "down")
<1>1. /\ UNCHANGED <<hs, peer, sid, codec, closed, last_rx, attempts>> /\ net' = net
      /\ pc[s] = "store" /\ pc' = [pc EXCEPT ![s] = "ok"] /\ Alive(s) /\ Server \in Sessions
      /\ enc' = [enc EXCEPT ![s] = IF s = Server THEN down ELSE up]
      /\ dec' = [dec EXCEPT ![s] = IF s = Server THEN up ELSE down]
  BY Zenon DEF StoreKeys, idVars, closeVars, Alive, Sessions
<1>2. pc'[s] = "ok" /\ \A u \in Sessions \ {s} : Untouched(u)
  BY Zenon, <1>1 DEF Untouched, AttemptInv, AttemptTypes, FsmInv, FsmTypes
<1>3. /\ enc'[s] = (IF s = Server THEN down ELSE up)
      /\ dec'[s] = (IF s = Server THEN up ELSE down)
  BY Zenon, <1>1 DEF AttemptInv, AttemptTypes
<1>4. AloneInv'
  BY Zenon, <1>1, <1>2, StaysAlone
<1>5. Moves
  BY Zenon, <1>1, <1>2 DEF Moves, Untouched, Sessions
<1>6. hs[s].client \in Clients /\ hs[s].n > 0
  <2>1. CASE s = Server
    BY Zenon, <1>1, <2>1 DEF AttemptInv, ServerInv, Partner
  <2>2. CASE s \in Clients
    BY Zenon, <1>1, <2>2 DEF AttemptInv, ClientInv
  <2> QED
    BY Zenon, <2>1, <2>2 DEF Sessions
<1>7. AttemptTypes'
  <2>1. hs[s].n \in Nat /\ hs[s].n <= hs[Server].n /\ hs[Server].n \in Nat
    BY Zenon, <1>1 DEF AttemptInv, AttemptTypes
  <2>2. hs[Server].n <= attempts /\ attempts \in Nat /\ attempts <= MaxAttempts
    BY SMTT(60), SMTT(30), SessionsAssumption DEF AttemptInv, AttemptTypes
  <2>3. hs[s].n \in 1 .. MaxAttempts
    BY <1>6, <2>1, <2>2, SessionsAssumption
  <2>4. up \in Keys /\ down \in Keys
    BY Zenon, <1>6, <2>3 DEF Keys, Key
  <2>5. enc' \in [Sessions -> Keys \cup {Nil}] /\ dec' \in [Sessions -> Keys \cup {Nil}]
    <3> HIDE DEF up, down
    <3> QED
      BY Zenon, <1>1, <2>4 DEF AttemptInv, AttemptTypes
  <2> QED
    BY Zenon, <1>1, <2>5 DEF AttemptInv, AttemptTypes
<1>8. ASSUME s \in Clients PROVE ClientInv(s)'
  <2>1. ClientInv(s) /\ AloneInv /\ s # Server
    BY Zenon, <1>8, SessionsAssumption DEF AttemptInv
  <2>2. Later(s, hs[s].n)'
    BY Zenon, <1>1, <1>5, <1>8, <2>1, LaterStays DEF ClientInv
  <2> QED
    BY Zenon, <1>1, <1>2, <1>3, <2>1, <2>2 DEF ClientInv
<1>9. ASSUME s = Server PROVE ServerInv'
  <2> PICK c : c = hs[Server].client
    OBVIOUS
  <2>1. Partner(c) /\ AloneInv /\ c \in Clients /\ c # Server
    BY Zenon, <1>6, <1>9, SessionsAssumption DEF AttemptInv, ServerInv, Partner
  <2>2. Later(c, hs[Server].n)'
    BY Zenon, <1>1, <1>5, <2>1, LaterStays DEF Partner
  <2>3. pc'[c] = pc[c]
    BY Zenon, <1>2, <1>9, <2>1 DEF Untouched, Sessions
  <2>4. Partner(c)'
    BY Zenon, <1>1, <1>2, <1>3, <1>9, <2>1, <2>2, <2>3 DEF Partner
  <2> QED
    BY Zenon, <1>1, <1>6, <1>9, <2>4 DEF ServerInv
<1> QED
  BY Zenon, <1>1, <1>2, <1>4, <1>5, <1>7, <1>8, <1>9, OneLearns

-----------------------------------------------------------------------------
(* The theorems *)

LEMMA AttemptInitInv == Init => AttemptInv
<1> SUFFICES ASSUME Init PROVE AttemptInv
  OBVIOUS
<1>1. /\ Server \in Sessions /\ hs[Server].n = 0 /\ pc[Server] = "idle"
      /\ \A s \in Sessions : hs[s].n = 0 /\ pc[s] = "idle"
  BY Zenon DEF Init, Sessions
<1>2. AttemptTypes
  BY <1>1, SessionsAssumption DEF Init, AttemptTypes
<1>3. AloneInv /\ ServerInv /\ \A c \in Clients : ClientInv(c)
  BY <1>1 DEF AloneInv, Alive, ServerInv, ClientInv, Sessions
<1> QED
  BY Zenon, <1>2, <1>3 DEF Init, AttemptInv

LEMMA AttemptNextInv == FsmInv /\ AttemptInv /\ [Next]_vars => AttemptInv'
<1> SUFFICES ASSUME FsmInv, AttemptInv, [Next]_vars PROVE AttemptInv'
  OBVIOUS
<1>1. CASE ServerStep
  <2>1. Nil \in Addresses \cup {Nil} /\ \A c \in Clients : Addr[c] \in Addresses \cup {Nil}
    BY Zenon DEF Addresses, Sessions
  <2> QED
    BY Zenon, <1>1, <2>1, AcceptAttempt, LoopsAttempt, HelloAttempt, RepeatAttempt, KeyExchangeAttempt
    DEF ServerStep
<1>2. ASSUME NEW c \in Clients, ClientStep(c) PROVE AttemptInv'
  BY Zenon, <1>2, ConnectAttempt, RetryAttempt, CrashAttempt, ServerHelloAttempt, ConfirmAttempt
  DEF ClientStep
<1>3. ASSUME NEW s \in Sessions, SessionStep(s) PROVE AttemptInv'
  BY Zenon, <1>3, TimeoutAttempt, StoreAttempt, HandshakeOkAttempt, LoopAttempt, IdleAttempt, CloseAttempt
  DEF SessionStep
<1>4. Pollers \subseteq Sessions /\ Talkers \subseteq Sessions /\ Closers \subseteq Sessions
  BY Zenon, SessionsAssumption
<1>5. CASE UNCHANGED vars
  <2>1. UNCHANGED <<pc, hs, sid, codec, peer>> /\ UNCHANGED <<enc, dec, closed, last_rx, attempts, net>>
    BY Zenon, <1>5 DEF vars, idVars, keyVars, taskVars, closeVars
  <2>2. AttemptTypes'
    BY Zenon, <2>1 DEF AttemptInv, AttemptTypes
  <2>3. \A u \in Sessions : closed'[u] \/ (~closed[u] /\ enc'[u] = enc[u] /\ dec'[u] = dec[u])
    BY Zenon, <2>1 DEF FsmInv, FsmTypes
  <2> QED
    BY Zenon, <2>1, <2>2, <2>3, TasksRest
<1> QED
  BY Zenon, <1>1, <1>2, <1>3, <1>4, <1>5, LoopAttempt, IdleAttempt, CloseAttempt DEF Next

LEMMA SessionInv == Spec => [](FsmInv /\ AttemptInv)
  BY FsmInitInv, FsmNextInv, AttemptInitInv, AttemptNextInv, PTL DEF Spec

\* Every variable of the sessions keeps its type; the keys in particular are always
\* those of an attempt that was numbered.
THEOREM SessionTypeCorrect == Spec => []TypeOK
<1>1. FsmInv /\ AttemptInv => TypeOK
  <2>1. Resting \subseteq States
    BY Zenon DEF Resting, States
  <2> QED
    BY Zenon, <2>1 DEF FsmInv, FsmTypes, AttemptInv, AttemptTypes, TypeOK, Places, Addresses
<1> QED
  BY <1>1, SessionInv, PTL

\* An established session runs its receive loop.
LEMMA EstablishedRuns ==
  ASSUME FsmInv, NEW s \in Sessions, Established(s)
  PROVE  pc[s] = "running" /\ ~closed[s]
  BY Zenon DEF FsmInv, StateInv, Established

\* Keys, session id and peer of an established session are of one attempt, whatever
\* attempts of whichever clients handshake() and handshake_open() refused before.
THEOREM AttemptsStayOne == Spec => []OneAttempt
<1>1. FsmInv /\ AttemptInv => OneAttempt
  <2> SUFFICES ASSUME FsmInv, AttemptInv PROVE OneAttempt
    OBVIOUS
  <2>1. ASSUME NEW c \in Clients, Established(c)
        PROVE  enc[c] = Key(c, sid[c], "up") /\ dec[c] = Key(c, sid[c], "down")
    <3>1. pc[c] = "running" /\ ~closed[c]
      BY Zenon, <2>1, EstablishedRuns DEF Sessions
    <3> QED
      BY ZenonT(30), <3>1 DEF AttemptInv, ClientInv
  <2>2. ASSUME Established(Server)
        PROVE  \E c \in Clients : /\ Addr[c] = peer[Server]
                                  /\ enc[Server] = Key(c, sid[Server], "down")
                                  /\ dec[Server] = Key(c, sid[Server], "up")
    <3>1. pc[Server] = "running" /\ ~closed[Server]
      BY Zenon, <2>2, EstablishedRuns DEF Sessions
    <3>2. Partner(hs[Server].client)
      BY Zenon, <3>1 DEF AttemptInv, ServerInv
    <3> QED
      BY Zenon, <3>1, <3>2 DEF Partner
  <2> QED
    BY Zenon, <2>1, <2>2 DEF OneAttempt
<1> QED
  BY <1>1, SessionInv, PTL

\* The two ends of an address pair, when both are established, hold the same session id,
\* codec and keys.  A client that came back on the address of a dead one is never taken
\* for it: the server's attempt would have to be numbered before and after itself.
THEOREM SessionsAgree == Spec => []SessionAgreement
<1>1. FsmInv /\ AttemptInv => SessionAgreement
  <2> SUFFICES ASSUME FsmInv, AttemptInv, NEW c \in Clients, Established(c), Established(Server),
                      peer[Server] = Addr[c]
               PROVE  /\ sid[c] = sid[Server]
                      /\ enc[c] = dec[Server] /\ dec[c] = enc[Server]
                      /\ codec[c] = codec[Server]
                      /\ InSeq(codec[c], Supported[c]) /\ InSeq(codec[c], Supported[Server])
    BY Zenon DEF SessionAgreement
  <2> PICK d : d = hs[Server].client
    OBVIOUS
  <2>1. pc[c] = "running" /\ ~closed[c] /\ pc[Server] = "running" /\ ~closed[Server]
    BY Zenon, EstablishedRuns DEF Sessions
  <2>2. ClientInv(c) /\ hs[Server].n > 0 /\ Partner(d)
    BY Zenon, <2>1 DEF AttemptInv, ServerInv
  <2>3. d \in Clients /\ Addr[d] = Addr[c] /\ hs[d].n = hs[Server].n
    BY Zenon, <2>1, <2>2 DEF Partner
  <2>4. d = c
    <3>1. hs[c].n \in Nat /\ hs[c].n <= hs[Server].n /\ hs[Server].n \in Nat
      BY Zenon DEF AttemptInv, AttemptTypes, Sessions
    <3>2. ASSUME d # c PROVE hs[d].n < hs[c].n
      BY Zenon, <2>1, <2>2, <2>3, <3>2 DEF ClientInv, Later, Alive
    <3> QED
      BY <2>3, <3>1, <3>2
  <2>5. /\ sid[c] = hs[c].n /\ codec[c] = hs[c].codec /\ hs[c].codec = hs[Server].codec
        /\ enc[c] = Key(c, hs[c].n, "up") /\ dec[c] = Key(c, hs[c].n, "down")
        /\ InSeq(hs[c].codec, Supported[c])
    BY Zenon, <2>1, <2>2, <2>3, <2>4 DEF ClientInv
  <2>6. /\ sid[Server] = hs[Server].n /\ codec[Server] = hs[Server].codec
        /\ enc[Server] = Key(c, hs[Server].n, "down") /\ dec[Server] = Key(c, hs[Server].n, "up")
        /\ InSeq(hs[Server].codec, Supported[Server])
    BY Zenon, <2>1, <2>2, <2>4 DEF Partner
  <2> QED
    BY Zenon, <2>3, <2>4, <2>5, <2>6
<1> QED
  BY <1>1, SessionInv, PTL
=============================================================================
