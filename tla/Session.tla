------------------------------ MODULE Session ------------------------------
(***************************************************************************)
(* The control plane of Session (gravital-talk-transport, session.rs): the *)
(* 4-way handshake of clients with a server over UDP, close(), and what    *)
(* the receive loop does with control packets.  Each session is used by    *)
(* several tasks at once: the one that runs the handshake and then the     *)
(* receive loop (`pc`), the one that calls close() (`cl`) and the ones     *)
(* that send audio.  They interleave at the code's await points; a step    *)
(* takes the few locks that follow each other without a datagram between.  *)
(*                                                                         *)
(* Cryptography is symbolic.  A client's name stands for its ephemeral key *)
(* and nonce; the number n of a server's attempt stands for its session    *)
(* id, ephemeral key and nonce, all drawn afresh for the attempt.  A key   *)
(* derived from both ends and the transcript is a record of its inputs,    *)
(* and an authentication tag is represented by the key it is derived from. *)
(***************************************************************************)
EXTENDS SessionState, Integers, Sequences

CONSTANTS
  Clients, Server,   \* the sessions
  Addr,              \* the socket address of each session
  Preferred,         \* Config.codec_preferred of each session
  Supported,         \* Config.supported_codecs of each session, a sequence
  Version,           \* PROTOCOL_VERSION_MAX of the build each session runs
  VersionMin,        \* PROTOCOL_VERSION_MIN
  Nil,
  MaxAttempts,       \* bound on the attempts of handshake_open
  Duplicating,       \* may the network deliver a datagram again?
  Closers, Talkers,  \* the sessions whose application closes them, sends audio
  Pollers            \* and calls poll_once (the FFI and the CLI never do)

Sessions == Clients \cup {Server}

ASSUME SessionsAssumption ==
  /\ Server \notin Clients
  /\ MaxAttempts \in Nat
  /\ Duplicating \in BOOLEAN
  /\ Closers \cup Talkers \cup Pollers \subseteq Sessions
  /\ VersionMin \in Nat
  /\ Version \in [Sessions -> Nat]
  /\ Nil \notin Clients \cup {Addr[s] : s \in Sessions}
  /\ \A c \in Clients : Addr[c] # Addr[Server]

\* supported_codecs is a list; it may be empty.
ASSUME SupportedAssumption ==
  \A s \in Sessions : Supported[s] \in Seq({Supported[s][i] : i \in DOMAIN Supported[s]})

VARIABLES
  state,                 \* the state machine
  peer, sid, codec,      \* peer, session_id, negotiated_codec
  enc, dec,              \* encrypt_key, decrypt_key
  closed,                \* the cancellation flag
  last_rx,               \* age of the last datagram: "never", "recent", "old"
  pc, mode, hs,          \* the handshake and receive task, and its locals
  cl,                    \* the task that calls close()
  attempts,              \* attempts the server has answered
  net                    \* datagrams in flight

fsmVars == <<state>>
idVars == <<peer, sid, codec>>
keyVars == <<enc, dec>>
taskVars == <<pc, mode, hs>>
closeVars == <<closed, cl>>
vars == <<fsmVars, idVars, keyVars, taskVars, closeVars, last_rx, attempts, net>>

-----------------------------------------------------------------------------
(* Keys and datagrams *)

\* derive_session_keys: one key for each direction of client c's attempt n.
Key(c, n, dir) == [client |-> c, n |-> n, dir |-> dir]

Datagram(type, s, to) == [type |-> type, from |-> Addr[s], to |-> to]

ClientHello(c, to) ==
  [type |-> "ClientHello", from |-> Addr[c], to |-> to,
   client |-> c, version |-> Version[c], codec |-> Preferred[c]]
ServerHello(to, n, v, k) ==
  [type |-> "ServerHello", from |-> Addr[Server], to |-> to,
   n |-> n, version |-> v, codec |-> k]
KeyExchange(c, n) ==
  [type |-> "KeyExchange", from |-> Addr[c], to |-> Addr[Server],
   n |-> n, tag |-> Key(c, n, "up")]
SessionConfirm(to, c, n) ==
  [type |-> "SessionConfirm", from |-> Addr[Server], to |-> to,
   n |-> n, tag |-> Key(c, n, "down")]
Audio(s, to) ==
  [type |-> "AudioFrame", from |-> Addr[s], to |-> to, key |-> enc[s]]

\* A datagram that reaches the socket of s.
Arrives(s, m) == m \in net /\ m.to = Addr[s]

Send(out) == net' = net \cup out

\* m is received and the datagrams `out` are sent in answer.
Receive(m, out) == net' = (IF Duplicating THEN net ELSE net \ {m}) \cup out

-----------------------------------------------------------------------------
Init ==
  /\ state = [s \in Sessions |-> "Idle"]
  /\ peer = [s \in Sessions |-> Nil]
  /\ sid = [s \in Sessions |-> 0]
  /\ codec = [s \in Sessions |-> Nil]
  /\ enc = [s \in Sessions |-> Nil]
  /\ dec = [s \in Sessions |-> Nil]
  /\ closed = [s \in Sessions |-> FALSE]
  /\ last_rx = [s \in Sessions |-> "never"]
  /\ pc = [s \in Sessions |-> "idle"]
  /\ mode = [s \in Sessions |-> "known"]
  /\ hs = [s \in Sessions |-> [client |-> Nil, n |-> 0, codec |-> Nil, version |-> 0]]
  /\ cl = [s \in Sessions |-> "no"]
  /\ attempts = 0
  /\ net = {}

-----------------------------------------------------------------------------
(* handshake(Client, server) *)

\* One process at a time owns a socket address: a client that shares its address
\* with another is that one's restart.
AddressFree(c) ==
  \A d \in Clients \ {c} : Addr[d] = Addr[c] => pc[d] \in {"idle", "dead"}

StartConnect(c) ==
  /\ pc[c] = "idle" /\ AddressFree(c)
  /\ peer' = [peer EXCEPT ![c] = Addr[Server]]
  /\ state' = [state EXCEPT ![c] = Transition(@, "StartConnect")]
  /\ pc' = [pc EXCEPT ![c] = "recv_server_hello"]
  /\ Send({ClientHello(c, Addr[Server])})
  /\ UNCHANGED <<sid, codec, keyVars, mode, hs, closeVars, last_rx, attempts>>

\* The backoff elapsed, or something other than a ServerHello arrived: the same
\* ClientHello goes out again.
RetryHello(c) ==
  /\ pc[c] = "recv_server_hello"
  /\ Send({ClientHello(c, peer[c])})
  /\ UNCHANGED <<fsmVars, idVars, keyVars, taskVars, closeVars, last_rx, attempts>>

InSeq(x, seq) == \E i \in 1 .. Len(seq) : seq[i] = x

\* handshake() returns an error: the timeout, the retries or a check.
Fail(s) ==
  /\ state' = [state EXCEPT ![s] = Transition(@, "HandshakeTimeout")]
  /\ pc' = [pc EXCEPT ![s] = "failed"]
  /\ UNCHANGED peer

RecvServerHello(c, m) ==
  /\ pc[c] = "recv_server_hello"
  /\ Arrives(c, m) /\ m.from = peer[c] /\ m.type = "ServerHello"
  /\ IF m.version \in VersionMin .. Version[c] /\ InSeq(m.codec, Supported[c])
     THEN /\ hs' = [hs EXCEPT ![c] = [client |-> c, n |-> m.n, codec |-> m.codec,
                                      version |-> m.version]]
          /\ pc' = [pc EXCEPT ![c] = "recv_confirm"]
          /\ Receive(m, {KeyExchange(c, m.n)})
          /\ UNCHANGED <<state, peer>>
     ELSE /\ Fail(c)
          /\ Receive(m, {})
          /\ UNCHANGED hs
  /\ UNCHANGED <<sid, codec, keyVars, mode, closeVars, last_rx, attempts>>

\* Mutant: the client takes the session id of any SessionConfirm.
RecvConfirmUnchecked(c, m) ==
  /\ pc[c] = "recv_confirm"
  /\ Arrives(c, m) /\ m.from = peer[c] /\ m.type = "SessionConfirm"
  /\ sid' = [sid EXCEPT ![c] = m.n]
  /\ codec' = [codec EXCEPT ![c] = hs[c].codec]
  /\ pc' = [pc EXCEPT ![c] = "store"]
  /\ Receive(m, {})
  /\ UNCHANGED <<state, peer, keyVars, mode, hs, closeVars, last_rx, attempts>>

RecvConfirm(c, m) ==
  /\ pc[c] = "recv_confirm"
  /\ Arrives(c, m) /\ m.from = peer[c] /\ m.type = "SessionConfirm"
  /\ IF m.n = hs[c].n /\ m.tag = Key(c, hs[c].n, "down")
     THEN /\ sid' = [sid EXCEPT ![c] = hs[c].n]
          /\ codec' = [codec EXCEPT ![c] = hs[c].codec]
          /\ pc' = [pc EXCEPT ![c] = "store"]
          /\ UNCHANGED <<state, peer>>
     ELSE Fail(c) /\ UNCHANGED <<sid, codec>>
  /\ Receive(m, {})
  /\ UNCHANGED <<keyVars, mode, hs, closeVars, last_rx, attempts>>

-----------------------------------------------------------------------------
(* handshake(Server, peer) and handshake_open() *)

\* The server waits for a client it knows, or (open) for whoever comes first.
StartAccept(addr, m) ==
  /\ pc[Server] = "idle"
  /\ peer' = [peer EXCEPT ![Server] = addr]
  /\ state' = [state EXCEPT ![Server] = Transition(@, "StartAccept")]
  /\ mode' = [mode EXCEPT ![Server] = m]
  /\ pc' = [pc EXCEPT ![Server] = IF m = "open" THEN "check_hello" ELSE "recv_hello"]
  /\ UNCHANGED <<sid, codec, keyVars, hs, closeVars, last_rx, attempts, net>>

\* An attempt fails.  handshake() gives up; handshake_open() walks the state
\* machine back to Handshaking, forgets the peer and starts the next attempt.
FailAttempt ==
  IF mode[Server] = "known"
  THEN Fail(Server)
  ELSE /\ state' = [state EXCEPT ![Server] =
             Transition(Transition(Transition(@, "HandshakeTimeout"), "Reconnect"),
                        "StartAccept")]
       /\ peer' = [peer EXCEPT ![Server] = Nil]
       /\ pc' = [pc EXCEPT ![Server] = "check_hello"]

\* Mutant: the loops do not look at `closed`.
CheckClosedNever ==
  /\ pc[Server] \in {"check_hello", "check_key_exchange"}
  /\ pc' = [pc EXCEPT ![Server] =
              IF @ = "check_hello" THEN "recv_hello" ELSE "recv_key_exchange"]
  /\ UNCHANGED <<fsmVars, idVars, keyVars, mode, hs, closeVars, last_rx, attempts, net>>

\* The loops look at `closed` before each recv, except that handshake() waits for
\* the ClientHello without looking.
CheckClosed ==
  /\ pc[Server] \in {"check_hello", "check_key_exchange"}
  /\ IF ~closed[Server]
     THEN /\ pc' = [pc EXCEPT ![Server] =
                      IF @ = "check_hello" THEN "recv_hello" ELSE "recv_key_exchange"]
          /\ UNCHANGED <<state, peer>>
     ELSE IF mode[Server] = "known"
     THEN Fail(Server)
     ELSE /\ state' = [state EXCEPT ![Server] = Transition(@, "Close")]
          /\ pc' = [pc EXCEPT ![Server] = "failed"]
          /\ UNCHANGED peer
  /\ UNCHANGED <<sid, codec, keyVars, mode, hs, closeVars, last_rx, attempts, net>>

\* The 500 ms recv timeout, or a datagram the loop ignores.
RecvNothing ==
  /\ \/ pc[Server] = "recv_hello" /\ mode[Server] = "open"
     \/ pc[Server] = "recv_key_exchange"
  /\ pc' = [pc EXCEPT ![Server] =
              IF @ = "recv_hello" THEN "check_hello" ELSE "check_key_exchange"]
  /\ UNCHANGED <<fsmVars, idVars, keyVars, mode, hs, closeVars, last_rx, attempts, net>>

\* The client's codec if the server has it, else the server's first.
ChosenCodec(k) == IF InSeq(k, Supported[Server]) THEN k ELSE Supported[Server][1]

RecvHello(m) ==
  /\ pc[Server] = "recv_hello"
  /\ Arrives(Server, m) /\ m.type = "ClientHello"
  /\ mode[Server] = "known" => m.from = peer[Server]
  /\ IF m.version < VersionMin
     THEN FailAttempt /\ Receive(m, {}) /\ UNCHANGED <<sid, codec, hs, attempts>>
     ELSE /\ attempts < MaxAttempts   \* bound
          /\ attempts' = attempts + 1
          /\ sid' = [sid EXCEPT ![Server] = attempts']
          /\ IF Supported[Server] = <<>>
             THEN FailAttempt /\ Receive(m, {}) /\ UNCHANGED <<codec, hs>>
             ELSE LET k == ChosenCodec(m.codec)
                      v == IF m.version < Version[Server] THEN m.version ELSE Version[Server]
                  IN /\ peer' = [peer EXCEPT ![Server] = m.from]
                     /\ codec' = [codec EXCEPT ![Server] = k]
                     /\ hs' = [hs EXCEPT ![Server] =
                                 [client |-> m.client, n |-> attempts', codec |-> k,
                                  version |-> v]]
                     /\ pc' = [pc EXCEPT ![Server] = "check_key_exchange"]
                     /\ Receive(m, {ServerHello(m.from, attempts', v, k)})
                     /\ UNCHANGED state
  /\ UNCHANGED <<keyVars, mode, closeVars, last_rx>>

\* A repeated ClientHello: the ServerHello was lost, the same one goes out again.
RepeatServerHello(m) ==
  /\ pc[Server] = "recv_key_exchange"
  /\ Arrives(Server, m) /\ m.from = peer[Server] /\ m.type = "ClientHello"
  /\ Receive(m, {ServerHello(peer[Server], hs[Server].n, hs[Server].version,
                             hs[Server].codec)})
  /\ pc' = [pc EXCEPT ![Server] = "check_key_exchange"]
  /\ UNCHANGED <<fsmVars, idVars, keyVars, mode, hs, closeVars, last_rx, attempts>>

RecvKeyExchange(m) ==
  /\ pc[Server] = "recv_key_exchange"
  /\ Arrives(Server, m) /\ m.from = peer[Server] /\ m.type = "KeyExchange"
  /\ IF m.n = hs[Server].n /\ m.tag = Key(hs[Server].client, hs[Server].n, "up")
     THEN /\ Receive(m, {SessionConfirm(peer[Server], hs[Server].client, hs[Server].n)})
          /\ pc' = [pc EXCEPT ![Server] = "store"]
          /\ UNCHANGED <<state, peer>>
     ELSE FailAttempt /\ Receive(m, {})
  /\ UNCHANGED <<sid, codec, keyVars, mode, hs, closeVars, last_rx, attempts>>

-----------------------------------------------------------------------------
(* The end of the handshake, both roles *)

\* The 10 s timeout of handshake() or the 30 s one of handshake_open() drops the
\* handshake at whatever await it is.
HandshakeTimeout(s) ==
  /\ pc[s] \in {"recv_server_hello", "recv_confirm", "recv_hello",
                "recv_key_exchange", "store"}
  /\ IF s = Server THEN FailAttempt ELSE Fail(s)
  /\ UNCHANGED <<sid, codec, keyVars, mode, hs, closeVars, last_rx, attempts, net>>

\* The keys are stored after the last datagram of the handshake.
StoreKeys(s) ==
  /\ pc[s] = "store"
  /\ enc' = [enc EXCEPT ![s] =
               Key(hs[s].client, hs[s].n, IF s = Server THEN "down" ELSE "up")]
  /\ dec' = [dec EXCEPT ![s] =
               Key(hs[s].client, hs[s].n, IF s = Server THEN "up" ELSE "down")]
  /\ pc' = [pc EXCEPT ![s] = "ok"]
  /\ UNCHANGED <<fsmVars, idVars, mode, hs, closeVars, last_rx, attempts, net>>

\* Mutant: the handshake ends in Active whatever has happened to the state.
HandshakeOkForced(s) ==
  /\ pc[s] = "ok"
  /\ state' = [state EXCEPT ![s] = "Active"]
  /\ pc' = [pc EXCEPT ![s] = "running"]
  /\ UNCHANGED <<idVars, keyVars, mode, hs, closeVars, last_rx, attempts, net>>

HandshakeOk(s) ==
  /\ pc[s] = "ok"
  /\ state' = [state EXCEPT ![s] = Transition(@, "HandshakeOk")]
  /\ pc' = [pc EXCEPT ![s] = IF Legal(state[s], "HandshakeOk") THEN "running" ELSE "failed"]
  /\ UNCHANGED <<idVars, keyVars, mode, hs, closeVars, last_rx, attempts, net>>

-----------------------------------------------------------------------------
(* The receive loop: recv_audio and poll_once *)

\* dispatch_packet.  Any datagram counts as a sign of life, whoever sent it.
Dispatch(s, m) ==
  /\ pc[s] = "running"
  /\ Arrives(s, m)
  /\ last_rx' = [last_rx EXCEPT ![s] = "recent"]
  /\ IF m.type = "Heartbeat" /\ peer[s] # Nil
     THEN Receive(m, {Datagram("HeartbeatAck", s, peer[s])})
     ELSE Receive(m, {})
  /\ IF m.type = "Close"
     THEN /\ state' = [state EXCEPT ![s] = Transition(@, "PeerClosed")]
          /\ pc' = [pc EXCEPT ![s] = "stopped"]
     ELSE UNCHANGED <<state, pc>>
  /\ UNCHANGED <<idVars, keyVars, mode, hs, closeVars, attempts>>

\* poll_once received nothing for 1 s: send_heartbeat, then check_liveness.
PollTimeout(s) ==
  /\ pc[s] = "running"
  /\ state[s] \in {"Active", "Paused"}
  /\ Send(IF peer[s] = Nil THEN {} ELSE {Datagram("Heartbeat", s, peer[s])})
  /\ IF last_rx[s] = "old"
     THEN /\ state' = [state EXCEPT ![s] = Transition(@, "PeerTimeout")]
          /\ pc' = [pc EXCEPT ![s] = "stopped"]
     ELSE UNCHANGED <<state, pc>>
  /\ UNCHANGED <<idVars, keyVars, mode, hs, closeVars, last_rx, attempts>>

\* 10 s pass since the last datagram.
Silence(s) ==
  /\ pc[s] = "running" /\ last_rx[s] = "recent"
  /\ last_rx' = [last_rx EXCEPT ![s] = "old"]
  /\ UNCHANGED <<fsmVars, idVars, keyVars, taskVars, closeVars, attempts, net>>

\* send_audio: in plain text when there is no key.
SendAudio(s) ==
  /\ pc[s] # "dead" /\ state[s] = "Active" /\ peer[s] # Nil
  /\ Send({Audio(s, peer[s])})
  /\ UNCHANGED <<fsmVars, idVars, keyVars, taskVars, closeVars, last_rx, attempts>>

-----------------------------------------------------------------------------
(* close(), and the death of a client process *)

CloseFlag(s) ==
  /\ cl[s] = "no" /\ pc[s] # "dead"
  /\ closed' = [closed EXCEPT ![s] = TRUE]
  /\ cl' = [cl EXCEPT ![s] = "flag"]
  /\ UNCHANGED <<fsmVars, idVars, keyVars, taskVars, last_rx, attempts, net>>

CloseKeys(s) ==
  /\ cl[s] = "flag" /\ pc[s] # "dead"
  /\ enc' = [enc EXCEPT ![s] = Nil]
  /\ dec' = [dec EXCEPT ![s] = Nil]
  /\ cl' = [cl EXCEPT ![s] = "keys"]
  /\ UNCHANGED <<fsmVars, idVars, taskVars, closed, last_rx, attempts, net>>

CloseSend(s) ==
  /\ cl[s] = "keys" /\ pc[s] # "dead"
  /\ Send(IF peer[s] = Nil THEN {} ELSE {Datagram("Close", s, peer[s])})
  /\ cl' = [cl EXCEPT ![s] = "sent"]
  /\ UNCHANGED <<fsmVars, idVars, keyVars, taskVars, closed, last_rx, attempts>>

\* The state machine takes the Close event twice.  An Idle session refuses both:
\* that close() has no effect on the state.
CloseFinish(s) ==
  /\ cl[s] = "sent" /\ pc[s] # "dead"
  /\ state' = [state EXCEPT ![s] = Transition(Transition(@, "Close"), "Close")]
  /\ cl' = [cl EXCEPT ![s] = IF state[s] = "Idle" THEN "missed" ELSE "done"]
  /\ UNCHANGED <<idVars, keyVars, taskVars, closed, last_rx, attempts, net>>

Crash(c) ==
  /\ pc[c] \notin {"idle", "dead"}
  /\ pc' = [pc EXCEPT ![c] = "dead"]
  /\ UNCHANGED <<fsmVars, idVars, keyVars, mode, hs, closeVars, last_rx, attempts, net>>

-----------------------------------------------------------------------------
ClientStep(c) ==
  \/ StartConnect(c) \/ RetryHello(c) \/ Crash(c)
  \/ \E m \in net : RecvServerHello(c, m) \/ RecvConfirm(c, m)

ServerStep ==
  \/ StartAccept(Nil, "open")
  \/ \E c \in Clients : StartAccept(Addr[c], "known")
  \/ CheckClosed \/ RecvNothing
  \/ \E m \in net : RecvHello(m) \/ RepeatServerHello(m) \/ RecvKeyExchange(m)

SessionStep(s) ==
  \/ HandshakeTimeout(s) \/ StoreKeys(s) \/ HandshakeOk(s)
  \/ \E m \in net : Dispatch(s, m)
  \/ Silence(s) \/ CloseKeys(s) \/ CloseSend(s) \/ CloseFinish(s)

Next ==
  \/ ServerStep
  \/ \E c \in Clients : ClientStep(c)
  \/ \E s \in Sessions : SessionStep(s)
  \/ \E s \in Pollers : PollTimeout(s)
  \/ \E s \in Talkers : SendAudio(s)
  \/ \E s \in Closers : CloseFlag(s)

Spec == Init /\ [][Next]_vars

\* Tasks that can run do run, timers fire, and the embedder keeps polling.
\* Nothing is assumed of the network.
FairSpec ==
  /\ Spec
  /\ WF_vars(CheckClosed) /\ WF_vars(RecvNothing)
  /\ \A s \in Sessions :
       /\ WF_vars(StoreKeys(s)) /\ WF_vars(HandshakeOk(s))
       /\ WF_vars(HandshakeTimeout(s))
       /\ WF_vars(CloseKeys(s)) /\ WF_vars(CloseSend(s)) /\ WF_vars(CloseFinish(s))
       /\ s \in Pollers => WF_vars(PollTimeout(s))
       /\ WF_vars(Silence(s) /\ \A m \in net : m.to # Addr[s])

-----------------------------------------------------------------------------
(* Properties *)

Keys == [client : Clients, n : 1 .. MaxAttempts, dir : {"up", "down"}]

\* Every variable has its type.
TypeOK ==
  /\ state \in [Sessions -> States]
  /\ peer \in [Sessions -> {Addr[s] : s \in Sessions} \cup {Nil}]
  /\ sid \in [Sessions -> 0 .. MaxAttempts]
  /\ enc \in [Sessions -> Keys \cup {Nil}]
  /\ dec \in [Sessions -> Keys \cup {Nil}]
  /\ closed \in [Sessions -> BOOLEAN]
  /\ last_rx \in [Sessions -> {"never", "recent", "old"}]
  /\ pc \in [Sessions -> {"idle", "recv_server_hello", "recv_confirm", "check_hello",
       "recv_hello", "check_key_exchange", "recv_key_exchange", "store", "ok",
       "running", "stopped", "failed", "dead"}]
  /\ mode \in [Sessions -> {"known", "open"}]
  /\ cl \in [Sessions -> {"no", "flag", "keys", "sent", "done", "missed"}]
  /\ attempts \in 0 .. MaxAttempts

\* Active, alive, and nobody has begun to close it.
Established(s) == state[s] = "Active" /\ ~closed[s] /\ pc[s] # "dead"

\* What an established session has stored belongs to one and the same attempt:
\* its keys are those of its session id, and the server's peer is the address of
\* the client the keys were agreed with, whatever earlier attempts were begun,
\* refused or timed out, and whichever client came back on the same address.
OneAttempt ==
  /\ \A c \in Clients : Established(c) =>
       enc[c] = Key(c, sid[c], "up") /\ dec[c] = Key(c, sid[c], "down")
  /\ Established(Server) =>
       \E c \in Clients :
         /\ Addr[c] = peer[Server]
         /\ enc[Server] = Key(c, sid[Server], "down")
         /\ dec[Server] = Key(c, sid[Server], "up")

\* If both ends of an address pair are established they agree: same session id,
\* each encrypts with the key the other decrypts with, and the codec is the same
\* one and both support it.
SessionAgreement ==
  \A c \in Clients :
    Established(c) /\ Established(Server) /\ peer[Server] = Addr[c] =>
      /\ sid[c] = sid[Server]
      /\ enc[c] = dec[Server] /\ dec[c] = enc[Server]
      /\ codec[c] = codec[Server]
      /\ InSeq(codec[c], Supported[c]) /\ InSeq(codec[c], Supported[Server])

\* A close() that returned after the handshake was started is not undone: no
\* handshake that was still running brings the session to Active.
CloseIsFinal == \A s \in Sessions : cl[s] = "done" => state[s] # "Active"

\* After such a close() the session ends Closed, although handshake_open may
\* bring it back to Handshaking once more while it unwinds.
CloseConverges ==
  \A s \in Sessions : cl[s] = "done" ~> [](state[s] = "Closed" \/ pc[s] = "dead")

\* The branch of send_audio that sends plain text is not taken by an Active
\* session.
NeverPlainText == \A m \in net : m.type = "AudioFrame" => m.key # Nil

\* A session does not stay Active for ever with a peer that is gone.
PeerLossDetected ==
  (/\ state[Server] = "Active"
   /\ \A c \in Clients : pc[c] \in {"failed", "dead"}) ~> state[Server] # "Active"
=============================================================================
