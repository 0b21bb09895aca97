------------------------------- MODULE Relay -------------------------------
(***************************************************************************)
(* The relay (gravital-talk-relay): the table of sessions and their peers, *)
(* the arbitration of the floor, and the tasks that share the table: the   *)
(* UDP loop, one task per WebSocket connection, and the collector of idle  *)
(* sessions.  The tasks run in parallel on tokio's threads; the table is a *)
(* DashMap, so one operation on one entry is atomic and a handler that     *)
(* makes several of them is not.  Metrics and the bytes forwarded are left *)
(* out; an endpoint's datagrams are arbitrary.                             *)
(***************************************************************************)
EXTENDS Integers, FiniteSets

CONSTANTS
  Sids,         \* session ids (0 is dropped before anything else)
  Udp,          \* UDP endpoints
  Ws,           \* WebSocket connections
  UdpLoop,      \* the task of udp::run
  MaxSessions,  \* max_sessions
  MaxPeers,     \* max_peers_per_session
  Nil

Tasks == {UdpLoop} \cup Ws
Endpoints == Udp \cup Ws

Job == [sid : Sids, from : Endpoints, type : {"FloorRequest", "Other"}]

\* RouteEntry.  expired: the floor was granted more than FLOOR_MAX_HOLD_SECS ago;
\* idle: last_activity is older than the time to live.
Entry == [peers : SUBSET Endpoints, holder : Udp \cup {Nil},
          expired : BOOLEAN, idle : BOOLEAN]

ASSUME RelayAssumption ==
  /\ MaxSessions \in Nat /\ MaxPeers \in Nat \ {0}
  /\ UdpLoop \notin Ws
  /\ Udp \cap Ws = {}
  /\ Nil \notin Endpoints \cup Entry \cup Job

ASSUME WsAssumption == IsFiniteSet(Ws)

VARIABLES
  routes,       \* the entry of each session, Nil if it has none
  pc, job,      \* what each task does, and for which datagram
  ws,           \* each WebSocket connection
  granted,      \* history: the endpoints told that they have the floor of a
                \*   session, until they release it or their time is over
  overwritten   \* history: sessions whose entry an insert has replaced

vars == <<routes, pc, job, ws, granted, overwritten>>

NewEntry(from) == [peers |-> {from}, holder |-> Nil, expired |-> FALSE, idle |-> FALSE]

Active == {s \in Sids : routes[s] # Nil}

Init ==
  /\ routes = [s \in Sids |-> Nil]
  /\ pc = [t \in Tasks |-> "recv"]
  /\ job = [t \in Tasks |-> Nil]
  /\ ws = [w \in Ws |-> "open"]
  /\ granted = [s \in Sids |-> {}]
  /\ overwritten = {}

-----------------------------------------------------------------------------
(* Router::route *)

\* route() returns: the floor request is still to be decided, all else is done.
RouteReturns(t, d) ==
  IF d.type = "FloorRequest"
  THEN pc' = [pc EXCEPT ![t] = "floor"] /\ job' = [job EXCEPT ![t] = d]
  ELSE pc' = [pc EXCEPT ![t] = "recv"] /\ job' = [job EXCEPT ![t] = Nil]

\* tx.send to a WebSocket whose reader is gone wakes its writer, which then fails.
Forward(targets) ==
  ws' = [w \in Ws |-> IF w \in targets /\ ws[w] = "closing" THEN "failing" ELSE ws[w]]

\* The entry exists: under its lock the datagram counts as activity and a new peer
\* joins if there is room.  All but a floor request is forwarded to the others.
RouteKnown(t, d) ==
  LET e == routes[d.sid]
      joins == d.from \in e.peers \/ Cardinality(e.peers) < MaxPeers
  IN /\ pc[t] = "recv" /\ e # Nil
     /\ routes' = [routes EXCEPT ![d.sid] =
          [e EXCEPT !.idle = FALSE, !.peers = IF joins THEN @ \cup {d.from} ELSE @]]
     /\ IF joins /\ d.type = "Other" THEN Forward(e.peers \ {d.from}) ELSE UNCHANGED ws
     /\ RouteReturns(t, d)
     /\ UNCHANGED <<granted, overwritten>>

\* Mutant: the datagram is not kept for the insert.
RouteUnknownForgets(t, d) ==
  /\ pc[t] = "recv" /\ routes[d.sid] = Nil
  /\ pc' = [pc EXCEPT ![t] = "len"]
  /\ UNCHANGED <<routes, job, ws, granted, overwritten>>

\* The lookup finds no entry, and releases the lock.
RouteUnknown(t, d) ==
  /\ pc[t] = "recv" /\ routes[d.sid] = Nil
  /\ pc' = [pc EXCEPT ![t] = "len"]
  /\ job' = [job EXCEPT ![t] = d]
  /\ UNCHANGED <<routes, ws, granted, overwritten>>

\* Mutant: one session too many passes.
RouteLenOneMore(t) ==
  /\ pc[t] = "len"
  /\ IF Cardinality(Active) > MaxSessions
     THEN RouteReturns(t, job[t])
     ELSE pc' = [pc EXCEPT ![t] = "insert"] /\ UNCHANGED job
  /\ UNCHANGED <<routes, ws, granted, overwritten>>

\* routes.len() >= max_sessions drops the datagram.
RouteLen(t) ==
  /\ pc[t] = "len"
  /\ IF Cardinality(Active) >= MaxSessions
     THEN RouteReturns(t, job[t])
     ELSE pc' = [pc EXCEPT ![t] = "insert"] /\ UNCHANGED job
  /\ UNCHANGED <<routes, ws, granted, overwritten>>

\* routes.insert replaces an entry that another task has inserted meanwhile.
RouteInsert(t) ==
  /\ pc[t] = "insert"
  /\ LET sid == job[t].sid
     IN /\ routes' = [routes EXCEPT ![sid] = NewEntry(job[t].from)]
        /\ overwritten' = overwritten \cup (IF routes[sid] = Nil THEN {} ELSE {sid})
  /\ RouteReturns(t, job[t])
  /\ UNCHANGED <<ws, granted>>

-----------------------------------------------------------------------------
(* Floor arbitration, by the UDP loop *)

FloorIsFree(e) == e.holder = Nil \/ e.expired

\* Mutant: the requester need not be a peer of the session.
FloorRequestFromAnyone ==
  LET sid == job[UdpLoop].sid
      from == job[UdpLoop].from
      e == routes[sid]
  IN /\ pc[UdpLoop] = "floor"
     /\ IF e # Nil /\ FloorIsFree(e)
        THEN /\ routes' = [routes EXCEPT ![sid] = [e EXCEPT !.holder = from, !.expired = FALSE]]
             /\ granted' = [granted EXCEPT ![sid] = @ \cup {from}]
        ELSE UNCHANGED <<routes, granted>>
     /\ pc' = [pc EXCEPT ![UdpLoop] = "recv"]
     /\ job' = [job EXCEPT ![UdpLoop] = Nil]
     /\ UNCHANGED <<ws, overwritten>>

\* Mutant: the floor need not be free.
FloorRequestSteals ==
  LET sid == job[UdpLoop].sid
      from == job[UdpLoop].from
      e == routes[sid]
      known == e # Nil /\ from \in e.peers
  IN /\ pc[UdpLoop] = "floor"
     /\ IF known
        THEN /\ routes' = [routes EXCEPT ![sid] = [e EXCEPT !.holder = from, !.expired = FALSE]]
             /\ granted' = [granted EXCEPT ![sid] = @ \cup {from}]
             /\ Forward(e.peers \ {from})
        ELSE UNCHANGED <<routes, granted, ws>>
     /\ pc' = [pc EXCEPT ![UdpLoop] = "recv"]
     /\ job' = [job EXCEPT ![UdpLoop] = Nil]
     /\ UNCHANGED overwritten

\* floor_request, after route(): unknown session or peer, granted, or denied.  A
\* grant goes to the requester, and FloorTaken to the others.
FloorRequest ==
  LET sid == job[UdpLoop].sid
      from == job[UdpLoop].from
      e == routes[sid]
      known == e # Nil /\ from \in e.peers
  IN /\ pc[UdpLoop] = "floor"
     /\ IF known /\ FloorIsFree(e)
        THEN /\ routes' = [routes EXCEPT ![sid] = [e EXCEPT !.holder = from, !.expired = FALSE]]
             /\ granted' = [granted EXCEPT ![sid] = @ \cup {from}]
             /\ Forward(e.peers \ {from})
        ELSE UNCHANGED <<routes, granted, ws>>
     /\ pc' = [pc EXCEPT ![UdpLoop] = "recv"]
     /\ job' = [job EXCEPT ![UdpLoop] = Nil]
     /\ UNCHANGED overwritten

\* Mutant: anyone releases a floor that is held.
FloorReleaseByAnyone(sid, from) ==
  LET e == routes[sid]
  IN /\ pc[UdpLoop] = "recv" /\ e # Nil
     /\ granted' = [granted EXCEPT ![sid] = @ \ {from}]
     /\ routes' = [routes EXCEPT ![sid] = [e EXCEPT !.holder = Nil, !.expired = FALSE]]
     /\ UNCHANGED <<pc, job, ws, overwritten>>

\* floor_release: by the holder, or by anyone when the floor is free.
FloorRelease(sid, from) ==
  LET e == routes[sid]
  IN /\ pc[UdpLoop] = "recv"
     /\ granted' = [granted EXCEPT ![sid] = @ \ {from}]
     /\ IF e # Nil /\ (e.holder = from \/ FloorIsFree(e))
        THEN /\ routes' = [routes EXCEPT ![sid] = [e EXCEPT !.holder = Nil, !.expired = FALSE]]
             /\ Forward(e.peers \ {from})
        ELSE UNCHANGED <<routes, ws>>
     /\ UNCHANGED <<pc, job, overwritten>>

-----------------------------------------------------------------------------
(* WebSocket connections *)

\* The reader ends.  The writer waits on: the table still holds its sender.
WsClose(w) ==
  /\ ws[w] = "open" /\ pc[w] = "recv"
  /\ ws' = [ws EXCEPT ![w] = "closing"]
  /\ UNCHANGED <<routes, pc, job, granted, overwritten>>

\* The writer ends, as a send fails or as the last sender is dropped.
WsWriterEnds(w) ==
  /\ \/ ws[w] = "failing"
     \/ ws[w] = "closing" /\ \A s \in Active : w \notin routes[s].peers
  /\ ws' = [ws EXCEPT ![w] = "gone"]
  /\ UNCHANGED <<routes, pc, job, granted, overwritten>>

-----------------------------------------------------------------------------
(* Time and evict_idle *)

\* No handler is under way: handlers are short against the times below.
Settled == \A t \in Tasks : pc[t] = "recv"

\* FLOOR_MAX_HOLD_SECS have passed since the grant.
HoldExpires(sid) ==
  /\ Settled /\ sid \in Active /\ routes[sid].holder # Nil /\ ~routes[sid].expired
  /\ routes' = [routes EXCEPT ![sid].expired = TRUE]
  /\ granted' = [granted EXCEPT ![sid] = @ \ {routes[sid].holder}]
  /\ UNCHANGED <<pc, job, ws, overwritten>>

\* The time to live has passed since the last datagram; a floor granted before it
\* (a grant follows a datagram) has expired, the time to live being longer.
GoesIdle(sid) ==
  /\ Settled /\ sid \in Active /\ ~routes[sid].idle
  /\ routes[sid].holder # Nil => routes[sid].expired
  /\ routes' = [routes EXCEPT ![sid].idle = TRUE]
  /\ UNCHANGED <<pc, job, ws, granted, overwritten>>

\* retain, for one entry: peers whose channel is closed go, and then the entry, if
\* it is idle or has no peers.
Evict(sid) ==
  LET e == routes[sid]
      left == {p \in e.peers : p \in Ws => ws[p] # "gone"}
  IN /\ e # Nil
     /\ routes' = [routes EXCEPT ![sid] =
          IF left = {} \/ e.idle THEN Nil ELSE [e EXCEPT !.peers = left]]
     /\ UNCHANGED <<pc, job, ws, granted, overwritten>>

-----------------------------------------------------------------------------
UdpReceive(d) == RouteKnown(UdpLoop, d) \/ RouteUnknown(UdpLoop, d)

\* A WebSocket task routes every message alike, floor requests included.
WsReceive(w, sid) ==
  LET d == [sid |-> sid, from |-> w, type |-> "Other"]
  IN ws[w] = "open" /\ (RouteKnown(w, d) \/ RouteUnknown(w, d))

Next ==
  \/ \E d \in [sid : Sids, from : Udp, type : {"FloorRequest", "Other"}] : UdpReceive(d)
  \/ \E sid \in Sids, from \in Udp : FloorRelease(sid, from)
  \/ \E w \in Ws, sid \in Sids : WsReceive(w, sid)
  \/ \E t \in Tasks : RouteLen(t)
  \/ \E t \in Tasks : RouteInsert(t)
  \/ FloorRequest
  \/ \E w \in Ws : WsClose(w)
  \/ \E w \in Ws : WsWriterEnds(w)
  \/ \E sid \in Sids : HoldExpires(sid)
  \/ \E sid \in Sids : GoesIdle(sid)
  \/ \E sid \in Sids : Evict(sid)

Spec == Init /\ [][Next]_vars

-----------------------------------------------------------------------------
(* Properties *)

\* Every variable has its type.
TypeOK ==
  /\ routes \in [Sids -> Entry \cup {Nil}]
  /\ pc \in [Tasks -> {"recv", "len", "insert", "floor"}]
  /\ job \in [Tasks -> Job \cup {Nil}]
  /\ \A t \in Tasks : pc[t] # "recv" => job[t] # Nil
  /\ ws \in [Ws -> {"open", "closing", "failing", "gone"}]
  /\ granted \in [Sids -> SUBSET Udp]
  /\ overwritten \in SUBSET Sids

\* The holder of a floor is a peer of its session: no eviction or insert leaves a
\* floor in the hands of an endpoint that the relay no longer forwards to.
HolderIsPeer == \A s \in Active : routes[s].holder \in routes[s].peers \cup {Nil}

\* The floor is exclusive: the only endpoint that may believe to have it is the
\* holder in the table, as long as no insert has replaced the session's entry.
FloorExclusive ==
  \A s \in Sids \ overwritten :
     granted[s] \subseteq (IF routes[s] = Nil THEN {} ELSE {routes[s].holder})

\* max_sessions is exceeded by less than the number of concurrent tasks, however
\* the unlocked steps length check and insert of their route() calls interleave.
OvershootBounded == Cardinality(Active) < MaxSessions + Cardinality(Tasks)

\* At most one participant has the floor of a session at a time.
OneFloor == \A s \in Sids : Cardinality(granted[s]) <= 1

\* Who has the floor of an entry: its holder, until the time is over.
HolderOf(e) == IF e = Nil \/ FloorIsFree(e) THEN Nil ELSE e.holder

\* The table implements the arbiter of FloorArbiter: whatever the tasks interleave, a
\* floor passes from one endpoint to another only through a release, the end of the
\* holder's time or an insert, one session at a time, and no eviction takes it away
\* and gives it on in one step.
Arbiter == INSTANCE FloorArbiter
           WITH Peers <- Udp, holder <- [s \in Sids |-> HolderOf(routes[s])]

ArbitratesFloor == Arbiter!Spec

-----------------------------------------------------------------------------
(* The inductive invariant behind HolderIsPeer and FloorExclusive *)

\* The UDP loop works for a UDP endpoint, on a session that is not idle.
LoopInv ==
  pc[UdpLoop] # "recv" =>
    /\ job[UdpLoop].from \in Udp
    /\ LET e == routes[job[UdpLoop].sid] IN e # Nil => ~e.idle

\* An idle session's floor is free.
IdleInv == \A s \in Sids : routes[s] # Nil /\ routes[s].idle => FloorIsFree(routes[s])

\* Nobody has a free floor, and only the holder one that is not.
GrantInv ==
  \A s \in Sids \ overwritten :
     granted[s] \subseteq
       (IF routes[s] = Nil \/ FloorIsFree(routes[s]) THEN {} ELSE {routes[s].holder})

IInv == TypeOK /\ LoopInv /\ IdleInv /\ HolderIsPeer /\ GrantInv
=============================================================================
