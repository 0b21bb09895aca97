---------------------------- MODULE Relay_proofs ----------------------------
(* Proofs about the relay, for any endpoints, sessions and limits. *)
EXTENDS Relay, FiniteSetTheorems, TLAPS

\* A new entry is an entry; what an entry consists of.
LEMMA Entries ==
  ASSUME NEW e \in Entry
  PROVE  e # Nil
BY RelayAssumption DEF Entry

LEMMA NewEntries ==
  ASSUME NEW from \in Endpoints
  PROVE  NewEntry(from) \in Entry
BY DEF NewEntry, Entry

\* The state in which the relay starts satisfies the invariant.
LEMMA InitIInv == Init => IInv
BY RelayAssumption
   DEF Init, IInv, TypeOK, LoopInv, IdleInv, HolderIsPeer, GrantInv, Active, Tasks

\* RouteReturns leaves the tasks well-typed, and busy only with floor requests.
LEMMA Returns ==
  ASSUME TypeOK, NEW t \in Tasks, NEW d \in Job, RouteReturns(t, d)
  PROVE  /\ pc' \in [Tasks -> {"recv", "len", "insert", "floor"}]
         /\ job' \in [Tasks -> Job \cup {Nil}]
         /\ \A u \in Tasks : pc'[u] # "recv" => job'[u] # Nil
         /\ \A u \in Tasks \ {t} : pc'[u] = pc[u] /\ job'[u] = job[u]
         /\ pc'[t] # "recv" => job'[t] = d
<1>1. d # Nil
  BY RelayAssumption
<1> QED  BY <1>1 DEF TypeOK, RouteReturns

\* A step that changes the entry of one session to e, and the endpoints told to
\* have its floor, preserves what the invariant says of entries if it holds of e.
LEMMA EntryStep ==
  ASSUME IInv, NEW sid \in Sids, NEW e \in Entry \cup {Nil},
         routes' = [routes EXCEPT ![sid] = e],
         e # Nil => e.holder \in e.peers \cup {Nil},
         e # Nil /\ e.idle => FloorIsFree(e),
         overwritten \subseteq overwritten',
         \A s \in Sids \ {sid} : granted'[s] = granted[s],
         sid \notin overwritten' =>
            granted'[sid] \subseteq (IF e = Nil \/ FloorIsFree(e) THEN {} ELSE {e.holder})
  PROVE  /\ routes' \in [Sids -> Entry \cup {Nil}]
         /\ IdleInv' /\ HolderIsPeer' /\ GrantInv'
<1>1. /\ routes' \in [Sids -> Entry \cup {Nil}]
      /\ routes'[sid] = e
      /\ \A s \in Sids \ {sid} : routes'[s] = routes[s]
  BY DEF IInv, TypeOK
<1>2. IdleInv'
  BY <1>1 DEF IInv, IdleInv, FloorIsFree
<1>3. HolderIsPeer'
  BY <1>1 DEF IInv, HolderIsPeer, Active
<1>4. GrantInv'
  <2> SUFFICES ASSUME NEW s \in Sids \ overwritten'
               PROVE  granted'[s] \subseteq
                        (IF routes'[s] = Nil \/ FloorIsFree(routes'[s])
                         THEN {} ELSE {routes'[s].holder})
    BY DEF GrantInv, FloorIsFree
  <2>1. CASE s = sid
    BY <2>1, <1>1
  <2>2. CASE s # sid
    <3>1. routes'[s] = routes[s] /\ granted'[s] = granted[s]
      BY <1>1, <2>2
    <3>2. s \in Sids \ overwritten
      OBVIOUS
    <3> QED  BY <3>1, <3>2 DEF IInv, GrantInv
  <2> QED  BY <2>1, <2>2
<1> QED  BY <1>1, <1>2, <1>3, <1>4

\* LoopInv is preserved when the UDP loop does not move and no session becomes idle.
LEMMA LoopStep ==
  ASSUME IInv, pc'[UdpLoop] = pc[UdpLoop], job'[UdpLoop] = job[UdpLoop],
         \A s \in Sids : \/ routes'[s] = routes[s]
                        \/ routes'[s] = Nil
                        \/ ~routes'[s].idle
  PROVE  LoopInv'
<1>1. pc[UdpLoop] # "recv" => job[UdpLoop] \in Job
  BY DEF Tasks, IInv, TypeOK
<1> QED  BY <1>1 DEF LoopInv, IInv, Job

\* route(), first part: the lookup of the session.
LEMMA RouteKnownIInv ==
  ASSUME IInv, NEW t \in Tasks, NEW d \in Job, RouteKnown(t, d),
         t = UdpLoop => d.from \in Udp
  PROVE  IInv'
<1> DEFINE e == routes[d.sid]
           joins == d.from \in e.peers \/ Cardinality(e.peers) < MaxPeers
           f == [e EXCEPT !.idle = FALSE, !.peers = IF joins THEN @ \cup {d.from} ELSE @]
<1>1. /\ d.sid \in Sids /\ d.from \in Endpoints /\ e \in Entry
      /\ routes' = [routes EXCEPT ![d.sid] = f]
      /\ RouteReturns(t, d) /\ granted' = granted /\ overwritten' = overwritten
  BY DEF RouteKnown, Job, IInv, TypeOK
<1>2. /\ f \in Entry /\ f.holder = e.holder /\ f.expired = e.expired
      /\ f.idle = FALSE /\ e.peers \subseteq f.peers
  BY Zenon, <1>1 DEF Entry
<1> HIDE DEF joins, f
<1>3. e.holder \in e.peers \cup {Nil}
  BY <1>1, Entries DEF IInv, HolderIsPeer, Active
<1>4. f # Nil /\ f.holder \in f.peers \cup {Nil}
  BY <1>2, <1>3, Entries
<1>5. d.sid \notin overwritten' =>
        granted'[d.sid] \subseteq (IF f = Nil \/ FloorIsFree(f) THEN {} ELSE {f.holder})
  BY <1>1, <1>2, <1>4, Entries DEF IInv, GrantInv, FloorIsFree
<1>6. /\ routes' \in [Sids -> Entry \cup {Nil}]
      /\ IdleInv' /\ HolderIsPeer' /\ GrantInv'
  BY Zenon, <1>1, <1>2, <1>4, <1>5, EntryStep
<1>7. /\ pc' \in [Tasks -> {"recv", "len", "insert", "floor"}]
      /\ job' \in [Tasks -> Job \cup {Nil}]
      /\ \A u \in Tasks : pc'[u] # "recv" => job'[u] # Nil
      /\ \A u \in Tasks \ {t} : pc'[u] = pc[u] /\ job'[u] = job[u]
      /\ pc'[t] # "recv" => job'[t] = d
  BY <1>1, Returns DEF IInv
<1>8. ws' \in [Ws -> {"open", "closing", "failing", "gone"}]
  BY DEF RouteKnown, Forward, IInv, TypeOK
<1>9. TypeOK'
  BY <1>1, <1>6, <1>7, <1>8 DEF IInv, TypeOK
<1>10. \A s \in Sids : routes'[s] = routes[s] \/ ~routes'[s].idle
  BY <1>1, <1>2 DEF IInv, TypeOK
<1>11. LoopInv'
  <2>1. CASE t = UdpLoop
    BY <2>1, <1>1, <1>2, <1>7 DEF LoopInv, Tasks, IInv, TypeOK
  <2>2. CASE t # UdpLoop
    <3>1. pc'[UdpLoop] = pc[UdpLoop] /\ job'[UdpLoop] = job[UdpLoop]
      BY <2>2, <1>7 DEF Tasks
    <3> QED  BY <3>1, <1>10, LoopStep
  <2> QED  BY <2>1, <2>2
<1> QED  BY <1>6, <1>9, <1>11 DEF IInv

\* The lookup that finds nothing, the length check and the insert.
LEMMA RouteUnknownIInv ==
  ASSUME IInv, NEW t \in Tasks, NEW d \in Job, RouteUnknown(t, d),
         t = UdpLoop => d.from \in Udp
  PROVE  IInv'
<1>1. d # Nil
  BY RelayAssumption
<1>2. TypeOK'
  BY <1>1 DEF RouteUnknown, IInv, TypeOK
<1>3. IdleInv' /\ HolderIsPeer' /\ GrantInv'
  BY DEF RouteUnknown, IInv, IdleInv, HolderIsPeer, Active, GrantInv
<1>4. LoopInv'
  <2>1. CASE t = UdpLoop
    BY <2>1 DEF RouteUnknown, LoopInv, IInv, TypeOK
  <2>2. CASE t # UdpLoop
    BY <2>2, LoopStep DEF RouteUnknown, IInv, TypeOK, Tasks
  <2> QED  BY <2>1, <2>2
<1> QED  BY <1>2, <1>3, <1>4 DEF IInv

\* The job of a task in the middle of route().
LEMMA Jobs ==
  ASSUME IInv, NEW t \in Tasks, pc[t] # "recv"
  PROVE  /\ job[t] \in Job /\ job[t].sid \in Sids /\ job[t].from \in Endpoints
         /\ t = UdpLoop => job[t].from \in Udp
BY DEF IInv, TypeOK, LoopInv, Job

LEMMA RouteLenIInv ==
  ASSUME IInv, NEW t \in Tasks, RouteLen(t)
  PROVE  IInv'
<1>1. IdleInv' /\ HolderIsPeer' /\ GrantInv'
  BY DEF RouteLen, IInv, IdleInv, HolderIsPeer, Active, GrantInv
<1>2. /\ pc[t] = "len" /\ UNCHANGED <<routes, ws, granted, overwritten>>
      /\ job[t] \in Job
  BY Jobs DEF RouteLen
<1>3. CASE RouteReturns(t, job[t])
  <2>1. /\ pc' \in [Tasks -> {"recv", "len", "insert", "floor"}]
        /\ job' \in [Tasks -> Job \cup {Nil}]
        /\ \A u \in Tasks : pc'[u] # "recv" => job'[u] # Nil
        /\ \A u \in Tasks \ {t} : pc'[u] = pc[u] /\ job'[u] = job[u]
        /\ pc'[t] # "recv" => job'[t] = job[t]
    BY <1>2, <1>3, Returns DEF IInv
  <2>2. TypeOK'
    BY <1>2, <2>1 DEF IInv, TypeOK
  <2>3. LoopInv'
    BY <1>2, <2>1 DEF LoopInv, IInv, Tasks
  <2> QED  BY <1>1, <2>2, <2>3 DEF IInv
<1>4. CASE pc' = [pc EXCEPT ![t] = "insert"] /\ UNCHANGED job
  <2>1. TypeOK'
    BY <1>2, <1>4, RelayAssumption DEF IInv, TypeOK
  <2>2. LoopInv'
    BY <1>2, <1>4 DEF LoopInv, IInv, TypeOK
  <2> QED  BY <1>1, <2>1, <2>2 DEF IInv
<1> QED  BY <1>3, <1>4 DEF RouteLen

LEMMA RouteInsertIInv ==
  ASSUME IInv, NEW t \in Tasks, RouteInsert(t)
  PROVE  IInv'
<1> DEFINE sid == job[t].sid
           e == NewEntry(job[t].from)
<1>1. /\ pc[t] = "insert" /\ job[t] \in Job /\ sid \in Sids /\ job[t].from \in Endpoints
      /\ t = UdpLoop => job[t].from \in Udp
      /\ routes' = [routes EXCEPT ![sid] = e]
      /\ overwritten' = overwritten \cup (IF routes[sid] = Nil THEN {} ELSE {sid})
      /\ RouteReturns(t, job[t]) /\ ws' = ws /\ granted' = granted
  BY Jobs DEF RouteInsert
<1>2. /\ e \in Entry /\ e # Nil /\ e.holder = Nil /\ ~e.idle /\ FloorIsFree(e)
  BY <1>1, NewEntries, Entries DEF NewEntry, FloorIsFree
<1>3. sid \notin overwritten' => granted'[sid] = {}
  <2>1. sid \notin overwritten' => routes[sid] = Nil /\ sid \in Sids \ overwritten
    BY <1>1
  <2> QED  BY <1>1, <2>1 DEF IInv, GrantInv
<1>4. /\ routes' \in [Sids -> Entry \cup {Nil}]
      /\ IdleInv' /\ HolderIsPeer' /\ GrantInv'
  <2> HIDE DEF e, sid
  <2>1. overwritten \subseteq overwritten' /\ e \in Entry \cup {Nil}
    BY <1>1, <1>2
  <2>2. /\ e # Nil => e.holder \in e.peers \cup {Nil}
        /\ e # Nil /\ e.idle => FloorIsFree(e)
        /\ \A s \in Sids \ {sid} : granted'[s] = granted[s]
    BY <1>1, <1>2
  <2>3. sid \notin overwritten' =>
           granted'[sid] \subseteq (IF e = Nil \/ FloorIsFree(e) THEN {} ELSE {e.holder})
    BY <1>3
  <2> QED  BY Zenon, <1>1, <2>1, <2>2, <2>3, EntryStep
<1>5. /\ pc' \in [Tasks -> {"recv", "len", "insert", "floor"}]
      /\ job' \in [Tasks -> Job \cup {Nil}]
      /\ \A u \in Tasks : pc'[u] # "recv" => job'[u] # Nil
      /\ \A u \in Tasks \ {t} : pc'[u] = pc[u] /\ job'[u] = job[u]
      /\ pc'[t] # "recv" => job'[t] = job[t]
  BY <1>1, Returns DEF IInv
<1>6. TypeOK'
  BY <1>1, <1>4, <1>5 DEF IInv, TypeOK
<1>7. LoopInv'
  <2>1. CASE t = UdpLoop
    BY <2>1, <1>1, <1>2, <1>5 DEF LoopInv, IInv, TypeOK
  <2>2. CASE t # UdpLoop
    <3>1. \A s \in Sids : routes'[s] = routes[s] \/ ~routes'[s].idle
      BY <1>1, <1>2 DEF IInv, TypeOK
    <3>2. pc'[UdpLoop] = pc[UdpLoop] /\ job'[UdpLoop] = job[UdpLoop]
      BY <2>2, <1>5 DEF Tasks
    <3> QED  BY <3>1, <3>2, LoopStep
  <2> QED  BY <2>1, <2>2
<1> QED  BY <1>4, <1>6, <1>7 DEF IInv

\* The decision on a floor request.
LEMMA FloorRequestIInv ==
  ASSUME IInv, FloorRequest
  PROVE  IInv'
<1> DEFINE sid == job[UdpLoop].sid
           from == job[UdpLoop].from
           e == routes[sid]
           f == [e EXCEPT !.holder = from, !.expired = FALSE]
<1>1. /\ UdpLoop \in Tasks /\ pc[UdpLoop] = "floor"
      /\ sid \in Sids /\ from \in Udp
      /\ e # Nil => e \in Entry /\ ~e.idle
      /\ pc' = [pc EXCEPT ![UdpLoop] = "recv"]
      /\ job' = [job EXCEPT ![UdpLoop] = Nil]
      /\ overwritten' = overwritten
  BY Jobs DEF FloorRequest, Tasks, IInv, TypeOK, LoopInv
<1>2. /\ pc' \in [Tasks -> {"recv", "len", "insert", "floor"}]
      /\ job' \in [Tasks -> Job \cup {Nil}]
      /\ \A u \in Tasks : pc'[u] # "recv" => job'[u] # Nil
      /\ pc'[UdpLoop] = "recv"
  BY <1>1 DEF IInv, TypeOK
<1>3. LoopInv'
  BY <1>2 DEF LoopInv
<1>4. CASE ~(e # Nil /\ from \in e.peers /\ FloorIsFree(e))
  <2>1. UNCHANGED <<routes, granted, ws>>
    BY <1>4 DEF FloorRequest
  <2>2. TypeOK'
    BY <1>1, <1>2, <2>1 DEF IInv, TypeOK
  <2>3. IdleInv' /\ HolderIsPeer' /\ GrantInv'
    BY <1>1, <2>1 DEF IInv, IdleInv, HolderIsPeer, Active, GrantInv
  <2> QED  BY <1>3, <2>2, <2>3 DEF IInv
<1>5. CASE e # Nil /\ from \in e.peers /\ FloorIsFree(e)
  <2>1. /\ routes' = [routes EXCEPT ![sid] = f]
        /\ granted' = [granted EXCEPT ![sid] = @ \cup {from}]
        /\ Forward(e.peers \ {from})
    BY <1>5 DEF FloorRequest
  <2>2. /\ f \in Entry /\ f.holder = from /\ f.peers = e.peers
        /\ ~f.expired /\ ~f.idle
    BY Zenon, <1>1, <1>5 DEF Entry
  <2>3. f # Nil /\ ~FloorIsFree(f)
    BY <1>1, <2>2, Entries, RelayAssumption DEF FloorIsFree, Endpoints
  <2>4. sid \notin overwritten' => granted'[sid] \subseteq {from}
    BY <1>1, <1>5, <2>1 DEF IInv, TypeOK, GrantInv
  <2>5. \A s \in Sids \ {sid} : granted'[s] = granted[s]
    BY <1>1, <2>1 DEF IInv, TypeOK
  <2>6. granted' \in [Sids -> SUBSET Udp]
    BY <1>1, <2>1 DEF IInv, TypeOK
  <2>7. ws' \in [Ws -> {"open", "closing", "failing", "gone"}]
    BY <2>1 DEF Forward, IInv, TypeOK
  <2> HIDE DEF f
  <2>8. /\ routes' \in [Sids -> Entry \cup {Nil}]
        /\ IdleInv' /\ HolderIsPeer' /\ GrantInv'
    <3>1. f.holder \in f.peers \cup {Nil}
      BY <1>5, <2>2
    <3>2. sid \notin overwritten' =>
            granted'[sid] \subseteq (IF f = Nil \/ FloorIsFree(f) THEN {} ELSE {f.holder})
      BY <2>2, <2>3, <2>4
    <3> HIDE DEF e, sid, from
    <3> QED  BY Zenon, <1>1, <2>1, <2>2, <2>3, <2>5, <3>1, <3>2, EntryStep
  <2>9. TypeOK'
    BY <1>1, <1>2, <2>6, <2>7, <2>8 DEF IInv, TypeOK
  <2> QED  BY Zenon, <1>3, <2>8, <2>9 DEF IInv
<1> QED  BY <1>4, <1>5

\* A release, by the holder or of a free floor.
LEMMA FloorReleaseIInv ==
  ASSUME IInv, NEW sid \in Sids, NEW from \in Udp, FloorRelease(sid, from)
  PROVE  IInv'
<1> DEFINE e == routes[sid]
           f == [e EXCEPT !.holder = Nil, !.expired = FALSE]
<1>1. /\ granted' = [granted EXCEPT ![sid] = @ \ {from}]
      /\ UNCHANGED <<pc, job, overwritten>>
      /\ e # Nil => e \in Entry
  BY DEF FloorRelease, IInv, TypeOK
<1>2. /\ granted' \in [Sids -> SUBSET Udp]
      /\ granted'[sid] = granted[sid] \ {from}
      /\ \A s \in Sids \ {sid} : granted'[s] = granted[s]
  BY <1>1 DEF IInv, TypeOK
<1>3. CASE ~(e # Nil /\ (e.holder = from \/ FloorIsFree(e)))
  <2>1. UNCHANGED <<routes, ws>>
    BY <1>3 DEF FloorRelease
  <2>2. TypeOK' /\ LoopInv'
    BY <1>1, <1>2, <2>1 DEF IInv, TypeOK, LoopInv
  <2>3. IdleInv' /\ HolderIsPeer'
    BY <2>1 DEF IInv, IdleInv, HolderIsPeer, Active
  <2>4. \A s \in Sids : granted'[s] \subseteq granted[s]
    BY <1>2
  <2>5. GrantInv'
    BY <1>1, <2>1, <2>4 DEF IInv, GrantInv
  <2> QED  BY <2>2, <2>3, <2>5 DEF IInv
<1>4. CASE e # Nil /\ (e.holder = from \/ FloorIsFree(e))
  <2>1. routes' = [routes EXCEPT ![sid] = f] /\ Forward(e.peers \ {from})
    BY <1>4 DEF FloorRelease
  <2>2. f \in Entry /\ f.holder = Nil /\ f.idle = e.idle
    BY Zenon, <1>1, <1>4 DEF Entry
  <2>3. FloorIsFree(f)
    BY <2>2 DEF FloorIsFree
  <2>4. sid \notin overwritten' => granted'[sid] = {}
    BY <1>1, <1>2, <1>4 DEF IInv, GrantInv
  <2>5. ws' \in [Ws -> {"open", "closing", "failing", "gone"}]
    BY <2>1 DEF Forward, IInv, TypeOK
  <2>6. LoopInv'
    BY <1>1, <1>4, <2>1, <2>2, Jobs DEF LoopInv, IInv, TypeOK, Tasks
  <2> HIDE DEF f
  <2>7. /\ routes' \in [Sids -> Entry \cup {Nil}]
        /\ IdleInv' /\ HolderIsPeer' /\ GrantInv'
    <3> HIDE DEF e
    <3> QED  BY Zenon, <1>1, <1>2, <2>1, <2>2, <2>3, <2>4, EntryStep
  <2>8. TypeOK'
    BY <1>1, <1>2, <2>5, <2>7 DEF IInv, TypeOK
  <2> QED  BY <2>6, <2>7, <2>8 DEF IInv
<1> QED  BY <1>3, <1>4

\* The end of a WebSocket connection touches no entry.
LEMMA WsIInv ==
  ASSUME IInv, NEW w \in Ws, WsClose(w) \/ WsWriterEnds(w)
  PROVE  IInv'
<1>1. /\ UNCHANGED <<routes, pc, job, granted, overwritten>>
      /\ ws' \in [Ws -> {"open", "closing", "failing", "gone"}]
  BY DEF WsClose, WsWriterEnds, IInv, TypeOK
<1> QED
  BY <1>1 DEF IInv, TypeOK, LoopInv, IdleInv, HolderIsPeer, Active, GrantInv

\* The holder's time is over: the floor becomes free, and the holder is out.
LEMMA HoldExpiresIInv ==
  ASSUME IInv, NEW sid \in Sids, HoldExpires(sid)
  PROVE  IInv'
<1> DEFINE e == routes[sid]
           f == [e EXCEPT !.expired = TRUE]
<1>1. /\ e \in Entry /\ e # Nil /\ e.holder # Nil /\ ~e.expired
      /\ routes' = [routes EXCEPT ![sid] = f]
      /\ granted' = [granted EXCEPT ![sid] = @ \ {e.holder}]
      /\ UNCHANGED <<pc, job, ws, overwritten>>
  BY DEF HoldExpires, Active, IInv, TypeOK
<1>2. /\ f \in Entry /\ f.holder = e.holder /\ f.peers = e.peers
      /\ f.idle = e.idle /\ FloorIsFree(f)
  BY Zenon, <1>1 DEF Entry, FloorIsFree
<1>3. e.holder \in e.peers \cup {Nil}
  BY <1>1 DEF IInv, HolderIsPeer, Active
<1>4. /\ granted' \in [Sids -> SUBSET Udp]
      /\ granted'[sid] = granted[sid] \ {e.holder}
      /\ \A s \in Sids \ {sid} : granted'[s] = granted[s]
  BY <1>1 DEF IInv, TypeOK
<1>5. sid \notin overwritten' => granted'[sid] = {}
  BY <1>1, <1>4 DEF IInv, GrantInv, FloorIsFree
<1>6. LoopInv'
  BY <1>1, <1>2, Jobs DEF LoopInv, IInv, TypeOK, Tasks
<1> HIDE DEF f
<1>7. /\ routes' \in [Sids -> Entry \cup {Nil}]
      /\ IdleInv' /\ HolderIsPeer' /\ GrantInv'
  <2>1. f.holder \in f.peers \cup {Nil}
    BY <1>2, <1>3
  <2> HIDE DEF e
  <2> QED  BY Zenon, <1>1, <1>2, <1>4, <1>5, <2>1, EntryStep
<1>8. TypeOK'
  BY <1>1, <1>4, <1>7 DEF IInv, TypeOK
<1> QED  BY <1>6, <1>7, <1>8 DEF IInv

\* A session becomes idle, between handlers and with a free floor.
LEMMA GoesIdleIInv ==
  ASSUME IInv, NEW sid \in Sids, GoesIdle(sid)
  PROVE  IInv'
<1> DEFINE e == routes[sid]
           f == [e EXCEPT !.idle = TRUE]
<1>1. /\ e \in Entry /\ e # Nil /\ FloorIsFree(e)
      /\ routes' = [routes EXCEPT ![sid] = f]
      /\ UNCHANGED <<pc, job, ws, granted, overwritten>>
      /\ pc[UdpLoop] = "recv"
  BY DEF GoesIdle, Active, Settled, Tasks, FloorIsFree, IInv, TypeOK
<1>2. /\ f \in Entry /\ f.holder = e.holder /\ f.peers = e.peers
      /\ f.expired = e.expired
  BY Zenon, <1>1 DEF Entry
<1>3. e.holder \in e.peers \cup {Nil}
  BY <1>1 DEF IInv, HolderIsPeer, Active
<1>4. sid \notin overwritten' => granted'[sid] = {}
  BY <1>1 DEF IInv, GrantInv
<1>5. FloorIsFree(f) /\ f.holder \in f.peers \cup {Nil}
  BY <1>1, <1>2, <1>3 DEF FloorIsFree
<1> HIDE DEF f
<1>6. /\ routes' \in [Sids -> Entry \cup {Nil}]
      /\ IdleInv' /\ HolderIsPeer' /\ GrantInv'
  <2> HIDE DEF e
  <2> QED  BY Zenon, <1>1, <1>2, <1>4, <1>5, EntryStep
<1>7. TypeOK' /\ LoopInv'
  BY <1>1, <1>6 DEF IInv, TypeOK, LoopInv
<1> QED  BY <1>6, <1>7 DEF IInv

\* The collector removes an entry only when its floor is free: an entry without
\* peers has no holder, and an idle one no unexpired holder.
LEMMA EvictIInv ==
  ASSUME IInv, NEW sid \in Sids, Evict(sid)
  PROVE  IInv'
<1> DEFINE e == routes[sid]
           left == {p \in e.peers : p \in Ws => ws[p] # "gone"}
           kept == [e EXCEPT !.peers = left]
           f == IF left = {} \/ e.idle THEN Nil ELSE kept
<1>1. /\ e \in Entry /\ e # Nil
      /\ routes' = [routes EXCEPT ![sid] = f]
      /\ UNCHANGED <<pc, job, ws, granted, overwritten>>
  BY DEF Evict, IInv, TypeOK
<1>2. /\ kept \in Entry /\ kept.holder = e.holder /\ kept.peers = left
      /\ kept.idle = e.idle /\ kept.expired = e.expired
  BY <1>1 DEF Entry
<1>3. e.holder \in left \cup {Nil}
  <2>1. e.holder \in e.peers \cup {Nil}
    BY <1>1 DEF IInv, HolderIsPeer, Active
  <2>2. e.holder \in Udp \cup {Nil}
    BY <1>1 DEF Entry
  <2> QED  BY <2>1, <2>2, RelayAssumption
<1>4. f = Nil => FloorIsFree(e)
  <2>1. e.idle => FloorIsFree(e)
    BY <1>1 DEF IInv, IdleInv
  <2>2. left = {} => FloorIsFree(e)
    BY <1>3 DEF FloorIsFree
  <2> QED  BY <1>2, <2>1, <2>2, Entries
<1>5. sid \notin overwritten' =>
        granted'[sid] \subseteq (IF f = Nil \/ FloorIsFree(f) THEN {} ELSE {f.holder})
  BY <1>1, <1>2, <1>4 DEF IInv, GrantInv, FloorIsFree
<1>6. /\ f \in Entry \cup {Nil}
      /\ f # Nil => f.holder \in f.peers \cup {Nil}
      /\ f # Nil => ~f.idle
  BY <1>1, <1>2, <1>3
<1>7. LoopInv'
  <2>1. \A s \in Sids : \/ routes'[s] = routes[s]
                       \/ routes'[s] = Nil
                       \/ ~routes'[s].idle
    BY <1>1, <1>6 DEF IInv, TypeOK
  <2> QED  BY <1>1, <2>1, LoopStep
<1> HIDE DEF f
<1>8. /\ routes' \in [Sids -> Entry \cup {Nil}]
      /\ IdleInv' /\ HolderIsPeer' /\ GrantInv'
  <2> HIDE DEF e
  <2> QED  BY Zenon, <1>1, <1>5, <1>6, EntryStep
<1>9. TypeOK'
  BY <1>1, <1>8 DEF IInv, TypeOK
<1> QED  BY <1>7, <1>8, <1>9 DEF IInv

\* Every step of the relay preserves the invariant.
LEMMA NextIInv == IInv /\ [Next]_vars => IInv'
<1> SUFFICES ASSUME IInv, [Next]_vars  PROVE IInv'
  OBVIOUS
<1>1. ASSUME NEW d \in [sid : Sids, from : Udp, type : {"FloorRequest", "Other"}],
             UdpReceive(d)
      PROVE  IInv'
  <2>1. d \in Job /\ d.from \in Udp /\ UdpLoop \in Tasks
    BY <1>1 DEF Job, Endpoints, Tasks
  <2> QED  BY <1>1, <2>1, RouteKnownIInv, RouteUnknownIInv DEF UdpReceive
<1>2. ASSUME NEW w \in Ws, NEW sid \in Sids, WsReceive(w, sid)
      PROVE  IInv'
  <2> DEFINE d == [sid |-> sid, from |-> w, type |-> "Other"]
  <2>1. d \in Job /\ w \in Tasks /\ w # UdpLoop
    BY RelayAssumption DEF Job, Endpoints, Tasks
  <2>2. RouteKnown(w, d) \/ RouteUnknown(w, d)
    BY <1>2 DEF WsReceive
  <2> HIDE DEF d
  <2> QED  BY <2>1, <2>2, RouteKnownIInv, RouteUnknownIInv
<1>3. CASE UNCHANGED vars
  BY <1>3 DEF vars, IInv, TypeOK, LoopInv, IdleInv, HolderIsPeer, Active, GrantInv
<1> QED
  BY <1>1, <1>2, <1>3, RouteLenIInv, RouteInsertIInv, FloorRequestIInv,
     FloorReleaseIInv, WsIInv, HoldExpiresIInv, GoesIdleIInv, EvictIInv DEF Next

LEMMA Invariance == Spec => []IInv
BY InitIInv, NextIInv, PTL DEF Spec

\* Every variable keeps its type, whatever the tasks interleave.
THEOREM RelayTypeCorrect == Spec => []TypeOK
<1>1. IInv => TypeOK
  BY DEF IInv
<1> QED  BY <1>1, Invariance, PTL

\* The holder of a floor is always a peer of its session: neither the collector nor
\* a racing insert leaves the floor with an endpoint that is not forwarded to.
THEOREM HolderStaysPeer == Spec => []HolderIsPeer
<1>1. IInv => HolderIsPeer
  BY DEF IInv
<1> QED  BY <1>1, Invariance, PTL

\* The floor of a session whose entry no insert has replaced is exclusive, for any
\* number of endpoints, sessions and tasks.
THEOREM FloorStaysExclusive == Spec => []FloorExclusive
<1>1. IInv => FloorExclusive
  BY DEF IInv, GrantInv, FloorExclusive
<1> QED  BY <1>1, Invariance, PTL

-----------------------------------------------------------------------------
(* The refinement of FloorArbiter *)

\* A step that changes the entry of one session to e is a step of the arbiter, or
\* leaves it alone, if it keeps, frees or grants the floor of that session.
LEMMA ArbiterStep ==
  ASSUME IInv, NEW sid \in Sids, NEW e,
         routes' = [routes EXCEPT ![sid] = e],
         \/ HolderOf(e) = HolderOf(routes[sid])
         \/ HolderOf(e) = Nil
         \/ HolderOf(routes[sid]) = Nil /\ HolderOf(e) \in Udp
  PROVE  [Arbiter!Next]_[s \in Sids |-> HolderOf(routes[s])]
<1> DEFINE h == [s \in Sids |-> HolderOf(routes[s])]
           g == [s \in Sids |-> HolderOf(routes'[s])]
<1>1. g = [h EXCEPT ![sid] = HolderOf(e)]
  BY Zenon DEF IInv, TypeOK
<1>2. h' = g
  BY DEF HolderOf, FloorIsFree
<1>3. h[sid] = HolderOf(routes[sid])
  OBVIOUS
<1>4. h \in [Sids -> {h[s] : s \in Sids}]
  OBVIOUS
<1> HIDE DEF g
<1>5. CASE HolderOf(e) = h[sid]
  <2>1. h' = h
    BY <1>1, <1>2, <1>4, <1>5
  <2> QED  BY <2>1
<1>6. CASE HolderOf(e) = Nil /\ h[sid] # Nil
  <2>1. h' = [h EXCEPT ![sid] = Nil]
    BY <1>1, <1>2, <1>6
  <2>2. Arbiter!Free(sid)
    BY <1>6, <2>1 DEF Arbiter!Free
  <2> QED  BY <2>2 DEF Arbiter!Next
<1>7. CASE h[sid] = Nil /\ HolderOf(e) \in Udp
  <2>1. h' = [h EXCEPT ![sid] = HolderOf(e)]
    BY <1>1, <1>2
  <2>2. Arbiter!Grant(sid, HolderOf(e))
    BY <1>7, <2>1 DEF Arbiter!Grant
  <2> QED  BY <1>7, <2>2 DEF Arbiter!Next
<1> QED  BY <1>3, <1>5, <1>6, <1>7

\* Every step of the relay is a step of the arbiter, or leaves it alone.
LEMMA NextArbiter ==
  ASSUME IInv, [Next]_vars
  PROVE  [Arbiter!Next]_[s \in Sids |-> HolderOf(routes[s])]
<1> DEFINE Simulated == [Arbiter!Next]_[s \in Sids |-> HolderOf(routes[s])]
<1>1. ASSUME UNCHANGED routes  PROVE Simulated
  BY <1>1 DEF HolderOf, FloorIsFree
<1>2. ASSUME NEW t \in Tasks, NEW d \in Job, RouteKnown(t, d)  PROVE Simulated
  <2> DEFINE e == routes[d.sid]
             joins == d.from \in e.peers \/ Cardinality(e.peers) < MaxPeers
             f == [e EXCEPT !.idle = FALSE, !.peers = IF joins THEN @ \cup {d.from} ELSE @]
  <2>1. d.sid \in Sids /\ e \in Entry /\ routes' = [routes EXCEPT ![d.sid] = f]
    BY <1>2 DEF RouteKnown, Job, IInv, TypeOK
  <2>2. f \in Entry /\ f.holder = e.holder /\ f.expired = e.expired
    BY Zenon, <2>1, <1>2 DEF Entry, Job
  <2> HIDE DEF joins, f
  <2>3. HolderOf(f) = HolderOf(e)
    BY <2>1, <2>2, Entries DEF HolderOf, FloorIsFree
  <2> HIDE DEF Simulated
  <2> QED  BY <2>1, <2>3, ArbiterStep DEF Simulated
<1>3. ASSUME NEW t \in Tasks, RouteInsert(t)  PROVE Simulated
  <2>1. /\ job[t].sid \in Sids
        /\ routes' = [routes EXCEPT ![job[t].sid] = NewEntry(job[t].from)]
    BY <1>3, Jobs DEF RouteInsert
  <2>2. HolderOf(NewEntry(job[t].from)) = Nil
    BY DEF HolderOf, FloorIsFree, NewEntry
  <2> QED  BY Zenon, <2>1, <2>2, ArbiterStep
<1>4. ASSUME FloorRequest  PROVE Simulated
  <2> DEFINE sid == job[UdpLoop].sid
             from == job[UdpLoop].from
             e == routes[sid]
             f == [e EXCEPT !.holder = from, !.expired = FALSE]
  <2>1. sid \in Sids /\ from \in Udp /\ (e # Nil => e \in Entry)
    BY <1>4, Jobs DEF FloorRequest, Tasks, IInv, TypeOK
  <2>2. CASE e # Nil /\ from \in e.peers /\ FloorIsFree(e)
    <3>1. routes' = [routes EXCEPT ![sid] = f]
      BY <1>4, <2>2 DEF FloorRequest
    <3>2. f \in Entry /\ f.holder = from /\ ~f.expired
      BY Zenon, <2>1, <2>2 DEF Entry
    <3> HIDE DEF f
    <3>3. HolderOf(f) = from
      BY <2>1, <3>2, Entries, RelayAssumption DEF HolderOf, FloorIsFree, Endpoints
    <3>4. HolderOf(e) = Nil
      BY <2>2 DEF HolderOf
    <3> QED  BY Zenon, <2>1, <3>1, <3>3, <3>4, ArbiterStep
  <2>3. CASE ~(e # Nil /\ from \in e.peers /\ FloorIsFree(e))
    <3>1. UNCHANGED routes
      BY <1>4, <2>3 DEF FloorRequest
    <3> QED  BY <1>1, <3>1
  <2> QED  BY <2>2, <2>3
<1>5. ASSUME NEW sid \in Sids, NEW from \in Udp, FloorRelease(sid, from)  PROVE Simulated
  <2> DEFINE e == routes[sid]
             f == [e EXCEPT !.holder = Nil, !.expired = FALSE]
  <2>1. UNCHANGED routes \/ (e # Nil /\ routes' = [routes EXCEPT ![sid] = f])
    BY <1>5 DEF FloorRelease
  <2>2. e # Nil => HolderOf(f) = Nil
    BY DEF HolderOf, FloorIsFree, IInv, TypeOK, Entry
  <2> HIDE DEF f
  <2> QED  BY <1>1, <2>1, <2>2, ArbiterStep
<1>6. ASSUME NEW sid \in Sids, HoldExpires(sid)  PROVE Simulated
  <2> DEFINE e == routes[sid]
             f == [e EXCEPT !.expired = TRUE]
  <2>1. e \in Entry /\ routes' = [routes EXCEPT ![sid] = f]
    BY <1>6 DEF HoldExpires, Active, IInv, TypeOK
  <2>2. HolderOf(f) = Nil
    BY <2>1 DEF HolderOf, FloorIsFree, Entry
  <2> HIDE DEF f
  <2> QED  BY Zenon, <2>1, <2>2, ArbiterStep
<1>7. ASSUME NEW sid \in Sids, GoesIdle(sid)  PROVE Simulated
  <2> DEFINE e == routes[sid]
             f == [e EXCEPT !.idle = TRUE]
  <2>1. e \in Entry /\ routes' = [routes EXCEPT ![sid] = f]
    BY <1>7 DEF GoesIdle, Active, IInv, TypeOK
  <2>2. f \in Entry /\ f.holder = e.holder /\ f.expired = e.expired
    BY Zenon, <2>1 DEF Entry
  <2> HIDE DEF f
  <2>3. HolderOf(f) = HolderOf(e)
    BY <2>1, <2>2, Entries DEF HolderOf, FloorIsFree
  <2> QED  BY <2>1, <2>3, ArbiterStep
<1>8. ASSUME NEW sid \in Sids, Evict(sid)  PROVE Simulated
  <2> DEFINE e == routes[sid]
             left == {p \in e.peers : p \in Ws => ws[p] # "gone"}
             kept == [e EXCEPT !.peers = left]
             f == IF left = {} \/ e.idle THEN Nil ELSE kept
  <2>1. e \in Entry /\ routes' = [routes EXCEPT ![sid] = f]
    BY <1>8 DEF Evict, IInv, TypeOK
  <2>2. kept \in Entry /\ kept.holder = e.holder /\ kept.expired = e.expired
    BY <2>1 DEF Entry
  <2> HIDE DEF left, kept
  <2>3. HolderOf(kept) = HolderOf(e) /\ HolderOf(Nil) = Nil
    BY <2>1, <2>2, Entries DEF HolderOf, FloorIsFree
  <2>4. HolderOf(f) = Nil \/ HolderOf(f) = HolderOf(e)
    BY <2>3
  <2> HIDE DEF f
  <2> QED  BY Zenon, <2>1, <2>4, ArbiterStep
<1> HIDE DEF Simulated
<1>9. ASSUME NEW d \in [sid : Sids, from : Udp, type : {"FloorRequest", "Other"}],
             UdpReceive(d)
      PROVE  Simulated
  <2>1. d \in Job /\ UdpLoop \in Tasks
    BY <1>9 DEF Job, Endpoints, Tasks
  <2> QED  BY <1>1, <1>2, <1>9, <2>1 DEF UdpReceive, RouteUnknown
<1>10. ASSUME NEW w \in Ws, NEW sid \in Sids, WsReceive(w, sid)  PROVE Simulated
  <2> DEFINE d == [sid |-> sid, from |-> w, type |-> "Other"]
  <2>1. d \in Job /\ w \in Tasks
    BY DEF Job, Endpoints, Tasks
  <2>2. RouteKnown(w, d) \/ UNCHANGED routes
    BY <1>10 DEF WsReceive, RouteUnknown
  <2> HIDE DEF d
  <2> QED  BY <1>1, <1>2, <2>1, <2>2
<1>11. ASSUME \/ \E t \in Tasks : RouteLen(t)
              \/ \E w \in Ws : WsClose(w) \/ WsWriterEnds(w)
              \/ UNCHANGED vars
       PROVE  Simulated
  BY <1>1, <1>11 DEF RouteLen, WsClose, WsWriterEnds, vars
<1>12. Simulated
  BY <1>3, <1>4, <1>5, <1>6, <1>7, <1>8, <1>9, <1>10, <1>11 DEF Next
<1> QED  BY <1>12 DEF Simulated

\* The relay's table implements FloorArbiter: for any endpoints, sessions and limits a
\* floor never passes from one endpoint to another without having been free between.
THEOREM ImplementsArbiter == Spec => ArbitratesFloor
<1>1. Init => Arbiter!Init
  BY DEF Init, Arbiter!Init, HolderOf
<1>2. IInv /\ [Next]_vars => [Arbiter!Next]_[s \in Sids |-> HolderOf(routes[s])]
  BY NextArbiter
<1> QED  BY <1>1, <1>2, Invariance, PTL DEF Spec, ArbitratesFloor, Arbiter!Spec

-----------------------------------------------------------------------------
(* The limit of sessions *)

\* The tasks past the length check.
Inserting == {t \in Tasks : pc[t] = "insert"}

\* Each of them may still add a session.
LenInv ==
  /\ IsFiniteSet(Active)
  /\ Cardinality(Active) + Cardinality(Inserting) < MaxSessions + Cardinality(Tasks)

LEMMA FiniteTasks ==
  /\ IsFiniteSet(Tasks) /\ Cardinality(Tasks) \in Nat \ {0}
  /\ IsFiniteSet(Inserting) /\ Cardinality(Inserting) \in Nat
<1>1. IsFiniteSet(Tasks)
  <2>1. Tasks = Ws \cup {UdpLoop}
    BY DEF Tasks
  <2> QED
    BY <2>1, WsAssumption, FS_AddElement
<1>2. Cardinality(Tasks) # 0
  BY <1>1, FS_EmptySet DEF Tasks
<1>3. Inserting \subseteq Tasks
  BY DEF Inserting
<1> QED
  BY <1>1, <1>2, <1>3, FS_Subset, FS_CardinalityType

\* Steps that add no session and let no task past the check.
LEMMA NothingGrows ==
  ASSUME LenInv, Active' \subseteq Active, Inserting' \subseteq Inserting
  PROVE  LenInv'
<1>1. /\ IsFiniteSet(Active') /\ Cardinality(Active') <= Cardinality(Active)
      /\ Cardinality(Inserting') <= Cardinality(Inserting)
      /\ IsFiniteSet(Inserting')
  BY FiniteTasks, FS_Subset DEF LenInv
<1>2. /\ Cardinality(Active) \in Nat /\ Cardinality(Active') \in Nat
      /\ Cardinality(Inserting) \in Nat /\ Cardinality(Inserting') \in Nat
      /\ Cardinality(Tasks) \in Nat /\ MaxSessions \in Nat
  BY <1>1, FiniteTasks, FS_CardinalityType, RelayAssumption DEF LenInv
<1>3. Tasks' = Tasks
  BY DEF Tasks
<1> QED
  BY <1>1, <1>2, <1>3 DEF LenInv

LEMMA SameSessions ==
  ASSUME TypeOK, \/ routes' = routes
                 \/ \E sid \in Sids : /\ routes[sid] # Nil
                                      /\ \E e : routes' = [routes EXCEPT ![sid] = e]
  PROVE  Active' \subseteq Active
  BY DEF TypeOK, Active

LEMMA NoneInserts ==
  ASSUME TypeOK, \/ pc' = pc
                 \/ \E t \in Tasks : \E at \in {"recv", "len", "floor"} : pc' = [pc EXCEPT ![t] = at]
  PROVE  Inserting' \subseteq Inserting
<1>1. \A u \in Tasks : pc'[u] = "insert" => pc[u] = "insert"
  BY DEF TypeOK
<1> QED
  BY <1>1 DEF Inserting, Tasks

LEMMA RouteLenKeeps ==
  ASSUME TypeOK, LenInv, NEW t \in Tasks, RouteLen(t)
  PROVE  LenInv'
<1>1. CASE Cardinality(Active) >= MaxSessions
  <2>1. routes' = routes /\ \E at \in {"recv", "len", "floor"} : pc' = [pc EXCEPT ![t] = at]
    BY <1>1 DEF RouteLen, RouteReturns
  <2> QED
    BY Zenon, <2>1, SameSessions, NoneInserts, NothingGrows
<1>2. CASE ~(Cardinality(Active) >= MaxSessions)
  <2>1. Active' = Active /\ Tasks' = Tasks
    BY <1>2 DEF RouteLen, Active, Tasks
  <2>2. Inserting' \in SUBSET Tasks
    BY <2>1 DEF Inserting
  <2>3. IsFiniteSet(Inserting') /\ Cardinality(Inserting') <= Cardinality(Tasks)
    BY <2>2, FiniteTasks, FS_Subset
  <2>4. /\ Cardinality(Active) \in Nat /\ Cardinality(Inserting') \in Nat
        /\ Cardinality(Tasks) \in Nat /\ MaxSessions \in Nat
    BY <2>3, FiniteTasks, FS_CardinalityType, RelayAssumption DEF LenInv
  <2> QED
    BY <1>2, <2>1, <2>3, <2>4 DEF LenInv
<1> QED
  BY <1>1, <1>2

LEMMA RouteInsertKeeps ==
  ASSUME TypeOK, LenInv, NEW t \in Tasks, RouteInsert(t)
  PROVE  LenInv'
<1> PICK sid : sid = job[t].sid
  OBVIOUS
<1>1. /\ pc[t] = "insert" /\ routes' = [routes EXCEPT ![sid] = NewEntry(job[t].from)]
      /\ \E at \in {"recv", "floor"} : pc' = [pc EXCEPT ![t] = at]
  BY DEF RouteInsert, RouteReturns
<1>2. Active' \in SUBSET (Active \cup {sid})
  BY <1>1 DEF TypeOK, Active
<1>3. Inserting' = Inserting \ {t} /\ t \in Inserting /\ Tasks' = Tasks
  <2>1. \A u \in Tasks : pc'[u] = "insert" <=> pc[u] = "insert" /\ u # t
    BY <1>1 DEF TypeOK
  <2> QED
    BY <1>1, <2>1 DEF Inserting, Tasks
<1>4. /\ IsFiniteSet(Active \cup {sid}) /\ Cardinality(Active) \in Nat
      /\ Cardinality(Active \cup {sid}) <= Cardinality(Active) + 1
      /\ Cardinality(Active \cup {sid}) \in Nat
  <2>1. IsFiniteSet(Active) /\ Cardinality(Active) \in Nat
    BY FS_CardinalityType DEF LenInv
  <2>2. /\ IsFiniteSet(Active \cup {sid})
        /\ Cardinality(Active \cup {sid}) \in {Cardinality(Active), Cardinality(Active) + 1}
    BY Zenon, <2>1, FS_AddElement
  <2> QED
    BY <2>1, <2>2
<1>5. /\ IsFiniteSet(Active') /\ Cardinality(Active') <= Cardinality(Active \cup {sid})
      /\ Cardinality(Active') \in Nat
  BY <1>2, <1>4, FS_Subset, FS_CardinalityType
<1>6. Cardinality(Inserting') = Cardinality(Inserting) - 1
  BY Zenon, <1>3, FiniteTasks, FS_RemoveElement
<1> QED
  BY <1>3, <1>4, <1>5, <1>6, FiniteTasks, RelayAssumption DEF LenInv

LEMMA NextLenInv == TypeOK /\ LenInv /\ [Next]_vars => LenInv'
<1> SUFFICES ASSUME TypeOK, LenInv, [Next]_vars PROVE LenInv'
  OBVIOUS
<1>1. ASSUME NEW t \in Tasks, NEW d, d.sid \in Sids, RouteKnown(t, d) \/ RouteUnknown(t, d)
      PROVE  LenInv'
  <2>1. \/ routes' = routes
        \/ routes[d.sid] # Nil /\ \E e : routes' = [routes EXCEPT ![d.sid] = e]
    BY <1>1 DEF RouteKnown, RouteUnknown
  <2>2. \E at \in {"recv", "len", "floor"} : pc' = [pc EXCEPT ![t] = at]
    BY <1>1 DEF RouteKnown, RouteUnknown, RouteReturns
  <2> QED
    BY ZenonT(30), <1>1, <2>1, <2>2, SameSessions, NoneInserts, NothingGrows
<1>2. ASSUME NEW sid \in Sids,
             \/ \E from \in Udp : FloorRelease(sid, from)
             \/ HoldExpires(sid) \/ GoesIdle(sid) \/ Evict(sid)
      PROVE  LenInv'
  <2>1. \/ routes' = routes
        \/ routes[sid] # Nil /\ \E e : routes' = [routes EXCEPT ![sid] = e]
    BY Zenon, <1>2 DEF FloorRelease, HoldExpires, GoesIdle, Evict, Active
  <2>2. pc' = pc
    BY Zenon, <1>2 DEF FloorRelease, HoldExpires, GoesIdle, Evict
  <2> QED
    BY <2>1, <2>2, SameSessions, NoneInserts, NothingGrows
<1>3. CASE FloorRequest
  <2>1. pc[UdpLoop] = "floor" /\ UdpLoop \in Tasks
    BY <1>3 DEF FloorRequest, Tasks
  <2>2. job[UdpLoop].sid \in Sids
    BY <2>1 DEF TypeOK, Job
  <2>3. \/ routes' = routes
        \/ /\ routes[job[UdpLoop].sid] # Nil
           /\ \E e : routes' = [routes EXCEPT ![job[UdpLoop].sid] = e]
    BY <1>3 DEF FloorRequest
  <2>4. pc' = [pc EXCEPT ![UdpLoop] = "recv"]
    BY <1>3 DEF FloorRequest
  <2> QED
    BY ZenonT(30), <2>1, <2>2, <2>3, <2>4, SameSessions, NoneInserts, NothingGrows
<1>4. ASSUME routes' = routes, pc' = pc PROVE LenInv'
  BY <1>4, SameSessions, NoneInserts, NothingGrows
<1>5. ASSUME NEW w \in Ws, WsClose(w) \/ WsWriterEnds(w) PROVE LenInv'
  BY <1>4, <1>5 DEF WsClose, WsWriterEnds
<1>6. ASSUME NEW w \in Ws, NEW sid \in Sids, WsReceive(w, sid) PROVE LenInv'
  <2>1. w \in Tasks
    BY DEF Tasks
  <2> QED
    BY <1>1, <1>6, <2>1 DEF WsReceive
<1>7. ASSUME NEW d \in [sid : Sids, from : Udp, type : {"FloorRequest", "Other"}], UdpReceive(d)
      PROVE  LenInv'
  <2>1. d.sid \in Sids /\ UdpLoop \in Tasks
    BY DEF Tasks
  <2> QED
    BY <1>1, <1>7, <2>1 DEF UdpReceive
<1>8. CASE UNCHANGED vars
  BY <1>4, <1>8 DEF vars
<1> QED
  BY <1>2, <1>3, <1>5, <1>6, <1>7, <1>8, RouteLenKeeps, RouteInsertKeeps DEF Next

LEMMA InitLenInv == Init => LenInv
<1> SUFFICES ASSUME Init PROVE LenInv
  OBVIOUS
<1>1. Active = {} /\ Inserting = {}
  BY DEF Init, Active, Inserting
<1> QED
  BY <1>1, FS_EmptySet, FiniteTasks, RelayAssumption DEF LenInv

\* max_sessions is exceeded by less than the number of tasks that call route(): each
\* session above it was added by a task that had passed the length check before.
THEOREM OvershootStaysBounded == Spec => []OvershootBounded
<1>1. LenInv => OvershootBounded
  <2> SUFFICES ASSUME LenInv PROVE OvershootBounded
    OBVIOUS
  <2>1. Cardinality(Active) \in Nat
    BY FS_CardinalityType DEF LenInv
  <2> QED
    BY <2>1, FiniteTasks, RelayAssumption DEF LenInv, OvershootBounded
<1> QED
  BY <1>1, RelayTypeCorrect, InitLenInv, NextLenInv, PTL DEF Spec
====
