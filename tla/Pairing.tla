------------------------------ MODULE Pairing ------------------------------
(***************************************************************************)
(* PairingViewModel and PairingActivity of the Android application: the    *)
(* coroutines that host or join a call, hangUp and onCleared, which share  *)
(* the field nativeHandle.  Coroutines run on the threads of               *)
(* Dispatchers.IO and never suspend, so cancelling one only matters before *)
(* it starts; the main thread runs one handler at a time.  A handler's     *)
(* accesses to the field and its native calls are steps of their own.      *)
(***************************************************************************)
EXTENDS NativeHandle

CONSTANTS
  Coroutines,     \* of the view model's scope
  MaxCandidates,  \* addresses in a QR code: lan, pub, relay
  MaxEvents       \* what the user and the network do

VARIABLES
  pairing,        \* the fields of PairingViewModel, and what PairingActivity is at
  jobs,           \* its coroutines
  ends,           \* history: how often PairingViewModel destroyed each handle
  raced,          \* history: handles taken while a coroutine had them checked
  mainThread,     \* the handler under way on the main thread
  intent,         \* the handle on its way to MainActivity, 0 if none
  events,         \* bounds the events
  taken           \* history: handles that the user or a callback set out to end

pairingVars == <<pairing, jobs, ends, raced>>
mainVars == <<mainThread, intent, events, taken>>

Ended == [at |-> "ended"]
Idle == [at |-> "idle"]
Home == [at |-> "Home"]

PairingInit ==
  /\ pairing = [alive |-> TRUE, nativeHandle |-> 0, screen |-> Home,
                finishing |-> FALSE, launched |-> 0]
  /\ jobs = [t \in Coroutines |-> Ended]
  /\ ends = [h \in Handles |-> 0] /\ raced = {}
  /\ mainThread = Idle /\ intent = 0 /\ events = 0 /\ taken = {}

\* A handler of the main thread may begin.
Event ==
  /\ mainThread = Idle /\ pairing.alive /\ ~pairing.finishing
  /\ events < MaxEvents /\ events' = events + 1

\* cancel() of coroutines that have not started.
Cancelled(kinds) ==
  [t \in Coroutines |-> IF jobs[t].at = "start" /\ jobs[t].kind \in kinds THEN Ended ELSE jobs[t]]

Launch(t, from, job) == jobs[t] = Ended /\ jobs' = [from EXCEPT ![t] = job]

-----------------------------------------------------------------------------
(* The user: the buttons and links of PairingActivity *)

startHosting(t) ==
  /\ Event /\ pairing.screen = Home
  /\ Launch(t, Cancelled({"host"}), [at |-> "start", kind |-> "host", left |-> 1])
  /\ UNCHANGED <<nativeVars, pairing, ends, raced, mainThread, intent, taken>>

\* A QR code or link with any number of addresses; an invalid one has none.
joinFromQr(t) ==
  /\ Event
  /\ \E n \in 0..MaxCandidates :
       Launch(t, jobs, [at |-> "start", kind |-> "join", left |-> n])
  /\ UNCHANGED <<nativeVars, pairing, ends, raced, mainThread, intent, taken>>

joinFromRelay(t) ==
  /\ Event
  /\ Launch(t, jobs, [at |-> "start", kind |-> "join", left |-> 1])
  /\ UNCHANGED <<nativeVars, pairing, ends, raced, mainThread, intent, taken>>

\* hangUp and onCleared read the field; a task that has checked it may be about to
\* destroy the same handle.
Takes(handler) ==
  /\ mainThread' = [at |-> handler, h |-> pairing.nativeHandle]
  /\ taken' = taken \cup {pairing.nativeHandle}
  /\ raced' = raced \cup {h \in {pairing.nativeHandle} :
                            \E t \in Coroutines : jobs[t].at = "reset" /\ jobs[t].h = h}

hangUp ==
  /\ Event
  /\ Takes("hangUp")
  /\ UNCHANGED <<nativeVars, pairing, jobs, ends, intent>>

\* Mutant: hangUp leaves the field as it is.
HangUpKeepsHandle(t) ==
  /\ mainThread.at = "hangUp"
  /\ pairing' = [pairing EXCEPT !.screen = Home]
  /\ IF mainThread.h = 0 THEN jobs' = Cancelled({"host"})
     ELSE Launch(t, Cancelled({"host"}), [at |-> "start", kind |-> "hangUp", h |-> mainThread.h])
  /\ mainThread' = Idle
  /\ UNCHANGED <<nativeVars, ends, raced, intent, events, taken>>

\* Then the field is reset, the host coroutine cancelled, and the handle closed and
\* destroyed by another coroutine.
HangUpResets(t) ==
  /\ mainThread.at = "hangUp"
  /\ pairing' = [pairing EXCEPT !.nativeHandle = 0, !.screen = Home]
  /\ IF mainThread.h = 0 THEN jobs' = Cancelled({"host"})
     ELSE Launch(t, Cancelled({"host"}), [at |-> "start", kind |-> "hangUp", h |-> mainThread.h])
  /\ mainThread' = Idle
  /\ UNCHANGED <<nativeVars, ends, raced, intent, events, taken>>

-----------------------------------------------------------------------------
(* The coroutines *)

Goes(t, fields) == jobs' = [jobs EXCEPT ![t] = fields]
Shows(screen) == pairing' = [pairing EXCEPT !.screen = screen]

JobStarts(t) ==
  LET job == jobs[t]
  IN /\ job.at = "start"
     /\ CASE job.kind = "host" -> Shows([at |-> "Hosting"]) /\ Goes(t, [job EXCEPT !.at = "create"])
          [] job.kind = "join" -> /\ Shows([at |-> "Joining"])
                                  /\ Goes(t, IF job.left = 0 THEN Ended ELSE [job EXCEPT !.at = "create"])
          [] job.kind = "hangUp" -> Goes(t, [job EXCEPT !.at = "close"]) /\ UNCHANGED pairing
     /\ UNCHANGED <<nativeVars, ends, raced, mainVars>>

\* attemptConnect goes on to the next address, or says that none was left.
NextCandidate(t) ==
  LET job == jobs[t]
  IN IF job.left > 1
     THEN /\ Goes(t, [at |-> "create", kind |-> "join", left |-> job.left - 1])
          /\ UNCHANGED pairing
     ELSE Goes(t, Ended) /\ Shows([at |-> "Joining"])

JobCreates(t) ==
  LET job == jobs[t]
  IN /\ job.at = "create"
     /\ \E h \in NewHandles :
          /\ nativeCreate(h)
          /\ CASE h = 0 /\ job.kind = "host" -> Goes(t, Ended) /\ UNCHANGED pairing
               [] h = 0 /\ job.kind = "join" -> NextCandidate(t)
               [] h # 0 ->
                  /\ pairing' = [pairing EXCEPT !.nativeHandle = h]
                  /\ Goes(t, [at |-> IF job.kind = "host" THEN "port" ELSE "call",
                              kind |-> job.kind, left |-> job.left, h |-> h])
     /\ UNCHANGED <<ends, raced, mainVars>>

\* Without a port the coroutine ends and leaves the handle to hangUp.
JobGetsPort(t) ==
  /\ jobs[t].at = "port"
  /\ nativeGetLocalPort(jobs[t].h)
  /\ \E ok \in BOOLEAN : Goes(t, IF ok THEN [jobs[t] EXCEPT !.at = "call"] ELSE Ended)
  /\ UNCHANGED <<pairing, ends, raced, mainVars>>

\* nativeAcceptAny, or nativeConnect.
JobCalls(t) ==
  /\ jobs[t].at = "call"
  /\ Enters(jobs[t].h)
  /\ Goes(t, [jobs[t] EXCEPT !.at = "calling"])
  /\ UNCHANGED <<pairing, ends, raced, mainVars>>

JobReturns(t) ==
  LET job == jobs[t]
  IN /\ job.at = "calling"
     /\ Leaves(job.h)
     /\ \E status \in IF job.kind = "host" THEN nativeAcceptAny(job.h) ELSE nativeConnect(job.h) :
          Goes(t, [at |-> "check", kind |-> job.kind, left |-> job.left, h |-> job.h,
                   status |-> status])
     /\ UNCHANGED <<pairing, ends, raced, mainVars>>

\* if (nativeHandle != handle) return, and then by the status.
JobChecks(t) ==
  LET job == jobs[t]
  IN /\ job.at = "check"
     /\ Goes(t, IF pairing.nativeHandle # job.h THEN Ended
                ELSE [job EXCEPT !.at = IF job.status = "GS_OK" THEN "connected" ELSE "reset"])
     /\ raced' = raced \cup {h \in {job.h} : /\ pairing.nativeHandle = h
                                            /\ mainThread # Idle /\ mainThread.h = h}
     /\ UNCHANGED <<nativeVars, pairing, ends, mainVars>>

JobConnected(t) ==
  /\ jobs[t].at = "connected"
  /\ Shows([at |-> "Connected", handle |-> jobs[t].h])
  /\ Goes(t, Ended)
  /\ UNCHANGED <<nativeVars, ends, raced, mainVars>>

JobResets(t) ==
  /\ jobs[t].at = "reset"
  /\ pairing' = [pairing EXCEPT !.nativeHandle = 0]
  /\ Goes(t, [jobs[t] EXCEPT !.at = "destroy"])
  /\ UNCHANGED <<nativeVars, ends, raced, mainVars>>

JobCloses(t) ==
  /\ jobs[t].at = "close"
  /\ nativeClose(jobs[t].h)
  /\ Goes(t, [jobs[t] EXCEPT !.at = "destroy"])
  /\ UNCHANGED <<pairing, ends, raced, mainVars>>

\* Mutant: what the field holds by now is destroyed.
JobDestroysField(t) ==
  LET job == jobs[t]
  IN /\ job.at = "destroy"
     /\ nativeDestroy(pairing.nativeHandle)
     /\ ends' = [ends EXCEPT ![job.h] = @ + 1]
     /\ CASE job.kind = "join" -> NextCandidate(t)
          [] job.kind = "host" /\ job.status # "GS_ERR_CLOSED" -> Goes(t, Ended) /\ Shows(Home)
          [] OTHER -> Goes(t, Ended) /\ UNCHANGED pairing
     /\ UNCHANGED <<raced, mainVars>>

\* Then the host goes home unless it was closed, and a join tries its next address.
JobDestroys(t) ==
  LET job == jobs[t]
  IN /\ job.at = "destroy"
     /\ nativeDestroy(job.h)
     /\ ends' = [ends EXCEPT ![job.h] = @ + 1]
     /\ CASE job.kind = "join" -> NextCandidate(t)
          [] job.kind = "host" /\ job.status # "GS_ERR_CLOSED" -> Goes(t, Ended) /\ Shows(Home)
          [] OTHER -> Goes(t, Ended) /\ UNCHANGED pairing
     /\ UNCHANGED <<raced, mainVars>>

-----------------------------------------------------------------------------
(* The hand-over to MainActivity, and the end of PairingActivity *)

\* The screen's observer starts MainActivity with the handle, and finishes.
launchPttScreen ==
  /\ mainThread = Idle /\ pairing.alive /\ intent = 0
  /\ pairing.screen.at = "Connected" /\ pairing.screen.handle # pairing.launched
  /\ intent' = pairing.screen.handle
  /\ pairing' = [pairing EXCEPT !.finishing = TRUE, !.launched = pairing.screen.handle]
  /\ UNCHANGED <<nativeVars, jobs, ends, raced, mainThread, events, taken>>

onBackPressed ==
  /\ Event /\ pairing.screen = Home
  /\ pairing' = [pairing EXCEPT !.finishing = TRUE]
  /\ UNCHANGED <<nativeVars, jobs, ends, raced, mainThread, intent, taken>>

\* The finished activity is destroyed, after the new one has been created: the scope is
\* cancelled, and onCleared reads the field, resets it, closes and destroys.
onCleared ==
  /\ mainThread = Idle /\ pairing.alive /\ pairing.finishing /\ intent = 0
  /\ Takes("cleared")
  /\ jobs' = Cancelled({"host", "join", "hangUp"})
  /\ UNCHANGED <<nativeVars, pairing, ends, intent, events>>

ClearedResets ==
  /\ mainThread.at = "cleared"
  /\ pairing' = [pairing EXCEPT !.nativeHandle = 0, !.alive = FALSE]
  /\ mainThread' = IF mainThread.h = 0 THEN Idle ELSE [mainThread EXCEPT !.at = "close"]
  /\ UNCHANGED <<nativeVars, jobs, ends, raced, intent, events, taken>>

ClearedCloses ==
  /\ mainThread.at = "close"
  /\ nativeClose(mainThread.h)
  /\ mainThread' = [mainThread EXCEPT !.at = "destroy"]
  /\ UNCHANGED <<pairing, jobs, ends, raced, intent, events, taken>>

ClearedDestroys ==
  /\ mainThread.at = "destroy"
  /\ nativeDestroy(mainThread.h)
  /\ ends' = [ends EXCEPT ![mainThread.h] = @ + 1]
  /\ mainThread' = Idle
  /\ UNCHANGED <<pairing, jobs, raced, intent, events, taken>>

PairingNext ==
  \/ \E t \in Coroutines :
       \/ startHosting(t) \/ joinFromQr(t) \/ joinFromRelay(t) \/ HangUpResets(t)
       \/ JobStarts(t) \/ JobCreates(t) \/ JobGetsPort(t) \/ JobCalls(t) \/ JobReturns(t)
       \/ JobChecks(t) \/ JobConnected(t) \/ JobResets(t) \/ JobCloses(t) \/ JobDestroys(t)
  \/ hangUp \/ launchPttScreen \/ onBackPressed
  \/ onCleared \/ ClearedResets \/ ClearedCloses \/ ClearedDestroys

PairingSpec == NativeInit /\ PairingInit /\ [][PairingNext]_<<nativeVars, pairingVars, mainVars>>

-----------------------------------------------------------------------------
\* PairingViewModel destroys a handle at most once, however hosting, joining, hanging up
\* and the end of the activity overlap.  The exception is a handle that hangUp or
\* onCleared and a coroutine both found in the field before either had reset it.
DestroyedOnce == \A h \in Handles \ raced : ends[h] <= 1
=============================================================================
