--------------------------- MODULE Pairing_proofs ---------------------------
(***************************************************************************)
(* PairingViewModel destroys a handle at most once, for any number of      *)
(* coroutines, handles, addresses and events.                              *)
(***************************************************************************)
EXTENDS Pairing, TLAPS

-----------------------------------------------------------------------------
(* What the coroutines and the main thread may be at *)

Kinds == {"host", "join"}
Statuses == {"GS_OK", "GS_ERR_INVALID_ARGUMENT", "GS_ERR_HANDSHAKE", "GS_ERR_CLOSED"}

\* A coroutine without a handle, before and after its call, and one of hangUp.
Unhanded == [at : {"ended"}] \cup [at : {"start", "create"}, kind : Kinds, left : Int]
Calling == [at : {"port", "call", "calling"}, kind : Kinds, left : Int, h : Handles]
Called == [at : {"check", "connected", "reset", "destroy"}, kind : Kinds, left : Int,
           h : Handles, status : Statuses]
Hanging == [at : {"start", "close", "destroy"}, kind : {"hangUp"}, h : Handles]
Job == Unhanded \cup Calling \cup Called \cup Hanging

MainOK == mainThread \in [at : {"idle"}] \cup [at : {"hangUp", "cleared"}, h : Handles \cup {0}]
                           \cup [at : {"close", "destroy"}, h : Handles]
Screens == [at : {"Home", "Hosting", "Joining"}] \cup [at : {"Connected"}, handle : Handles]
PairingOK == pairing \in [alive : BOOLEAN, nativeHandle : Handles \cup {0}, screen : Screens,
                          finishing : BOOLEAN, launched : Handles \cup {0}]
TypesOK == /\ jobs \in [Coroutines -> Job] /\ MainOK /\ PairingOK
           /\ native \in [Handles -> {"none", "open", "closed", "freed"}]
           /\ ends \in [Handles -> Nat]

-----------------------------------------------------------------------------
(* Who has a handle *)

\* The coroutine that created h works on it, and has found it in the field.
WorksOn(job, h) == job \in Calling \cup Called /\ job.h = h
HasChecked(job, h) == job \in Called /\ job.at = "reset" /\ job.h = h
\* A coroutine that will destroy h, its own or one that hangUp gave it.
Destroys(job, h) == \/ job \in Called /\ job.at = "destroy" /\ job.h = h
                    \/ job \in Hanging /\ job.h = h
Claims(job, h) == HasChecked(job, h) \/ Destroys(job, h)
\* The main thread has read h from the field, and then reset the field.
MainHas(h) == mainThread.at # "idle" /\ mainThread.h = h
MainDestroys(h) == mainThread.at \in {"close", "destroy"} /\ mainThread.h = h

\* A handle in use, in the field or ended was created.
Created(h) ==
  native[h] = "none" =>
    /\ ends[h] = 0 /\ pairing.nativeHandle # h /\ ~MainHas(h)
    /\ \A t \in Coroutines : ~WorksOn(jobs[t], h) /\ ~Destroys(jobs[t], h)

\* One coroutine works on a handle.
OneWorker(h) == \A t, u \in Coroutines : WorksOn(jobs[t], h) /\ WorksOn(jobs[u], h) => t = u

\* Of the coroutines, the main thread and the past, one at most ends a handle; a handle
\* in the field is not about to be ended by anyone who has reset it.
OneEnd(h) ==
  /\ \A t, u \in Coroutines : Claims(jobs[t], h) /\ Claims(jobs[u], h) => t = u
  /\ \A t \in Coroutines : Claims(jobs[t], h) => ~MainHas(h) /\ ends[h] = 0
  /\ MainHas(h) => ends[h] = 0
  /\ ends[h] <= 1
  /\ pairing.nativeHandle = h =>
       ends[h] = 0 /\ ~MainDestroys(h) /\ \A t \in Coroutines : ~Destroys(jobs[t], h)

HandleInv(h) == Created(h) /\ OneWorker(h) /\ (h \notin raced => OneEnd(h))

PairingInv == TypesOK /\ \A h \in Handles : HandleInv(h)

-----------------------------------------------------------------------------
(* Steps that give nobody the handle h *)

\* Everyone has at most what they had; whoever reset the field may now destroy.
Keeps(h) ==
  /\ native'[h] = "none" => native[h] = "none"
  /\ pairing'.nativeHandle = h => pairing.nativeHandle = h
  /\ MainHas(h)' => MainHas(h)
  /\ MainDestroys(h)' => MainDestroys(h) \/ pairing'.nativeHandle # h
  /\ \A t \in Coroutines :
       /\ WorksOn(jobs'[t], h) => WorksOn(jobs[t], h)
       /\ HasChecked(jobs'[t], h) => HasChecked(jobs[t], h)
       /\ Destroys(jobs'[t], h) =>
            Destroys(jobs[t], h) \/ (HasChecked(jobs[t], h) /\ pairing'.nativeHandle # h)
  /\ ends'[h] = ends[h]
  /\ h \in raced => h \in raced'

LEMMA CheckedWorks ==
  ASSUME NEW job, NEW h, HasChecked(job, h)
  PROVE  WorksOn(job, h)
  BY DEF HasChecked, WorksOn

LEMMA KeepInv ==
  ASSUME NEW h, HandleInv(h), Keeps(h)
  PROVE  HandleInv(h)'
<1>1. Created(h)'
  <2> SUFFICES ASSUME native'[h] = "none"
               PROVE  /\ ends'[h] = 0 /\ pairing'.nativeHandle # h /\ ~MainHas(h)'
                      /\ \A t \in Coroutines : ~WorksOn(jobs'[t], h) /\ ~Destroys(jobs'[t], h)
    BY DEF Created, WorksOn, Destroys, MainHas
  <2>1. /\ ends[h] = 0 /\ pairing.nativeHandle # h /\ ~MainHas(h)
        /\ \A t \in Coroutines : ~WorksOn(jobs[t], h) /\ ~Destroys(jobs[t], h)
    BY DEF HandleInv, Created, Keeps
  <2> QED
    BY <2>1, CheckedWorks DEF Keeps
<1>2. OneWorker(h)'
  <2> SUFFICES ASSUME NEW t \in Coroutines, NEW u \in Coroutines,
                      WorksOn(jobs'[t], h), WorksOn(jobs'[u], h)
               PROVE  t = u
    BY DEF OneWorker, WorksOn
  <2> QED
    BY DEF HandleInv, OneWorker, Keeps
<1>3. ASSUME h \notin raced' PROVE OneEnd(h)'
  <2>1. OneEnd(h)
    BY <1>3 DEF HandleInv, Keeps
  <2>2. \A t \in Coroutines : Claims(jobs'[t], h) => Claims(jobs[t], h)
    BY DEF Keeps, Claims
  <2>3. pairing'.nativeHandle = h => \A t \in Coroutines : Destroys(jobs'[t], h) => Destroys(jobs[t], h)
    BY DEF Keeps
  <2>4. /\ \A t, u \in Coroutines : Claims(jobs'[t], h) /\ Claims(jobs'[u], h) => t = u
        /\ \A t \in Coroutines : Claims(jobs'[t], h) => ~MainHas(h)' /\ ends'[h] = 0
        /\ MainHas(h)' => ends'[h] = 0
        /\ ends'[h] <= 1
        /\ pairing'.nativeHandle = h =>
             ends'[h] = 0 /\ ~MainDestroys(h)' /\ \A t \in Coroutines : ~Destroys(jobs'[t], h)
    BY <2>1, <2>2, <2>3 DEF Keeps, OneEnd
  <2> QED
    BY <2>4 DEF OneEnd, Claims, HasChecked, Destroys, MainHas, MainDestroys
<1> QED
  BY <1>1, <1>2, <1>3 DEF HandleInv

LEMMA NativeOK == PairingInv => native \in [Handles -> {"none", "open", "closed", "freed"}]
  BY DEF PairingInv, TypesOK

LEMMA ClosesNative ==
  ASSUME native \in [Handles -> {"none", "open", "closed", "freed"}],
         NEW g \in Handles, nativeClose(g)
  PROVE  /\ native' \in [Handles -> {"none", "open", "closed", "freed"}]
         /\ \A h \in Handles : native'[h] = "none" => native[h] = "none"
<1>1. native' = [native EXCEPT ![g] = IF native[g] = "freed" THEN "freed" ELSE "closed"]
  BY HandlesAssumption DEF nativeClose, gs_session_close
<1> QED
  BY <1>1

LEMMA DestroysNative ==
  ASSUME native \in [Handles -> {"none", "open", "closed", "freed"}],
         NEW g \in Handles, nativeDestroy(g)
  PROVE  /\ native' \in [Handles -> {"none", "open", "closed", "freed"}]
         /\ native'[g] # "none"
         /\ \A h \in Handles : native'[h] = "none" => native[h] = "none"
<1>1. native' = [native EXCEPT ![g] = "freed"]
  BY HandlesAssumption DEF nativeDestroy, gs_session_destroy
<1> QED
  BY <1>1

LEMMA Shapes ==
  ASSUME NEW job \in Job
  PROVE  /\ job.at \in {"port", "call", "calling"} => job \in Calling
         /\ job.at \in {"check", "connected", "reset"} => job \in Called
         /\ job.at = "close" => job \in Hanging
         /\ job.at \in {"ended", "create"} => job \in Unhanded
         /\ job.at = "destroy" => job \in Called \cup Hanging
         /\ job.at = "start" => job \in Unhanded \cup Hanging
  BY DEF Job, Unhanded, Calling, Called, Hanging

LEMMA Unhands ==
  ASSUME NEW job \in Unhanded, NEW h
  PROVE  ~WorksOn(job, h) /\ ~HasChecked(job, h) /\ ~Destroys(job, h)
  BY DEF Unhanded, Calling, Called, Hanging, WorksOn, HasChecked, Destroys, Kinds

\* A step of one coroutine, to a job that has what it had or nothing.
LEMMA JobKeeps ==
  ASSUME PairingInv, NEW t \in Coroutines, NEW job \in Job,
         jobs' = [jobs EXCEPT ![t] = job],
         PairingOK', pairing'.nativeHandle \in {pairing.nativeHandle, 0},
         native' \in [Handles -> {"none", "open", "closed", "freed"}],
         \A h \in Handles : native'[h] = "none" => native[h] = "none",
         UNCHANGED <<ends, mainThread>>, raced \subseteq raced',
         \A h \in Handles :
           /\ WorksOn(job, h) => WorksOn(jobs[t], h)
           /\ HasChecked(job, h) => HasChecked(jobs[t], h)
           /\ Destroys(job, h) =>
                Destroys(jobs[t], h) \/ (HasChecked(jobs[t], h) /\ pairing'.nativeHandle # h)
  PROVE  PairingInv'
<1>1. TypesOK'
  BY DEF PairingInv, TypesOK, MainOK
<1>2. \A u \in Coroutines : jobs'[u] = IF u = t THEN job ELSE jobs[u]
  BY DEF PairingInv, TypesOK
<1>3. ASSUME NEW h \in Handles PROVE HandleInv(h)'
  <2>1. Keeps(h)
    BY <1>2, HandlesAssumption DEF Keeps, MainHas, MainDestroys
  <2> QED
    BY <2>1, KeepInv DEF PairingInv
<1> QED
  BY <1>1, <1>3 DEF PairingInv

LEMMA ShowsInv ==
  ASSUME PairingInv, NEW screen \in Screens, Shows(screen)
  PROVE  PairingOK' /\ pairing'.nativeHandle = pairing.nativeHandle
  BY DEF PairingInv, TypesOK, PairingOK, Shows

LEMMA StartsInv == ASSUME PairingInv, NEW t \in Coroutines, JobStarts(t) PROVE PairingInv'
<1> DEFINE job == jobs[t]
<1>1. job \in Job /\ job \in Unhanded \cup Hanging
  BY Shapes DEF PairingInv, TypesOK, JobStarts
<1>2. CASE job \in Unhanded
  <2>1. job \in [at : {"start"}, kind : Kinds, left : Int]
    BY <1>2 DEF JobStarts, Unhanded
  <2>2. PICK new \in Unhanded : jobs' = [jobs EXCEPT ![t] = new]
    BY Zenon, <2>1 DEF JobStarts, Goes, Ended, Unhanded, Kinds
  <2>3. PairingOK' /\ pairing'.nativeHandle = pairing.nativeHandle
    <3>1. Shows([at |-> "Hosting"]) \/ Shows([at |-> "Joining"])
      BY Zenon, <2>1 DEF JobStarts, Kinds
    <3> QED
      BY <3>1, ShowsInv DEF Screens
  <2>4. new \in Job /\ UNCHANGED <<native, ends, mainThread, raced>>
    BY DEF Job, JobStarts, nativeVars, mainVars
  <2> QED
    BY Zenon, <2>2, <2>3, <2>4, JobKeeps, Unhands, NativeOK
<1>3. CASE job \in Hanging
  <2> DEFINE new == [job EXCEPT !.at = "close"]
  <2>1. new \in Hanging /\ new.h = job.h
    BY <1>3 DEF Hanging
  <2>2. jobs' = [jobs EXCEPT ![t] = new] /\ UNCHANGED <<pairing, native, ends, mainThread, raced>>
    BY Zenon, <1>3 DEF JobStarts, Goes, Hanging, nativeVars, mainVars
  <2>3. new \notin Called \cup Calling
    BY <2>1 DEF Hanging, Called, Calling, Kinds
  <2>4. \A h \in Handles : /\ ~WorksOn(new, h) /\ ~HasChecked(new, h)
                           /\ Destroys(new, h) => Destroys(jobs[t], h)
    BY <1>3, <2>1, <2>3 DEF WorksOn, HasChecked, Destroys
  <2>5. new \in Job /\ PairingOK'
    BY <2>1, <2>2 DEF Job, PairingInv, TypesOK, PairingOK
  <2> HIDE DEF new
  <2> QED
    BY Zenon, <2>2, <2>4, <2>5, JobKeeps, NativeOK
<1> QED
  BY <1>1, <1>2, <1>3

\* A coroutine that works on a handle goes on with it, and has not checked it or has.
LEMMA GoesOnInv ==
  ASSUME PairingInv, NEW t \in Coroutines, jobs[t] \in Calling \cup Called,
         NEW job \in Unhanded \cup Calling \cup Called,
         job \notin Unhanded => job.h = jobs[t].h /\ job.at \notin {"reset", "destroy"},
         jobs' = [jobs EXCEPT ![t] = job],
         PairingOK', pairing'.nativeHandle = pairing.nativeHandle,
         UNCHANGED <<native, ends, mainThread>>, raced \subseteq raced'
  PROVE  PairingInv'
<1>1. ASSUME NEW h \in Handles
      PROVE  /\ WorksOn(job, h) => WorksOn(jobs[t], h)
             /\ ~HasChecked(job, h) /\ ~Destroys(job, h)
  <2>1. CASE job \in Unhanded
    BY <2>1, Unhands
  <2>2. CASE job \notin Unhanded
    <3>1. job \notin Hanging
      BY <2>2 DEF Hanging, Called, Calling, Kinds
    <3> QED
      BY <2>2, <3>1 DEF WorksOn, HasChecked, Destroys
  <2> QED
    BY <2>1, <2>2
<1>2. job \in Job
  BY DEF Job
<1> QED
  BY Zenon, <1>1, <1>2, JobKeeps, NativeOK

LEMMA JobGetsPortInv == ASSUME PairingInv, NEW t \in Coroutines, JobGetsPort(t) PROVE PairingInv'
<1>1. jobs[t] \in Calling /\ jobs[t].at = "port"
  BY Shapes DEF PairingInv, TypesOK, JobGetsPort
<1>2. PICK job \in Unhanded \cup Calling : /\ jobs' = [jobs EXCEPT ![t] = job]
                                           /\ job \notin Unhanded => job.h = jobs[t].h /\ job.at = "call"
  <2> DEFINE call == [jobs[t] EXCEPT !.at = "call"]
  <2>1. Ended \in Unhanded
    BY DEF Ended, Unhanded
  <2>2. call \in Calling /\ call.h = jobs[t].h /\ call.at = "call"
    BY <1>1 DEF Calling
  <2>3. jobs' = [jobs EXCEPT ![t] = call] \/ jobs' = [jobs EXCEPT ![t] = Ended]
    BY Zenon DEF JobGetsPort, Goes
  <2> HIDE DEF call
  <2> QED
    BY <2>1, <2>2, <2>3
<1>3. UNCHANGED <<native, pairing, ends, mainThread, raced>>
  BY DEF JobGetsPort, nativeGetLocalPort, gs_session_local_port, Uses, mainVars
<1>4. PairingOK'
  BY <1>3 DEF PairingInv, TypesOK, PairingOK
<1> QED
  BY Zenon, <1>1, <1>2, <1>3, <1>4, GoesOnInv

LEMMA JobCallsInv == ASSUME PairingInv, NEW t \in Coroutines, JobCalls(t) PROVE PairingInv'
<1> DEFINE job == [jobs[t] EXCEPT !.at = "calling"]
<1>1. jobs[t] \in Calling
  BY Shapes DEF PairingInv, TypesOK, JobCalls
<1>2. job \in Calling /\ job.h = jobs[t].h /\ job.at = "calling"
  BY <1>1 DEF Calling
<1>3. jobs' = [jobs EXCEPT ![t] = job] /\ UNCHANGED <<native, pairing, ends, mainThread, raced>>
  BY DEF JobCalls, Goes, Enters, mainVars
<1>4. PairingOK'
  BY <1>3 DEF PairingInv, TypesOK, PairingOK
<1> HIDE DEF job
<1> QED
  BY Zenon, <1>1, <1>2, <1>3, <1>4, GoesOnInv

LEMMA JobReturnsInv == ASSUME PairingInv, NEW t \in Coroutines, JobReturns(t) PROVE PairingInv'
<1>1. jobs[t] \in Calling
  BY Shapes DEF PairingInv, TypesOK, JobReturns
<1>2. PICK status : /\ status \in IF jobs[t].kind = "host" THEN nativeAcceptAny(jobs[t].h)
                                                           ELSE nativeConnect(jobs[t].h)
                    /\ Goes(t, [at |-> "check", kind |-> jobs[t].kind, left |-> jobs[t].left,
                                h |-> jobs[t].h, status |-> status])
  BY DEF JobReturns
<1>3. status \in Statuses
  BY <1>2 DEF nativeAcceptAny, nativeConnect, Statuses
<1> DEFINE job == [at |-> "check", kind |-> jobs[t].kind, left |-> jobs[t].left,
                   h |-> jobs[t].h, status |-> status]
<1>4. job \in Called /\ job.h = jobs[t].h /\ job.at = "check"
  BY <1>1, <1>3 DEF Calling, Called
<1>5. jobs' = [jobs EXCEPT ![t] = job] /\ UNCHANGED <<native, pairing, ends, mainThread, raced>>
  BY Zenon, <1>2 DEF JobReturns, Goes, Leaves, mainVars
<1>6. PairingOK'
  BY <1>5 DEF PairingInv, TypesOK, PairingOK
<1> HIDE DEF job
<1> QED
  BY Zenon, <1>1, <1>4, <1>5, <1>6, GoesOnInv

LEMMA JobConnectedInv == ASSUME PairingInv, NEW t \in Coroutines, JobConnected(t) PROVE PairingInv'
<1>1. jobs[t] \in Called
  BY Shapes DEF PairingInv, TypesOK, JobConnected
<1>2. Ended \in Unhanded
  BY DEF Ended, Unhanded
<1>3. [at |-> "Connected", handle |-> jobs[t].h] \in Screens
  BY <1>1 DEF Called, Screens
<1>4. PairingOK' /\ pairing'.nativeHandle = pairing.nativeHandle
  BY <1>3, ShowsInv DEF JobConnected
<1>5. jobs' = [jobs EXCEPT ![t] = Ended] /\ UNCHANGED <<native, ends, mainThread, raced>>
  BY DEF JobConnected, Goes, nativeVars, mainVars
<1> QED
  BY Zenon, <1>1, <1>2, <1>4, <1>5, GoesOnInv

LEMMA JobResetsInv == ASSUME PairingInv, NEW t \in Coroutines, JobResets(t) PROVE PairingInv'
<1> DEFINE job == [jobs[t] EXCEPT !.at = "destroy"]
<1>1. jobs[t] \in Called /\ jobs[t].at = "reset"
  BY Shapes DEF PairingInv, TypesOK, JobResets
<1>2. job \in Called /\ job.h = jobs[t].h /\ job.at = "destroy"
  BY <1>1 DEF Called
<1>3. jobs' = [jobs EXCEPT ![t] = job] /\ UNCHANGED <<native, ends, mainThread, raced>>
  BY DEF JobResets, Goes, nativeVars, mainVars
<1>4. PairingOK' /\ pairing'.nativeHandle = 0
  BY DEF JobResets, PairingInv, TypesOK, PairingOK
<1> HIDE DEF job
<1>5. job \notin Hanging /\ job \in Job
  BY <1>2 DEF Hanging, Called, Kinds, Job
<1>6. \A h \in Handles :
        /\ WorksOn(job, h) => WorksOn(jobs[t], h)
        /\ HasChecked(job, h) => HasChecked(jobs[t], h)
        /\ Destroys(job, h) =>
             Destroys(jobs[t], h) \/ (HasChecked(jobs[t], h) /\ pairing'.nativeHandle # h)
  BY <1>1, <1>2, <1>4, <1>5, HandlesAssumption DEF WorksOn, HasChecked, Destroys
<1>7. native' \in [Handles -> {"none", "open", "closed", "freed"}]
  BY <1>3, NativeOK
<1>8. /\ pairing'.nativeHandle \in {pairing.nativeHandle, 0}
      /\ \A h \in Handles : native'[h] = "none" => native[h] = "none"
      /\ UNCHANGED <<ends, mainThread>> /\ raced \subseteq raced'
  BY <1>3, <1>4
<1> QED
  BY ZenonT(30), <1>3, <1>4, <1>5, <1>6, <1>7, <1>8, JobKeeps

LEMMA JobClosesInv == ASSUME PairingInv, NEW t \in Coroutines, JobCloses(t) PROVE PairingInv'
<1> DEFINE job == [jobs[t] EXCEPT !.at = "destroy"]
<1>1. jobs[t] \in Hanging
  BY Shapes DEF PairingInv, TypesOK, JobCloses
<1>2. job \in Hanging /\ job.h = jobs[t].h
  BY <1>1 DEF Hanging
<1>3. jobs' = [jobs EXCEPT ![t] = job] /\ UNCHANGED <<pairing, ends, mainThread, raced>>
  BY DEF JobCloses, Goes, mainVars
<1>4. /\ native' \in [Handles -> {"none", "open", "closed", "freed"}]
      /\ \A h \in Handles : native'[h] = "none" => native[h] = "none"
  <2>1. jobs[t].h \in Handles /\ jobs[t].h # 0
    BY <1>1, HandlesAssumption DEF Hanging
  <2> QED
    BY <2>1, ClosesNative DEF JobCloses, PairingInv, TypesOK
<1>5. PairingOK'
  BY <1>3 DEF PairingInv, TypesOK, PairingOK
<1> HIDE DEF job
<1>6. job \notin Called \cup Calling /\ job \in Job
  BY <1>2 DEF Hanging, Called, Calling, Kinds, Job
<1>7. \A h \in Handles : /\ ~WorksOn(job, h) /\ ~HasChecked(job, h)
                         /\ Destroys(job, h) => Destroys(jobs[t], h)
  BY <1>1, <1>2, <1>6 DEF WorksOn, HasChecked, Destroys
<1> QED
  BY Zenon, <1>3, <1>4, <1>5, <1>6, <1>7, JobKeeps

\* attemptConnect leaves the coroutine without a handle.
LEMMA NextCandidateGoes ==
  ASSUME PairingInv, NEW t \in Coroutines, jobs[t].left \in Int, NextCandidate(t)
  PROVE  /\ \E job \in Unhanded : jobs' = [jobs EXCEPT ![t] = job]
         /\ PairingOK' /\ pairing'.nativeHandle = pairing.nativeHandle
<1>1. CASE jobs[t].left > 1
  <2>1. [at |-> "create", kind |-> "join", left |-> jobs[t].left - 1] \in Unhanded
    BY DEF Unhanded, Kinds
  <2>2. PairingOK' /\ pairing'.nativeHandle = pairing.nativeHandle
    BY <1>1 DEF NextCandidate, PairingInv, TypesOK, PairingOK
  <2> QED
    BY <1>1, <2>1, <2>2 DEF NextCandidate, Goes
<1>2. CASE ~(jobs[t].left > 1)
  <2>1. Ended \in Unhanded /\ [at |-> "Joining"] \in Screens
    BY DEF Ended, Unhanded, Screens
  <2>2. Shows([at |-> "Joining"]) /\ jobs' = [jobs EXCEPT ![t] = Ended]
    BY <1>2 DEF NextCandidate, Goes
  <2> QED
    BY Zenon, <2>1, <2>2, ShowsInv
<1> QED
  BY <1>1, <1>2

\* A step of the main thread or of a coroutine without a handle that starts coroutines
\* without one, cancels some, or changes what is shown.
LEMMA OthersKeep ==
  ASSUME PairingInv, jobs' \in [Coroutines -> Job],
         \A u \in Coroutines : jobs'[u] = jobs[u] \/ jobs'[u] \in Unhanded,
         PairingOK', pairing'.nativeHandle \in {pairing.nativeHandle, 0},
         UNCHANGED <<native, ends, raced>>, MainOK',
         \A h \in Handles : /\ MainHas(h)' => MainHas(h)
                            /\ MainDestroys(h)' => MainDestroys(h) \/ pairing'.nativeHandle # h
  PROVE  PairingInv'
<1>1. TypesOK'
  BY DEF PairingInv, TypesOK
<1>2. ASSUME NEW h \in Handles PROVE HandleInv(h)'
  <2>1. \A u \in Coroutines : /\ WorksOn(jobs'[u], h) => WorksOn(jobs[u], h)
                              /\ HasChecked(jobs'[u], h) => HasChecked(jobs[u], h)
                              /\ Destroys(jobs'[u], h) => Destroys(jobs[u], h)
    BY Unhands
  <2>2. Keeps(h)
    BY <2>1, HandlesAssumption DEF Keeps
  <2> QED
    BY <2>2, KeepInv DEF PairingInv
<1> QED
  BY <1>1, <1>2 DEF PairingInv

LEMMA CancelledKeeps ==
  ASSUME PairingInv, NEW kinds
  PROVE  /\ Cancelled(kinds) \in [Coroutines -> Job]
         /\ \A u \in Coroutines : Cancelled(kinds)[u] = jobs[u] \/ Cancelled(kinds)[u] = Ended
         /\ Ended \in Unhanded /\ Ended \in Job
<1>1. Ended \in Unhanded /\ Ended \in Job
  BY DEF Ended, Unhanded, Job
<1> QED
  BY <1>1 DEF Cancelled, PairingInv, TypesOK

\* startHosting, joinFromQr and joinFromRelay.
LEMMA UserStartsInv ==
  ASSUME PairingInv, NEW t \in Coroutines, startHosting(t) \/ joinFromQr(t) \/ joinFromRelay(t)
  PROVE  PairingInv'
<1>1. PICK job \in Unhanded : \/ jobs' = [jobs EXCEPT ![t] = job]
                              \/ jobs' = [Cancelled({"host"}) EXCEPT ![t] = job]
  <2>1. [at |-> "start", kind |-> "host", left |-> 1] \in Unhanded
    BY DEF Unhanded, Kinds
  <2>2. \A n \in 0..MaxCandidates : [at |-> "start", kind |-> "join", left |-> n] \in Unhanded
    BY DEF Unhanded, Kinds
  <2>3. [at |-> "start", kind |-> "join", left |-> 1] \in Unhanded
    BY DEF Unhanded, Kinds
  <2> QED
    BY <2>1, <2>2, <2>3 DEF startHosting, joinFromQr, joinFromRelay, Launch
<1>2. job \in Job
  BY DEF Job
<1>3. /\ jobs' \in [Coroutines -> Job]
      /\ \A u \in Coroutines : jobs'[u] = jobs[u] \/ jobs'[u] \in Unhanded
  BY <1>1, <1>2, CancelledKeeps DEF PairingInv, TypesOK
<1>4. UNCHANGED <<native, pairing, ends, raced, mainThread>>
  BY DEF startHosting, joinFromQr, joinFromRelay, nativeVars
<1>5. PairingOK' /\ MainOK' /\ \A h : (MainHas(h)' <=> MainHas(h)) /\ (MainDestroys(h)' <=> MainDestroys(h))
  BY <1>4 DEF PairingInv, TypesOK, PairingOK, MainOK, MainHas, MainDestroys
<1> QED
  BY <1>3, <1>4, <1>5, OthersKeep

\* launchPttScreen and onBackPressed.
LEMMA FinishesInv ==
  ASSUME PairingInv, launchPttScreen \/ onBackPressed
  PROVE  PairingInv'
<1>1. PairingOK' /\ pairing'.nativeHandle = pairing.nativeHandle
  <2>1. CASE launchPttScreen
    <3>1. pairing.screen.handle \in Handles
      BY <2>1 DEF launchPttScreen, PairingInv, TypesOK, PairingOK, Screens
    <3> QED
      BY Zenon, <2>1, <3>1 DEF launchPttScreen, PairingInv, TypesOK, PairingOK
  <2>2. CASE onBackPressed
    BY Zenon, <2>2 DEF onBackPressed, PairingInv, TypesOK, PairingOK
  <2> QED
    BY <2>1, <2>2
<1>2. UNCHANGED <<native, jobs, ends, raced, mainThread>>
  BY DEF launchPttScreen, onBackPressed, nativeVars
<1>3. MainOK' /\ \A h : (MainHas(h)' <=> MainHas(h)) /\ (MainDestroys(h)' <=> MainDestroys(h))
  BY <1>2 DEF PairingInv, TypesOK, MainOK, MainHas, MainDestroys
<1>4. jobs' \in [Coroutines -> Job]
  BY <1>2 DEF PairingInv, TypesOK
<1> QED
  BY <1>1, <1>2, <1>3, <1>4, OthersKeep

LEMMA ClearedResetsInv == ASSUME PairingInv, ClearedResets PROVE PairingInv'
<1>1. mainThread \in [at : {"cleared"}, h : Handles \cup {0}]
  BY DEF ClearedResets, PairingInv, TypesOK, MainOK
<1>2. PairingOK' /\ pairing'.nativeHandle = 0
  BY Zenon DEF ClearedResets, PairingInv, TypesOK, PairingOK
<1>3. \/ mainThread' = Idle
      \/ mainThread' = [at |-> "close", h |-> mainThread.h] /\ mainThread.h \in Handles
  BY <1>1 DEF ClearedResets
<1>4. MainOK' /\ \A h \in Handles : MainHas(h)' => MainHas(h)
  BY <1>1, <1>3 DEF MainOK, MainHas, Idle
<1>5. UNCHANGED <<native, jobs, ends, raced>>
  BY DEF ClearedResets, nativeVars
<1>6. jobs' \in [Coroutines -> Job]
  BY <1>5 DEF PairingInv, TypesOK
<1>7. \A h \in Handles : pairing'.nativeHandle # h
  BY <1>2, HandlesAssumption
<1> QED
  BY <1>2, <1>4, <1>5, <1>6, <1>7, OthersKeep

LEMMA ClearedClosesInv == ASSUME PairingInv, ClearedCloses PROVE PairingInv'
<1>1. mainThread \in [at : {"close"}, h : Handles]
  BY DEF ClearedCloses, PairingInv, TypesOK, MainOK
<1>2. /\ native' \in [Handles -> {"none", "open", "closed", "freed"}]
      /\ \A h \in Handles : native'[h] = "none" => native[h] = "none"
  BY <1>1, NativeOK, ClosesNative DEF ClearedCloses
<1>3. mainThread' = [at |-> "destroy", h |-> mainThread.h]
  BY <1>1 DEF ClearedCloses
<1>4. UNCHANGED <<pairing, jobs, ends, raced>>
  BY DEF ClearedCloses
<1>5. MainOK' /\ \A h \in Handles : (MainHas(h)' => MainHas(h)) /\ (MainDestroys(h)' => MainDestroys(h))
  BY <1>1, <1>3 DEF MainOK, MainHas, MainDestroys
<1>6. TypesOK'
  BY <1>2, <1>4, <1>5 DEF PairingInv, TypesOK, PairingOK
<1>7. ASSUME NEW h \in Handles PROVE HandleInv(h)'
  <2>1. Keeps(h)
    BY <1>2, <1>4, <1>5 DEF Keeps
  <2> QED
    BY <2>1, KeepInv DEF PairingInv
<1> QED
  BY <1>6, <1>7 DEF PairingInv

-----------------------------------------------------------------------------
(* Steps that give somebody a handle *)

\* The handle is new, so nobody has it.
LEMMA JobCreatesInv == ASSUME PairingInv, NEW t \in Coroutines, JobCreates(t) PROVE PairingInv'
<1>1. jobs[t] \in Unhanded /\ jobs[t] \in [at : {"create"}, kind : Kinds, left : Int]
  BY Shapes DEF PairingInv, TypesOK, JobCreates, Unhanded
<1>2. PICK g \in NewHandles :
        /\ nativeCreate(g)
        /\ g = 0 /\ jobs[t].kind = "host" => Goes(t, Ended) /\ UNCHANGED pairing
        /\ g = 0 /\ jobs[t].kind = "join" => NextCandidate(t)
        /\ g # 0 => /\ pairing' = [pairing EXCEPT !.nativeHandle = g]
                    /\ Goes(t, [at |-> IF jobs[t].kind = "host" THEN "port" ELSE "call",
                                kind |-> jobs[t].kind, left |-> jobs[t].left, h |-> g])
  BY Zenon, <1>1 DEF JobCreates, Kinds
<1>3. UNCHANGED <<ends, raced, mainThread>>
  BY DEF JobCreates, mainVars
<1>4. CASE g = 0
  <2>1. UNCHANGED native
    BY <1>2, <1>4 DEF nativeCreate, nativeVars
  <2>2. /\ \E job \in Unhanded : jobs' = [jobs EXCEPT ![t] = job]
        /\ PairingOK' /\ pairing'.nativeHandle = pairing.nativeHandle
    <3>1. CASE jobs[t].kind = "host"
      <4>1. Ended \in Unhanded
        BY DEF Ended, Unhanded
      <4> QED
        BY <1>2, <1>4, <3>1, <4>1 DEF Goes, PairingInv, TypesOK, PairingOK
    <3>2. CASE jobs[t].kind = "join"
      BY <1>1, <1>2, <1>4, <3>2, NextCandidateGoes
    <3> QED
      BY <1>1, <3>1, <3>2 DEF Kinds
  <2>3. /\ jobs' \in [Coroutines -> Job]
        /\ \A u \in Coroutines : jobs'[u] = jobs[u] \/ jobs'[u] \in Unhanded
    BY <2>2 DEF PairingInv, TypesOK, Job
  <2>4. MainOK' /\ \A h : (MainHas(h)' <=> MainHas(h)) /\ (MainDestroys(h)' <=> MainDestroys(h))
    BY <1>3 DEF PairingInv, TypesOK, MainOK, MainHas, MainDestroys
  <2> QED
    BY <1>3, <2>1, <2>2, <2>3, <2>4, OthersKeep
<1>5. CASE g # 0
  <2> DEFINE job == [at |-> IF jobs[t].kind = "host" THEN "port" ELSE "call",
                     kind |-> jobs[t].kind, left |-> jobs[t].left, h |-> g]
  <2>1. g \in Handles /\ native[g] = "none" /\ native' = [native EXCEPT ![g] = "open"]
    BY <1>2, <1>5 DEF NewHandles, nativeCreate, gs_session_create
  <2>2. job \in Calling /\ job.h = g
    BY <1>1, <2>1 DEF Calling
  <2>3. jobs' = [jobs EXCEPT ![t] = job]
    BY <1>2, <1>5 DEF Goes
  <2> HIDE DEF job
  <2>4. \A u \in Coroutines : jobs'[u] = IF u = t THEN job ELSE jobs[u]
    BY <2>3 DEF PairingInv, TypesOK
  <2>5. PairingOK' /\ pairing'.nativeHandle = g
    BY <1>2, <1>5, <2>1 DEF PairingInv, TypesOK, PairingOK
  <2>6. TypesOK'
    BY <1>3, <2>1, <2>2, <2>3, <2>5 DEF PairingInv, TypesOK, MainOK, Job
  <2>7. \A h : ~HasChecked(job, h) /\ ~Destroys(job, h) /\ (WorksOn(job, h) => h = g)
    BY <2>2 DEF HasChecked, Destroys, WorksOn, Calling, Called, Hanging, Kinds
  <2>8. ASSUME NEW h \in Handles, h # g PROVE HandleInv(h)'
    <3>1. Keeps(h)
      BY <1>3, <2>1, <2>4, <2>5, <2>7, <2>8 DEF Keeps, MainHas, MainDestroys, PairingInv, TypesOK
    <3> QED
      BY Zenon, <3>1, KeepInv DEF PairingInv
  <2>9. HandleInv(g)'
    <3>1. /\ ends[g] = 0 /\ ~MainHas(g)
          /\ \A u \in Coroutines : ~WorksOn(jobs[u], g) /\ ~Destroys(jobs[u], g)
      BY Zenon, <2>1 DEF PairingInv, HandleInv, Created
    <3>2. \A u \in Coroutines : /\ ~HasChecked(jobs'[u], g) /\ ~Destroys(jobs'[u], g)
                                /\ WorksOn(jobs'[u], g) => u = t
      BY <3>1, <2>4, <2>7, CheckedWorks
    <3>3. Created(g)'
      BY <2>1 DEF Created, PairingInv, TypesOK
    <3>4. OneWorker(g)'
      BY <3>2 DEF OneWorker
    <3>5. ends'[g] = 0 /\ ~MainHas(g)' /\ ~MainDestroys(g)'
      BY <1>3, <3>1, <2>6 DEF MainHas, MainDestroys, TypesOK, MainOK
    <3>6. OneEnd(g)'
      BY <3>2, <3>5 DEF OneEnd, Claims
    <3> QED
      BY <3>3, <3>4, <3>6 DEF HandleInv
  <2> QED
    BY <2>6, <2>8, <2>9 DEF PairingInv
<1> QED
  BY <1>4, <1>5

\* The handle is in the field, so nobody is about to end it who has reset the field, and
\* if the main thread has read the field the handle is noted.
LEMMA JobChecksInv == ASSUME PairingInv, NEW t \in Coroutines, JobChecks(t) PROVE PairingInv'
<1>1. jobs[t] \in Called /\ jobs[t].at = "check"
  BY Shapes DEF PairingInv, TypesOK, JobChecks
<1> PICK g \in Handles : g = jobs[t].h
  BY <1>1 DEF Called
<1>2. UNCHANGED <<native, pairing, ends, mainThread>> /\ raced \subseteq raced'
  BY DEF JobChecks, nativeVars, mainVars
<1>3. PairingOK' /\ pairing'.nativeHandle = pairing.nativeHandle
  BY <1>2 DEF PairingInv, TypesOK, PairingOK
<1>4. CASE pairing.nativeHandle # g
  <2>1. jobs' = [jobs EXCEPT ![t] = Ended] /\ Ended \in Unhanded
    BY <1>4 DEF JobChecks, Goes, Ended, Unhanded
  <2> QED
    BY Zenon, <1>1, <1>2, <1>3, <2>1, GoesOnInv
<1>5. CASE pairing.nativeHandle = g /\ jobs[t].status = "GS_OK"
  <2> DEFINE job == [jobs[t] EXCEPT !.at = "connected"]
  <2>1. jobs' = [jobs EXCEPT ![t] = job]
    BY <1>5 DEF JobChecks, Goes
  <2>2. job \in Called /\ job.h = g /\ job.at = "connected"
    BY <1>1 DEF Called
  <2> HIDE DEF job
  <2> QED
    BY Zenon, <1>1, <1>2, <1>3, <2>1, <2>2, GoesOnInv
<1>6. CASE pairing.nativeHandle = g /\ jobs[t].status # "GS_OK"
  <2> DEFINE job == [jobs[t] EXCEPT !.at = "reset"]
  <2>1. jobs' = [jobs EXCEPT ![t] = job]
    BY <1>6 DEF JobChecks, Goes
  <2>2. job \in Called /\ job.h = g /\ job.at = "reset"
    BY <1>1 DEF Called
  <2> HIDE DEF job
  <2>3. \A u \in Coroutines : jobs'[u] = IF u = t THEN job ELSE jobs[u]
    BY <2>1 DEF PairingInv, TypesOK
  <2>4. TypesOK'
    BY <1>2, <1>3, <2>1, <2>2 DEF PairingInv, TypesOK, MainOK, Job
  <2>5. /\ \A h : ~Destroys(job, h) /\ (WorksOn(job, h) => h = g) /\ (HasChecked(job, h) => h = g)
        /\ WorksOn(jobs[t], g)
    BY <1>1, <2>2 DEF HasChecked, Destroys, WorksOn, Called, Hanging, Kinds
  <2>6. ASSUME NEW h \in Handles, h # g PROVE HandleInv(h)'
    <3>1. Keeps(h)
      BY Zenon, <1>2, <2>3, <2>5, <2>6 DEF Keeps, MainHas, MainDestroys
    <3> QED
      BY Zenon, <3>1, KeepInv DEF PairingInv
  <2>7. HandleInv(g)'
    <3>1. HandleInv(g)
      BY Zenon, <1>1 DEF PairingInv
    <3>2. Created(g)' /\ native'[g] # "none"
      BY <1>2, <2>5, <3>1 DEF Created, HandleInv
    <3>3. \A u \in Coroutines : WorksOn(jobs'[u], g) => WorksOn(jobs[u], g)
      BY <2>3, <2>5
    <3>4. OneWorker(g)'
      BY Zenon, <3>1, <3>3 DEF OneWorker, HandleInv
    <3>5. ASSUME g \notin raced' PROVE OneEnd(g)'
      <4>1. OneEnd(g)
        BY <1>2, <3>1, <3>5 DEF HandleInv
      <4>2. ends[g] = 0 /\ ~MainDestroys(g) /\ \A u \in Coroutines : ~Destroys(jobs[u], g)
        BY <1>6, <4>1 DEF OneEnd
      <4>3. ~MainHas(g)
        BY SMTT(60), <1>6, <3>5 DEF JobChecks, MainHas, Idle
      <4>4. \A u \in Coroutines : ~Destroys(jobs'[u], g) /\ (HasChecked(jobs'[u], g) => u = t)
        BY <2>3, <2>5, <3>1, <4>2, CheckedWorks DEF OneWorker, HandleInv
      <4>5. ends'[g] = 0 /\ ~MainHas(g)' /\ ~MainDestroys(g)'
        BY <1>2, <4>2, <4>3 DEF MainHas, MainDestroys
      <4> QED
        BY <4>4, <4>5 DEF OneEnd, Claims
    <3> QED
      BY <3>2, <3>4, <3>5 DEF HandleInv
  <2> QED
    BY <2>4, <2>6, <2>7 DEF PairingInv
<1> QED
  BY <1>4, <1>5, <1>6

\* hangUp and onCleared: nobody who has reset the field is about to end what is in it,
\* and whoever has checked it makes it a handle that is noted.
LEMMA TakesInv ==
  ASSUME PairingInv, mainThread = Idle,
         Takes("hangUp") \/ Takes("cleared"),
         jobs' \in [Coroutines -> Job],
         \A u \in Coroutines : jobs'[u] = jobs[u] \/ jobs'[u] \in Unhanded,
         UNCHANGED <<native, pairing, ends>>
  PROVE  PairingInv'
<1> DEFINE g == pairing.nativeHandle
<1>1. PairingOK' /\ g \in Handles \cup {0}
  BY DEF PairingInv, TypesOK, PairingOK
<1>2. /\ mainThread' \in [at : {"hangUp", "cleared"}, h : {g}]
      /\ raced \subseteq raced'
  BY DEF Takes
<1>3. TypesOK'
  BY <1>1, <1>2 DEF PairingInv, TypesOK, MainOK
<1>4. ASSUME NEW h \in Handles, NEW u \in Coroutines
      PROVE  /\ WorksOn(jobs'[u], h) => WorksOn(jobs[u], h)
             /\ HasChecked(jobs'[u], h) => HasChecked(jobs[u], h)
             /\ Destroys(jobs'[u], h) => Destroys(jobs[u], h)
  BY Unhands
<1>5. ASSUME NEW h \in Handles, h # g PROVE HandleInv(h)'
  <2>1. ~MainHas(h)' /\ ~MainDestroys(h)'
    BY Zenon, <1>2, <1>5 DEF MainHas, MainDestroys
  <2>2. Keeps(h)
    BY <1>2, <1>4, <1>5, <2>1 DEF Keeps
  <2> QED
    BY <2>2, KeepInv DEF PairingInv
<1>6. ASSUME g \in Handles PROVE HandleInv(g)'
  <2>1. HandleInv(g)
    BY <1>6 DEF PairingInv
  <2>2. Created(g)'
    BY <2>1 DEF HandleInv, Created
  <2>3. OneWorker(g)'
    BY Zenon, <1>4, <1>6, <2>1 DEF HandleInv, OneWorker
  <2>4. ASSUME g \notin raced' PROVE OneEnd(g)'
    <3>1. OneEnd(g)
      BY <1>2, <2>1, <2>4 DEF HandleInv
    <3>2. ends[g] = 0 /\ \A u \in Coroutines : ~Destroys(jobs[u], g)
      BY Zenon, <3>1 DEF OneEnd
    <3>3. \A u \in Coroutines : ~HasChecked(jobs[u], g)
      BY Zenon, <2>4 DEF Takes, HasChecked
    <3>4. \A u \in Coroutines : ~Claims(jobs'[u], g)
      BY <1>4, <1>6, <3>2, <3>3 DEF Claims
    <3>5. ~MainDestroys(g)' /\ ends'[g] = 0
      BY <1>2, <3>2 DEF MainDestroys
    <3> QED
      BY <3>4, <3>5 DEF OneEnd, Claims
  <2> QED
    BY <2>2, <2>3, <2>4 DEF HandleInv
<1> QED
  BY <1>3, <1>5, <1>6 DEF PairingInv

\* hangUp gives what the main thread has to a coroutine, with the field reset.
LEMMA HangUpResetsInv == ASSUME PairingInv, NEW t \in Coroutines, HangUpResets(t) PROVE PairingInv'
<1>1. mainThread \in [at : {"hangUp"}, h : Handles \cup {0}]
  BY DEF HangUpResets, PairingInv, TypesOK, MainOK
<1>2. PairingOK' /\ pairing'.nativeHandle = 0
  BY Zenon DEF HangUpResets, PairingInv, TypesOK, PairingOK, Screens, Home
<1>3. mainThread' = Idle /\ UNCHANGED <<native, ends, raced>>
  BY DEF HangUpResets, nativeVars
<1>4. MainOK' /\ \A h : ~MainHas(h)' /\ ~MainDestroys(h)'
  BY <1>3 DEF MainOK, MainHas, MainDestroys, Idle
<1>5. CASE mainThread.h = 0
  <2>1. jobs' = Cancelled({"host"})
    BY <1>5 DEF HangUpResets
  <2>2. /\ jobs' \in [Coroutines -> Job]
        /\ \A u \in Coroutines : jobs'[u] = jobs[u] \/ jobs'[u] \in Unhanded
    BY <2>1, CancelledKeeps
  <2> QED
    BY <1>2, <1>3, <1>4, <2>2, OthersKeep
<1>6. CASE mainThread.h # 0
  <2> PICK g \in Handles : g = mainThread.h
    BY <1>1, <1>6
  <2> DEFINE job == [at |-> "start", kind |-> "hangUp", h |-> g]
  <2>1. jobs[t] = Ended /\ jobs' = [Cancelled({"host"}) EXCEPT ![t] = job]
    BY <1>6 DEF HangUpResets, Launch
  <2>2. job \in Hanging /\ job.h = g /\ job \in Job
    BY DEF Hanging, Job
  <2> HIDE DEF job
  <2>3. \A u \in Coroutines : \/ u = t /\ jobs'[u] = job
                              \/ u # t /\ (jobs'[u] = jobs[u] \/ jobs'[u] \in Unhanded)
    BY <2>1, CancelledKeeps
  <2>4. TypesOK'
    BY <1>2, <1>3, <1>4, <2>1, <2>2, CancelledKeeps DEF PairingInv, TypesOK
  <2>5. \A h : ~HasChecked(job, h) /\ ~WorksOn(job, h) /\ (Destroys(job, h) => h = g)
    BY <2>2 DEF HasChecked, Destroys, WorksOn, Called, Calling, Hanging, Kinds
  <2>6. ASSUME NEW h \in Handles, NEW u \in Coroutines
        PROVE  /\ WorksOn(jobs'[u], h) => WorksOn(jobs[u], h)
               /\ HasChecked(jobs'[u], h) => HasChecked(jobs[u], h)
               /\ Destroys(jobs'[u], h) => Destroys(jobs[u], h) \/ (u = t /\ h = g)
    BY <2>3, <2>5, Unhands
  <2>7. ASSUME NEW h \in Handles, h # g PROVE HandleInv(h)'
    <3>1. Keeps(h)
      BY <1>2, <1>3, <1>4, <2>6, <2>7, HandlesAssumption DEF Keeps
    <3> QED
      BY Zenon, <3>1, KeepInv DEF PairingInv
  <2>8. HandleInv(g)'
    <3>1. HandleInv(g) /\ MainHas(g)
      BY <1>1 DEF PairingInv, MainHas
    <3>2. Created(g)'
      BY Zenon, <1>3, <3>1 DEF HandleInv, Created
    <3>3. OneWorker(g)'
      BY Zenon, <2>6, <3>1 DEF HandleInv, OneWorker
    <3>4. ASSUME g \notin raced' PROVE OneEnd(g)'
      <4>1. ends[g] = 0 /\ \A u \in Coroutines : ~Claims(jobs[u], g)
        BY Zenon, <1>3, <3>1, <3>4 DEF HandleInv, OneEnd
      <4>2. \A u \in Coroutines : Claims(jobs'[u], g) => u = t
        BY <2>6, <4>1 DEF Claims
      <4>3. ends'[g] = 0 /\ pairing'.nativeHandle # g
        BY Zenon, <1>2, <1>3, <4>1, HandlesAssumption
      <4> QED
        BY SMTT(60), <1>4, <4>2, <4>3 DEF OneEnd, Claims
    <3> QED
      BY <3>2, <3>3, <3>4 DEF HandleInv
  <2> QED
    BY <2>4, <2>7, <2>8 DEF PairingInv
<1> QED
  BY <1>5, <1>6

-----------------------------------------------------------------------------
(* Steps that end a handle *)

\* Whoever destroys g was the only one to, and nobody has it afterwards.
LEMMA EndInv ==
  ASSUME PairingInv, NEW g \in Handles,
         nativeDestroy(g), ends' = [ends EXCEPT ![g] = @ + 1], UNCHANGED raced,
         TypesOK', pairing'.nativeHandle = pairing.nativeHandle,
         \A h \in Handles : (MainHas(h)' => MainHas(h)) /\ (MainDestroys(h)' => MainDestroys(h)),
         \A h \in Handles, u \in Coroutines :
           /\ WorksOn(jobs'[u], h) => WorksOn(jobs[u], h)
           /\ HasChecked(jobs'[u], h) => HasChecked(jobs[u], h)
           /\ Destroys(jobs'[u], h) => Destroys(jobs[u], h),
         g \notin raced =>
           /\ ends[g] = 0 /\ pairing.nativeHandle # g /\ ~MainHas(g)'
           /\ \A u \in Coroutines : ~Claims(jobs'[u], g)
  PROVE  PairingInv'
<1>1. /\ native'[g] # "none"
      /\ \A h \in Handles : native'[h] = "none" => native[h] = "none"
  BY Zenon, NativeOK, DestroysNative
<1>2. \A h \in Handles : ends'[h] = IF h = g THEN ends[h] + 1 ELSE ends[h]
  BY Zenon DEF PairingInv, TypesOK
<1>3. ASSUME NEW h \in Handles, h # g PROVE HandleInv(h)'
  <2>1. Keeps(h)
    BY Zenon, <1>1, <1>2, <1>3 DEF Keeps
  <2> QED
    BY Zenon, <2>1, KeepInv DEF PairingInv
<1>4. HandleInv(g)'
  <2>1. Created(g)'
    BY Zenon, <1>1 DEF Created
  <2>2. OneWorker(g)'
    BY Zenon DEF PairingInv, HandleInv, OneWorker
  <2>3. g \notin raced' => OneEnd(g)'
    BY SMTT(60), <1>2 DEF OneEnd, Claims
  <2> QED
    BY Zenon, <2>1, <2>2, <2>3 DEF HandleInv
<1> QED
  BY Zenon, <1>3, <1>4 DEF PairingInv

LEMMA ClearedDestroysInv == ASSUME PairingInv, ClearedDestroys PROVE PairingInv'
<1>1. mainThread \in [at : {"destroy"}, h : Handles]
  BY DEF ClearedDestroys, PairingInv, TypesOK, MainOK
<1> PICK g \in Handles : g = mainThread.h
  BY <1>1
<1>2. /\ nativeDestroy(g) /\ ends' = [ends EXCEPT ![g] = @ + 1]
      /\ UNCHANGED <<raced, pairing, jobs>> /\ mainThread' = Idle
  BY DEF ClearedDestroys
<1>3. \A h : ~MainHas(h)' /\ ~MainDestroys(h)'
  BY <1>2 DEF MainHas, MainDestroys, Idle
<1>4. TypesOK'
  BY <1>2, NativeOK, DestroysNative DEF PairingInv, TypesOK, PairingOK, MainOK, Idle
<1>5. MainHas(g) /\ MainDestroys(g)
  BY <1>1 DEF MainHas, MainDestroys
<1>6. g \notin raced => /\ ends[g] = 0 /\ pairing.nativeHandle # g
                        /\ \A u \in Coroutines : ~Claims(jobs[u], g)
  BY <1>5 DEF PairingInv, HandleInv, OneEnd
<1> QED
  BY Zenon, <1>2, <1>3, <1>4, <1>6, EndInv

LEMMA JobDestroysInv == ASSUME PairingInv, NEW t \in Coroutines, JobDestroys(t) PROVE PairingInv'
<1>1. jobs[t] \in Called \cup Hanging /\ jobs[t].at = "destroy"
  BY Zenon, Shapes DEF PairingInv, TypesOK, JobDestroys
<1> PICK g \in Handles : g = jobs[t].h
  BY <1>1 DEF Called, Hanging
<1>2. /\ nativeDestroy(g) /\ ends' = [ends EXCEPT ![g] = @ + 1]
      /\ UNCHANGED <<raced, mainThread>>
  BY Zenon DEF JobDestroys, mainVars
<1>3. /\ \E job \in Unhanded : jobs' = [jobs EXCEPT ![t] = job]
      /\ PairingOK' /\ pairing'.nativeHandle = pairing.nativeHandle
  <2>1. CASE jobs[t].kind = "join"
    <3>1. jobs[t].left \in Int /\ NextCandidate(t)
      BY <1>1, <2>1 DEF JobDestroys, Called, Hanging
    <3> QED
      BY <3>1, NextCandidateGoes
  <2>2. CASE jobs[t].kind # "join"
    <3>1. Goes(t, Ended) /\ (Shows(Home) \/ UNCHANGED pairing)
      BY <2>2 DEF JobDestroys
    <3>2. Ended \in Unhanded /\ Home \in Screens
      BY DEF Ended, Unhanded, Home, Screens
    <3>3. PairingOK' /\ pairing'.nativeHandle = pairing.nativeHandle
      <4>1. CASE Shows(Home)
        BY <4>1, <3>2, ShowsInv
      <4>2. CASE UNCHANGED pairing
        BY <4>2 DEF PairingInv, TypesOK, PairingOK
      <4> QED
        BY <3>1, <4>1, <4>2
    <3> QED
      BY Zenon, <3>1, <3>2, <3>3 DEF Goes
  <2> QED
    BY <2>1, <2>2
<1>4. PICK job \in Unhanded : jobs' = [jobs EXCEPT ![t] = job]
  BY Zenon, <1>3
<1>5. \A u \in Coroutines : jobs'[u] = IF u = t THEN job ELSE jobs[u]
  BY <1>4 DEF PairingInv, TypesOK
<1>6. TypesOK'
  BY <1>2, <1>3, <1>4, NativeOK, DestroysNative DEF PairingInv, TypesOK, MainOK, Job
<1>7. \A h \in Handles, u \in Coroutines :
        /\ WorksOn(jobs'[u], h) => WorksOn(jobs[u], h)
        /\ HasChecked(jobs'[u], h) => HasChecked(jobs[u], h)
        /\ Destroys(jobs'[u], h) => Destroys(jobs[u], h)
        /\ ~Claims(jobs'[t], h)
  BY <1>5, Unhands DEF Claims
<1>8. Claims(jobs[t], g) /\ Destroys(jobs[t], g)
  BY Zenon, <1>1 DEF Claims, Destroys
<1>9. g \notin raced => /\ ends[g] = 0 /\ pairing.nativeHandle # g /\ ~MainHas(g)
                        /\ \A u \in Coroutines : Claims(jobs[u], g) => u = t
  BY Zenon, <1>8 DEF PairingInv, HandleInv, OneEnd
<1>10. g \notin raced => \A u \in Coroutines : ~Claims(jobs'[u], g)
  BY <1>7, <1>9 DEF Claims
<1>11. \A h : (MainHas(h)' <=> MainHas(h)) /\ (MainDestroys(h)' <=> MainDestroys(h))
  BY <1>2 DEF MainHas, MainDestroys
<1> QED
  BY Zenon, <1>2, <1>3, <1>6, <1>7, <1>9, <1>10, <1>11, EndInv

-----------------------------------------------------------------------------

LEMMA PairingInitInv == NativeInit /\ PairingInit => PairingInv
<1> SUFFICES ASSUME NativeInit, PairingInit PROVE PairingInv
  OBVIOUS
<1>1. Ended \in Unhanded /\ Ended \in Job /\ Home \in Screens
  BY Zenon DEF Ended, Unhanded, Job, Home, Screens
<1>2. TypesOK
  BY <1>1 DEF NativeInit, PairingInit, TypesOK, MainOK, PairingOK, Idle
<1>3. \A h : ~MainHas(h) /\ ~MainDestroys(h)
  BY DEF PairingInit, MainHas, MainDestroys, Idle
<1>4. \A h \in Handles, t \in Coroutines :
        ~WorksOn(jobs[t], h) /\ ~HasChecked(jobs[t], h) /\ ~Destroys(jobs[t], h)
  BY Zenon, <1>1, Unhands DEF PairingInit
<1>5. ASSUME NEW h \in Handles PROVE HandleInv(h)
  BY <1>3, <1>4, HandlesAssumption DEF PairingInit, HandleInv, Created, OneWorker, OneEnd, Claims
<1> QED
  BY <1>2, <1>5 DEF PairingInv

LEMMA PairingNextInv ==
  PairingInv /\ [PairingNext]_<<nativeVars, pairingVars, mainVars>> => PairingInv'
<1> SUFFICES ASSUME PairingInv, [PairingNext]_<<nativeVars, pairingVars, mainVars>>
             PROVE  PairingInv'
  OBVIOUS
<1>1. ASSUME NEW t \in Coroutines,
             \/ startHosting(t) \/ joinFromQr(t) \/ joinFromRelay(t) \/ HangUpResets(t)
             \/ JobStarts(t) \/ JobCreates(t) \/ JobGetsPort(t) \/ JobCalls(t) \/ JobReturns(t)
             \/ JobChecks(t) \/ JobConnected(t) \/ JobResets(t) \/ JobCloses(t) \/ JobDestroys(t)
      PROVE  PairingInv'
  BY <1>1, UserStartsInv, HangUpResetsInv, StartsInv, JobCreatesInv, JobGetsPortInv, JobCallsInv,
     JobReturnsInv, JobChecksInv, JobConnectedInv, JobResetsInv, JobClosesInv, JobDestroysInv
<1>2. CASE hangUp
  <2>1. /\ mainThread = Idle /\ Takes("hangUp") /\ jobs' = jobs
        /\ UNCHANGED <<native, pairing, ends>>
    BY <1>2 DEF hangUp, Event, nativeVars
  <2>2. jobs' \in [Coroutines -> Job]
    BY <2>1 DEF PairingInv, TypesOK
  <2> QED
    BY <2>1, <2>2, TakesInv
<1>3. CASE onCleared
  <2>1. /\ mainThread = Idle /\ Takes("cleared") /\ jobs' = Cancelled({"host", "join", "hangUp"})
        /\ UNCHANGED <<native, pairing, ends>>
    BY <1>3 DEF onCleared, nativeVars
  <2>2. /\ jobs' \in [Coroutines -> Job]
        /\ \A u \in Coroutines : jobs'[u] = jobs[u] \/ jobs'[u] \in Unhanded
    BY <2>1, CancelledKeeps
  <2> QED
    BY <2>1, <2>2, TakesInv
<1>4. CASE UNCHANGED <<nativeVars, pairingVars, mainVars>>
  <2>1. UNCHANGED <<native, pairing, jobs, ends, raced, mainThread>>
    BY <1>4 DEF nativeVars, pairingVars, mainVars
  <2>2. TypesOK'
    BY <2>1 DEF PairingInv, TypesOK, MainOK, PairingOK
  <2>3. ASSUME NEW h \in Handles PROVE HandleInv(h)'
    <3>1. Keeps(h)
      BY <2>1 DEF Keeps, MainHas, MainDestroys
    <3> QED
      BY Zenon, <3>1, KeepInv DEF PairingInv
  <2> QED
    BY <2>2, <2>3 DEF PairingInv
<1> QED
  BY <1>1, <1>2, <1>3, <1>4, FinishesInv, ClearedResetsInv, ClearedClosesInv, ClearedDestroysInv
     DEF PairingNext

\* PairingViewModel destroys a handle at most once (hangUp, onCleared, startHosting and
\* attemptConnect of PairingViewModel.kt), unless two of them found it in the field
\* before either had reset the field.
THEOREM HandlesDestroyedOnce == PairingSpec => []DestroyedOnce
<1>1. PairingInv => DestroyedOnce
  BY DEF PairingInv, HandleInv, OneEnd, DestroyedOnce
<1> QED
  BY PairingInitInv, PairingNextInv, <1>1, PTL DEF PairingSpec
=============================================================================
