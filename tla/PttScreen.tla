----------------------------- MODULE PttScreen -----------------------------
(***************************************************************************)
(* PttViewModel and MainActivity of the Android application, on the main   *)
(* thread and over the native sessions that PairingViewModel uses too.     *)
(* One coroutine of each kind at a time; one playback loop, and one poll   *)
(* of a kind, stand for all.  Capture and playback never suspend: cancel() *)
(* matters only before they start.  A disabled button delivers nothing.    *)
(***************************************************************************)
EXTENDS Pairing

CONSTANT MaxAttempts    \* of reconnect(), 10 in the code

VARIABLES
  screen,         \* the fields of PttViewModel, and what MainActivity is at
  coroutines,     \* its coroutines by kind
  capture,        \* captureJob is active; the capture loops that run
  playback,       \* the playback loop
  polls,          \* which of metricsJob and peerMonitorJob run
  crossed         \* history: overlaps of coroutines, "talk" or "connection"

screenVars == <<screen, coroutines, capture, playback, polls, crossed>>

Connections == {"attach", "connect", "reconnect", "disconnect", "lost", "cleared"}
Talks == {"press", "release"}
Off == [at |-> "off"]

ScreenInit ==
  /\ screen = [alive |-> FALSE, finishing |-> FALSE, nativeHandle |-> 0, state |-> "Idle",
               relay |-> FALSE, active |-> FALSE, wakeLock |-> FALSE, down |-> FALSE]
  /\ coroutines = [k \in Connections \cup Talks |-> Off]
  /\ capture = [job |-> FALSE, loops |-> 0]
  /\ playback = Off /\ polls = {} /\ crossed = {}

\* A handler of MainActivity or of the network callback.
ScreenEvent ==
  /\ mainThread = Idle /\ screen.alive /\ ~screen.finishing
  /\ events < MaxEvents /\ events' = events + 1
  /\ UNCHANGED <<mainThread, intent, taken>>

Running == {k \in DOMAIN coroutines : coroutines[k] # Off}
Executing == {k \in Connections : coroutines[k].at \notin {"off", "start", "delay"}}

\* Launching notes a talk coroutine that may overtake or overlap another one.
StartsCoroutine(k, h) ==
  /\ coroutines[k] = Off
  /\ coroutines' = [coroutines EXCEPT ![k] = [at |-> "start", h |-> h]]
  /\ crossed' = crossed \cup {c \in {"talk"} : Running # {} /\ (Running \cup {k}) \cap Talks # {}}
\* Beginning to run notes a connection coroutine that overlaps another one.
Begins == crossed' = crossed \cup {c \in {"connection"} : Executing # {}}
Steps(k, at) == coroutines' = [coroutines EXCEPT ![k].at = at]
Ends(k) == coroutines' = [coroutines EXCEPT ![k] = Off]

-----------------------------------------------------------------------------
(* MainActivity and the network *)

\* onCreate, or onNewIntent: attachExistingHandle.
ReceivesIntent ==
  /\ mainThread = Idle /\ intent # 0 /\ ~screen.finishing
  /\ screen' = [screen EXCEPT !.alive = TRUE]
  /\ StartsCoroutine("attach", intent)
  /\ intent' = 0
  /\ UNCHANGED <<nativeVars, capture, playback, polls, mainThread, events, taken>>

\* btnConnect with a relay's address: connect().
connect ==
  /\ ScreenEvent /\ screen.state \in {"Idle", "Error"}
  /\ screen' = [screen EXCEPT !.relay = TRUE]
  /\ StartsCoroutine("connect", 0)
  /\ UNCHANGED <<nativeVars, capture, playback, polls>>

\* btnHangUp: disconnect(), and the activity ends.
disconnect ==
  /\ ScreenEvent /\ screen.state = "Connected"
  /\ screen' = [screen EXCEPT !.finishing = TRUE]
  /\ StartsCoroutine("disconnect", 0)
  /\ UNCHANGED <<nativeVars, capture, playback, polls>>

pttPress ==
  /\ ScreenEvent /\ ~screen.down /\ screen.state = "Connected"
  /\ screen' = [screen EXCEPT !.down = TRUE]
  /\ IF screen.nativeHandle = 0 THEN UNCHANGED <<coroutines, crossed>>
     ELSE StartsCoroutine("press", screen.nativeHandle)
  /\ UNCHANGED <<nativeVars, capture, playback, polls>>

\* Letting go of the button is no event of its own.
pttRelease ==
  /\ mainThread = Idle /\ screen.alive /\ screen.down
  /\ screen' = [screen EXCEPT !.down = FALSE]
  /\ IF screen.nativeHandle = 0 \/ screen.state # "Connected" THEN UNCHANGED <<coroutines, crossed>>
     ELSE StartsCoroutine("release", screen.nativeHandle)
  /\ UNCHANGED <<nativeVars, capture, playback, polls, mainVars>>

\* networkCallback.onLost.  A press that it interrupts is noted.
onLost ==
  /\ screen.alive /\ events < MaxEvents /\ events' = events + 1
  /\ screen.state = "Connected"
  /\ coroutines["lost"] = Off
  /\ coroutines' = [coroutines EXCEPT !["lost"] = [at |-> "start", h |-> 0]]
  /\ crossed' = crossed \cup {c \in {"talk"} : screen.down \/ Running \cap Talks # {}}
  /\ UNCHANGED <<nativeVars, screen, capture, playback, polls, mainThread, intent, taken>>

\* networkCallback.onAvailable: reconnect(), which needs the address of a relay.
onAvailable ==
  /\ screen.alive /\ events < MaxEvents /\ events' = events + 1
  /\ screen.state \in {"Error", "Reconnecting"}
  /\ StartsCoroutine("reconnect", MaxAttempts)
  /\ UNCHANGED <<nativeVars, screen, capture, playback, polls, mainThread, intent, taken>>

-----------------------------------------------------------------------------
(* Connecting *)

startPlayback == playback' = IF playback = Off THEN [at |-> "loop", h |-> 0] ELSE playback

Connected ==
  /\ startPlayback
  /\ polls' = {"metrics", "monitor"}

AttachStarts ==
  /\ coroutines["attach"].at = "start"
  /\ screen' = [screen EXCEPT !.nativeHandle = coroutines["attach"].h]
  /\ Steps("attach", "id")
  /\ Begins
  /\ UNCHANGED <<nativeVars, capture, playback, polls, mainVars>>

Attached ==
  /\ coroutines["attach"].at = "id"
  /\ nativeGetSessionId(coroutines["attach"].h)
  /\ screen' = [screen EXCEPT !.state = "Connected"]
  /\ Connected
  /\ Ends("attach")
  /\ UNCHANGED <<capture, crossed, mainVars>>

\* reconnect() runs on the main thread: it suspends for the delay of each attempt, and
\* not for doConnect.
ReconnectDelays ==
  /\ coroutines["reconnect"].at = "start" /\ mainThread = Idle
  /\ IF screen.relay
     THEN screen' = [screen EXCEPT !.state = "Reconnecting"] /\ Steps("reconnect", "delay")
     ELSE Ends("reconnect") /\ UNCHANGED screen
  /\ UNCHANGED <<nativeVars, capture, playback, polls, crossed, mainVars>>

DoConnect(k) ==
  /\ IF k = "connect" THEN coroutines[k].at = "start" /\ UNCHANGED mainThread
     ELSE /\ coroutines[k].at = "delay" /\ mainThread = Idle
          /\ mainThread' = [at |-> "reconnect", h |-> 0]
  /\ screen' = [screen EXCEPT !.state = "Connecting"]
  /\ coroutines' = [coroutines EXCEPT ![k] =
       [at |-> "create", h |-> 0, left |-> IF k = "connect" THEN 1 ELSE coroutines[k].h]]
  /\ Begins
  /\ UNCHANGED <<nativeVars, capture, playback, polls, intent, events, taken>>

\* doConnect returns; reconnect() tries again unless the state says it is connected.
DoConnectReturns(k, state) ==
  /\ coroutines' = [coroutines EXCEPT ![k] =
       IF state = "Connected" \/ coroutines[k].left = 1 THEN Off
       ELSE [at |-> "delay", h |-> coroutines[k].left - 1]]
  /\ mainThread' = IF k = "connect" THEN mainThread ELSE Idle
  /\ UNCHANGED <<intent, events, taken>>

DoConnectCreates(k) ==
  /\ coroutines[k].at = "create"
  /\ \E h \in NewHandles :
       /\ nativeCreate(h)
       /\ IF h = 0
          THEN screen' = [screen EXCEPT !.state = "Error"] /\ DoConnectReturns(k, "Error")
          ELSE /\ screen' = [screen EXCEPT !.nativeHandle = h]
               /\ coroutines' = [coroutines EXCEPT ![k].at = "call", ![k].h = h]
               /\ UNCHANGED mainVars
  /\ UNCHANGED <<capture, playback, polls, crossed>>

DoConnectCalls(k) ==
  /\ coroutines[k].at = "call"
  /\ Enters(coroutines[k].h)
  /\ Steps(k, "calling")
  /\ UNCHANGED <<screen, capture, playback, polls, crossed, mainVars>>

DoConnectAnswered(k) ==
  /\ coroutines[k].at = "calling"
  /\ Leaves(coroutines[k].h)
  /\ \E status \in nativeConnect(coroutines[k].h) :
       Steps(k, IF status = "GS_OK" THEN "id" ELSE "fail")
  /\ UNCHANGED <<screen, capture, playback, polls, crossed, mainVars>>

DoConnectSucceeds(k) ==
  /\ coroutines[k].at = "id"
  /\ nativeGetSessionId(coroutines[k].h)
  /\ screen' = [screen EXCEPT !.state = "Connected"]
  /\ Connected
  /\ DoConnectReturns(k, "Connected")
  /\ UNCHANGED <<capture, crossed>>

DoConnectDestroys(k) ==
  /\ coroutines[k].at = "fail"
  /\ nativeDestroy(coroutines[k].h)
  /\ taken' = taken \cup {coroutines[k].h}
  /\ Steps(k, "failed")
  /\ UNCHANGED <<screen, capture, playback, polls, crossed, mainThread, intent, events>>

\* Mutant: the field keeps the handle of the session that did not connect.
FailureKeepsHandle(k) ==
  /\ coroutines[k].at = "failed"
  /\ screen' = [screen EXCEPT !.state = "Error"]
  /\ DoConnectReturns(k, "Error")
  /\ UNCHANGED <<nativeVars, capture, playback, polls, crossed>>

DoConnectFails(k) ==
  /\ coroutines[k].at = "failed"
  /\ screen' = [screen EXCEPT !.nativeHandle = 0, !.state = "Error"]
  /\ DoConnectReturns(k, "Error")
  /\ UNCHANGED <<nativeVars, capture, playback, polls, crossed>>

-----------------------------------------------------------------------------
(* Talking *)

startCapture == capture' = IF capture.job THEN capture
                           ELSE [job |-> TRUE, loops |-> capture.loops + 1]

\* The loop goes on until it sees isPttActive, unless it has not started yet.
stopCapture ==
  capture' \in {[job |-> FALSE, loops |-> n] :
                  n \in {capture.loops} \cup (IF capture.job THEN {capture.loops - 1} ELSE {})}

PressStarts ==
  /\ coroutines["press"].at = "start"
  /\ nativePttPress(coroutines["press"].h)
  /\ screen' = [screen EXCEPT !.wakeLock = TRUE]
  /\ Steps("press", "pressed")
  /\ UNCHANGED <<capture, playback, polls, crossed, mainVars>>

PressCaptures ==
  /\ coroutines["press"].at = "pressed"
  /\ screen' = [screen EXCEPT !.active = TRUE]
  /\ startCapture
  /\ Ends("press")
  /\ UNCHANGED <<nativeVars, playback, polls, crossed, mainVars>>

ReleaseStops ==
  /\ coroutines["release"].at = "start"
  /\ stopCapture
  /\ nativePttRelease(coroutines["release"].h)
  /\ Steps("release", "released")
  /\ UNCHANGED <<screen, playback, polls, crossed, mainVars>>

\* Mutant: the flag is left to the capture loop.
ReleaseKeepsActive ==
  /\ coroutines["release"].at = "released"
  /\ screen' = [screen EXCEPT !.wakeLock = FALSE]
  /\ Ends("release")
  /\ UNCHANGED <<nativeVars, capture, playback, polls, crossed, mainVars>>

ReleaseEnds ==
  /\ coroutines["release"].at = "released"
  /\ screen' = [screen EXCEPT !.active = FALSE, !.wakeLock = FALSE]
  /\ Ends("release")
  /\ UNCHANGED <<nativeVars, capture, playback, polls, crossed, mainVars>>

CaptureSends ==
  /\ capture.loops > 0 /\ screen.active /\ screen.nativeHandle # 0
  /\ nativeSendAudio(screen.nativeHandle)
  /\ UNCHANGED <<screenVars, mainVars>>

CaptureEnds ==
  /\ capture.loops > 0 /\ (~screen.active \/ screen.nativeHandle = 0)
  /\ capture' \in {[job |-> j, loops |-> capture.loops - 1] :
                     j \in {FALSE} \cup (IF capture.loops > 1 THEN {capture.job} ELSE {})}
  /\ UNCHANGED <<nativeVars, screen, coroutines, playback, polls, crossed, mainVars>>

-----------------------------------------------------------------------------
(* The loops of a connection *)

PlaybackReads ==
  /\ playback.at = "loop"
  /\ IF screen.nativeHandle = 0 THEN playback' = Off /\ UNCHANGED nativeVars
     ELSE Enters(screen.nativeHandle) /\ playback' = [at |-> "call", h |-> screen.nativeHandle]
  /\ UNCHANGED <<screen, coroutines, capture, polls, crossed, mainVars>>

PlaybackWrites ==
  /\ playback.at = "call"
  /\ Leaves(playback.h)
  /\ \E answer \in nativeRecvAudio(playback.h) :
       playback' = IF answer = "null" THEN Off ELSE [at |-> "loop", h |-> 0]
  /\ UNCHANGED <<screen, coroutines, capture, polls, crossed, mainVars>>

MetricsPolls ==
  /\ "metrics" \in polls
  /\ nativeGetMetrics(screen.nativeHandle)
  /\ polls' = IF screen.nativeHandle = 0 THEN polls \ {"metrics"} ELSE polls
  /\ UNCHANGED <<screen, coroutines, capture, playback, crossed, mainVars>>

MonitorPolls ==
  /\ "monitor" \in polls
  /\ nativeIsPeerPttActive(screen.nativeHandle)
  /\ polls' = IF screen.nativeHandle = 0 THEN polls \ {"monitor"} ELSE polls
  /\ UNCHANGED <<screen, coroutines, capture, playback, crossed, mainVars>>

-----------------------------------------------------------------------------
(* Disconnecting: disconnect(), the coroutine of onLost, and onCleared *)

\* stopAllTasks, and destroyNative reads the field.
stopAllTasks ==
  /\ stopCapture
  /\ polls' = {}
  /\ playback' \in {playback} \cup (IF playback.at = "loop" THEN {Off} ELSE {})
  /\ taken' = taken \cup {screen.nativeHandle}

DisconnectStarts(k) ==
  /\ k \in {"disconnect", "lost"} /\ coroutines[k].at = "start"
  /\ screen' = IF k = "lost" THEN [screen EXCEPT !.state = "Reconnecting"] ELSE screen
  /\ stopAllTasks
  /\ coroutines' = [coroutines EXCEPT ![k] =
       [at |-> IF screen.nativeHandle = 0 THEN "done" ELSE "close", h |-> screen.nativeHandle]]
  /\ Begins
  /\ UNCHANGED <<nativeVars, mainThread, intent, events>>

\* The finished activity is destroyed; coroutines that have not started, or that are in
\* a delay, are cancelled.
ScreenCleared ==
  /\ mainThread = Idle /\ screen.alive /\ screen.finishing
  /\ screen' = [screen EXCEPT !.alive = FALSE, !.down = FALSE]
  /\ stopAllTasks
  /\ mainThread' = [at |-> "screen", h |-> 0]
  /\ coroutines' = [k \in DOMAIN coroutines |->
       IF k = "cleared"
       THEN [at |-> IF screen.nativeHandle = 0 THEN "done" ELSE "close", h |-> screen.nativeHandle]
       ELSE IF coroutines[k].at \in {"start", "delay"} THEN Off ELSE coroutines[k]]
  /\ Begins
  /\ UNCHANGED <<nativeVars, intent, events>>

DestroyNativeCloses(k) ==
  /\ coroutines[k].at = "close"
  /\ nativeClose(coroutines[k].h)
  /\ Steps(k, "destroy")
  /\ UNCHANGED <<screen, capture, playback, polls, crossed, mainVars>>

DestroyNativeDestroys(k) ==
  /\ coroutines[k].at = "destroy"
  /\ nativeDestroy(coroutines[k].h)
  /\ Steps(k, "zero")
  /\ UNCHANGED <<screen, capture, playback, polls, crossed, mainVars>>

DestroyNativeResets(k) ==
  /\ coroutines[k].at = "zero"
  /\ screen' = [screen EXCEPT !.nativeHandle = 0]
  /\ Steps(k, "done")
  /\ UNCHANGED <<nativeVars, capture, playback, polls, crossed, mainVars>>

Disconnected(k) ==
  /\ coroutines[k].at = "done"
  /\ screen' = CASE k = "disconnect" ->
                      [screen EXCEPT !.active = FALSE, !.state = "Idle", !.wakeLock = FALSE]
                 [] k = "cleared" -> [screen EXCEPT !.wakeLock = FALSE]
                 [] k = "lost" -> screen
  /\ mainThread' = IF k = "cleared" THEN Idle ELSE mainThread
  /\ Ends(k)
  /\ UNCHANGED <<nativeVars, capture, playback, polls, crossed, intent, events, taken>>

ScreenNext ==
  \/ ReceivesIntent \/ connect \/ disconnect \/ pttPress \/ pttRelease
  \/ onLost \/ onAvailable \/ AttachStarts \/ Attached \/ ReconnectDelays
  \/ \E k \in {"connect", "reconnect"} :
       \/ DoConnect(k) \/ DoConnectCreates(k) \/ DoConnectCalls(k) \/ DoConnectAnswered(k)
       \/ DoConnectSucceeds(k) \/ DoConnectDestroys(k) \/ DoConnectFails(k)
  \/ PressStarts \/ PressCaptures \/ ReleaseStops \/ ReleaseEnds
  \/ CaptureSends \/ CaptureEnds \/ PlaybackReads \/ PlaybackWrites
  \/ MetricsPolls \/ MonitorPolls \/ ScreenCleared
  \/ \E k \in {"disconnect", "lost", "cleared"} :
       \/ DisconnectStarts(k) \/ DestroyNativeCloses(k) \/ DestroyNativeDestroys(k)
       \/ DestroyNativeResets(k) \/ Disconnected(k)

-----------------------------------------------------------------------------
\* With no coroutine under way, PttViewModel has a session if its state is Connected,
\* and nothing of PttViewModel has destroyed the session it has: after lost networks,
\* failed and repeated attempts, a connect() whose check of the state was stale, hanging
\* up during a press.  (PairingViewModel.onCleared does destroy it.)  Connection
\* coroutines that ran at the same time are the exception.
HoldsLiveSession ==
  Running = {} /\ screen.alive /\ "connection" \notin crossed =>
    LET h == screen.nativeHandle
    IN IF h = 0 THEN screen.state # "Connected" ELSE native[h] = "freed" => ends[h] > 0

\* With no coroutine under way and the button up, nobody talks and the wake lock is
\* free.  The exceptions are a press or a release whose coroutine was launched beside
\* another one, and a network lost while the button was down.
SilentAfterRelease ==
  Running = {} /\ screen.alive /\ ~screen.down /\ "talk" \notin crossed =>
    ~screen.active /\ ~screen.wakeLock
=============================================================================
