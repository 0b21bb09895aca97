------------------------------- MODULE PttCli -------------------------------
(***************************************************************************)
(* `gs ptt` (gravital-talk-cli, cmd_ptt and ptt_ui_loop): the loop that    *)
(* connects, runs the terminal and reconnects, and the workers it starts   *)
(* for connection c: a task that receives, an operating system thread that *)
(* captures the microphone and a task that sends what a bounded channel    *)
(* brings from the thread.  The flags ptt_on and quit are shared by the    *)
(* workers of every connection; the channel and the session are its own.   *)
(*                                                                         *)
(* The handshake and close() are single steps: Session has them in detail. *)
(* Samples are not told apart, the channel is the number it holds.         *)
(***************************************************************************)
EXTENDS Integers

CONSTANTS
  MaxConns,   \* bound on the connections made
  Bridge      \* capacity of the sample channel, 4 in the code

ASSUME PttAssumption == MaxConns \in Nat \ {0} /\ Bridge \in Nat

Conns == 1 .. MaxConns

VARIABLES
  main,                \* where cmd_ptt is
  ui_result,           \* what ptt_ui_loop returned
  conn,                \* the current connection, 0 before the first
  ptt_on, quit,        \* the shared flags
  disc,                \* disc[c]: the receiver has signalled a disconnection
  rcv, thr, snd,       \* receiving task, capture thread, sending task
  mic,                 \* mic[c]: the thread holds an open AudioCapture
  bridge,              \* bridge[c]: samples in the channel
  active,              \* active[c]: the session is Active
  late,                \* frames sent since ptt_on was last cleared
  keyed, talked        \* connections the user pressed on, that carried audio

mainVars == <<main, conn, ui_result>>
flagVars == <<ptt_on, quit>>
thrVars == <<thr, mic>>
histVars == <<late, keyed, talked>>
vars == <<mainVars, flagVars, disc, rcv, thrVars, snd, bridge, active, histVars>>

Init ==
  /\ main = "connect" /\ conn = 0 /\ ui_result = "none"
  /\ ptt_on = FALSE /\ quit = FALSE
  /\ disc = [c \in Conns |-> FALSE]
  /\ rcv = [c \in Conns |-> "none"]
  /\ thr = [c \in Conns |-> "none"] /\ mic = [c \in Conns |-> FALSE]
  /\ snd = [c \in Conns |-> "none"]
  /\ bridge = [c \in Conns |-> 0]
  /\ active = [c \in Conns |-> FALSE]
  /\ late = 0 /\ keyed = {} /\ talked = {}

-----------------------------------------------------------------------------
(* cmd_ptt: the reconnection loop *)

\* A fresh socket and session, the handshake succeeds, the workers start.
Connect ==
  /\ main = "connect" /\ conn < MaxConns
  /\ conn' = conn + 1
  /\ main' = "ui"
  /\ active' = [active EXCEPT ![conn + 1] = TRUE]
  /\ rcv' = [rcv EXCEPT ![conn + 1] = "loop"]
  /\ thr' = [thr EXCEPT ![conn + 1] = "loop"]
  /\ snd' = [snd EXCEPT ![conn + 1] = "loop"]
  /\ UNCHANGED <<ui_result, flagVars, disc, mic, bridge, histVars>>

\* The handshake fails: sleep for the backoff and try again.
HandshakeFails == main = "connect" /\ main' = "backoff" /\ UNCHANGED <<conn, ui_result,
  flagVars, disc, rcv, thrVars, snd, bridge, active, histVars>>

Backoff == main = "backoff" /\ main' = "connect" /\ UNCHANGED <<conn, ui_result,
  flagVars, disc, rcv, thrVars, snd, bridge, active, histVars>>

\* No socket or no codec: the command ends.
BindFails == main = "connect" /\ main' = "done" /\ UNCHANGED <<conn, ui_result,
  flagVars, disc, rcv, thrVars, snd, bridge, active, histVars>>

\* The terminal loop has returned: both tasks are aborted.  A task is cancelled
\* where it waits; one that is just sending may still finish.
Abort ==
  /\ main = "abort"
  /\ main' = "clear"
  /\ rcv' = [rcv EXCEPT ![conn] = "ended"]
  /\ snd' = [snd EXCEPT ![conn] = IF @ = "holding" THEN "aborted" ELSE "ended"]
  /\ UNCHANGED <<conn, ui_result, flagVars, disc, thrVars, bridge, active, histVars>>

\* Mutant: the flag survives the connection.
ClearPttForgotten ==
  /\ main = "clear"
  /\ main' = "close"
  /\ UNCHANGED <<conn, ui_result, flagVars, disc, rcv, thrVars, snd, bridge, active,
                 histVars>>

ClearPtt ==
  /\ main = "clear"
  /\ main' = "close"
  /\ ptt_on' = FALSE
  /\ late' = IF ptt_on THEN 0 ELSE late
  /\ UNCHANGED <<conn, ui_result, quit, disc, rcv, thrVars, snd, bridge, active,
                 keyed, talked>>

\* ptt_release() gives the floor back, close() ends the session; the loop goes
\* round for PttUiResult::Reconnect and ends otherwise.
Close ==
  /\ main = "close"
  /\ main' = IF ui_result = "Reconnect" THEN "connect" ELSE "done"
  /\ active' = [active EXCEPT ![conn] = FALSE]
  /\ UNCHANGED <<conn, ui_result, flagVars, disc, rcv, thrVars, snd, bridge, histVars>>

-----------------------------------------------------------------------------
(* ptt_ui_loop *)

Leave(result) ==
  /\ main = "ui"
  /\ main' = "abort"
  /\ ui_result' = result
  /\ UNCHANGED <<conn, ptt_on, disc, rcv, thrVars, snd, bridge, active, histVars>>

\* disc_rx.try_recv() is looked at in every round, after it two seconds of sleep.
Disconnected == Leave("Reconnect") /\ disc[conn] /\ UNCHANGED quit

\* The key q, or control-c, which is a key in raw mode.
KeyQuit == Leave("Quit") /\ quit' = TRUE

\* The terminal fails.
UiFails == Leave("Err") /\ UNCHANGED quit

\* The space bar flips the flag ...
KeyToggle ==
  /\ main = "ui"
  /\ main' = "toggled"
  /\ ptt_on' = ~ptt_on
  /\ late' = 0
  /\ keyed' = IF ptt_on THEN keyed ELSE keyed \cup {conn}
  /\ UNCHANGED <<conn, ui_result, quit, disc, rcv, thrVars, snd, bridge, active, talked>>

\* ... and then calls ptt_press() or ptt_release() of the session.
PttCall ==
  /\ main = "toggled"
  /\ main' = "ui"
  /\ UNCHANGED <<conn, ui_result, flagVars, disc, rcv, thrVars, snd, bridge, active,
                 histVars>>

-----------------------------------------------------------------------------
(* The capture thread of connection c.  It lives until quit is set. *)

ThreadQuits(c) ==
  /\ thr[c] = "loop" /\ quit
  /\ thr' = [thr EXCEPT ![c] = "ended"] /\ mic' = [mic EXCEPT ![c] = FALSE]
  /\ UNCHANGED <<mainVars, flagVars, disc, rcv, snd, bridge, active, histVars>>

\* ptt_on is off: the microphone is closed.
ThreadIdles(c) ==
  /\ thr[c] = "loop" /\ ~quit /\ ~ptt_on
  /\ mic' = [mic EXCEPT ![c] = FALSE]
  /\ UNCHANGED <<mainVars, flagVars, disc, rcv, thr, snd, bridge, active, histVars>>

\* Mutant: an open microphone is read on without a look at the flag.
ThreadSeesPttOnce(c) ==
  /\ thr[c] = "loop" /\ ~quit /\ (ptt_on \/ mic[c])
  /\ thr' = [thr EXCEPT ![c] = "on"]
  /\ UNCHANGED <<mainVars, flagVars, disc, rcv, mic, snd, bridge, active, histVars>>

ThreadSeesPtt(c) ==
  /\ thr[c] = "loop" /\ ~quit /\ ptt_on
  /\ thr' = [thr EXCEPT ![c] = "on"]
  /\ UNCHANGED <<mainVars, flagVars, disc, rcv, mic, snd, bridge, active, histVars>>

\* AudioCapture::start, unless it runs already; it may fail.
ThreadOpensMic(c) ==
  /\ thr[c] = "on" /\ ~mic[c]
  /\ \/ mic' = [mic EXCEPT ![c] = TRUE] /\ UNCHANGED thr
     \/ thr' = [thr EXCEPT ![c] = "loop"] /\ UNCHANGED mic
  /\ UNCHANGED <<mainVars, flagVars, disc, rcv, snd, bridge, active, histVars>>

\* rx.try_recv(): samples, none yet, or the device is gone.
ThreadReadsMic(c) ==
  /\ thr[c] = "on" /\ mic[c]
  /\ \/ thr' = [thr EXCEPT ![c] = "sample"] /\ UNCHANGED mic
     \/ thr' = [thr EXCEPT ![c] = "loop"] /\ UNCHANGED mic
     \/ thr' = [thr EXCEPT ![c] = "loop"] /\ mic' = [mic EXCEPT ![c] = FALSE]
  /\ UNCHANGED <<mainVars, flagVars, disc, rcv, snd, bridge, active, histVars>>

\* Mutant: a channel without a bound.
ThreadForwardsAlways(c) ==
  /\ thr[c] = "sample"
  /\ thr' = [thr EXCEPT ![c] = "loop"]
  /\ bridge' = [bridge EXCEPT ![c] = IF snd[c] \in {"loop", "holding"} THEN @ + 1 ELSE @]
  /\ UNCHANGED <<mainVars, flagVars, disc, rcv, mic, snd, active, histVars>>

\* sample_bridge_tx.try_send(): the samples are dropped when the channel is full or
\* the sending task, which owns the other end, is gone.
ThreadForwards(c) ==
  /\ thr[c] = "sample"
  /\ thr' = [thr EXCEPT ![c] = "loop"]
  /\ bridge' = [bridge EXCEPT ![c] =
                  IF @ < Bridge /\ snd[c] \in {"loop", "holding"} THEN @ + 1 ELSE @]
  /\ UNCHANGED <<mainVars, flagVars, disc, rcv, mic, snd, active, histVars>>

-----------------------------------------------------------------------------
(* The tasks of connection c *)

SenderTakes(c) ==
  /\ snd[c] = "loop" /\ ~quit /\ bridge[c] > 0
  /\ snd' = [snd EXCEPT ![c] = "holding"]
  /\ bridge' = [bridge EXCEPT ![c] = @ - 1]
  /\ UNCHANGED <<mainVars, flagVars, disc, rcv, thrVars, active, histVars>>

\* send_samples(): a frame goes out while the session is Active; an error is ignored.
SenderSends(c) ==
  /\ snd[c] \in {"holding", "aborted"}
  /\ snd' = [snd EXCEPT ![c] = IF @ = "holding" THEN "loop" ELSE "ended"]
  /\ \/ /\ active[c]
        /\ talked' = talked \cup {c}
        /\ late' = IF ptt_on THEN late ELSE late + 1
     \/ UNCHANGED <<talked, late>>
  /\ UNCHANGED <<mainVars, flagVars, disc, rcv, thrVars, bridge, active, keyed>>

\* quit is set, or the thread has ended and the channel is empty.
SenderEnds(c) ==
  /\ snd[c] = "loop"
  /\ quit \/ (thr[c] = "ended" /\ bridge[c] = 0)
  /\ snd' = [snd EXCEPT ![c] = "ended"]
  /\ UNCHANGED <<mainVars, flagVars, disc, rcv, thrVars, bridge, active, histVars>>

\* Mutant: the task ends without a word.
ReceiverFailsSilently(c) ==
  /\ rcv[c] = "loop"
  /\ rcv' = [rcv EXCEPT ![c] = "ended"]
  /\ active' \in {active, [active EXCEPT ![c] = FALSE]}
  /\ UNCHANGED <<mainVars, flagVars, disc, thrVars, snd, bridge, histVars>>

\* recv_samples() fails: the peer's Close, which ends the session, or the socket.
ReceiverFails(c) ==
  /\ rcv[c] = "loop"
  /\ rcv' = [rcv EXCEPT ![c] = "ended"]
  /\ disc' = [disc EXCEPT ![c] = TRUE]
  /\ active' \in {active, [active EXCEPT ![c] = FALSE]}
  /\ UNCHANGED <<mainVars, flagVars, thrVars, snd, bridge,
                 histVars>>

ReceiverQuits(c) ==
  /\ rcv[c] = "loop" /\ quit
  /\ rcv' = [rcv EXCEPT ![c] = "ended"]
  /\ UNCHANGED <<mainVars, flagVars, disc, thrVars, snd, bridge, active, histVars>>

-----------------------------------------------------------------------------
Main ==
  \/ Connect \/ HandshakeFails \/ Backoff \/ BindFails \/ Abort \/ ClearPtt \/ Close
  \/ Disconnected \/ KeyQuit \/ UiFails \/ KeyToggle \/ PttCall

Workers(c) ==
  \/ ThreadQuits(c) \/ ThreadIdles(c) \/ ThreadSeesPtt(c) \/ ThreadOpensMic(c)
  \/ ThreadReadsMic(c) \/ ThreadForwards(c)
  \/ SenderTakes(c) \/ SenderSends(c) \/ SenderEnds(c)
  \/ ReceiverFails(c) \/ ReceiverQuits(c)

\* The process and its threads are gone once the command has returned.
Next == Main \/ (main # "done" /\ \E c \in Conns : Workers(c))

Spec == Init /\ [][Next]_vars

\* The terminal loop looks at the signal in every round, and what follows it never
\* waits for ever.
FairSpec ==
  /\ Spec
  /\ SF_vars(Disconnected)
  /\ WF_vars(PttCall) /\ WF_vars(Abort) /\ WF_vars(ClearPtt) /\ WF_vars(Close)

-----------------------------------------------------------------------------
TypeOK ==
  /\ main \in {"connect", "backoff", "ui", "toggled", "abort", "clear", "close", "done"}
  /\ conn \in 0 .. MaxConns
  /\ (main \notin {"connect", "backoff", "done"}) => conn # 0
  /\ ui_result \in {"none", "Quit", "Reconnect", "Err"}
  /\ ptt_on \in BOOLEAN /\ quit \in BOOLEAN
  /\ disc \in [Conns -> BOOLEAN] /\ mic \in [Conns -> BOOLEAN]
  /\ rcv \in [Conns -> {"none", "loop", "ended"}]
  /\ thr \in [Conns -> {"none", "loop", "on", "sample", "ended"}]
  /\ snd \in [Conns -> {"none", "loop", "holding", "aborted", "ended"}]
  /\ bridge \in [Conns -> 0 .. Bridge]
  /\ active \in [Conns -> BOOLEAN]
  /\ late \in Nat /\ keyed \subseteq Conns /\ talked \subseteq Conns

\* Once the flag is off, at most the samples of the full channel, the one the thread
\* has read and the one the task holds are still sent: audio that follows the
\* FloorRelease has a bound.
LateAudioBounded == late <= Bridge + 2

\* A connection carries no audio before the user has pressed the key on it, also when
\* the key was on as the connection before it broke, whose thread still runs.
SilentUntilPressed == talked \subseteq keyed

\* When the receiving task of a connection has ended, the terminal loop leaves that
\* connection: it never stays with a receiver that is gone.
DeadConnectionLeft ==
  \A c \in Conns :
    (conn = c /\ rcv[c] = "ended") ~> (conn # c \/ main \in {"connect", "backoff", "done"})
=============================================================================
