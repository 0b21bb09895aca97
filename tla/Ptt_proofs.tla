----------------------------- MODULE Ptt_proofs -----------------------------
(***************************************************************************)
(* Theorems about push-to-talk: the loop of `gs ptt` with its workers, and *)
(* the flags of two sessions and the floor between them.                   *)
(***************************************************************************)
EXTENDS Ptt, PttCli, SequenceTheorems, TLAPS

-----------------------------------------------------------------------------
(* The loop of gs ptt *)

\* Frames that may still go out on connection c without another look at ptt_on: those
\* in the channel, the one the task holds, the one the thread is about to read or has.
Held(c) == IF snd[c] \in {"holding", "aborted"} THEN 1 ELSE 0
Read(c) == IF thr[c] \in {"on", "sample"} THEN 1 ELSE 0
Pending(c) == bridge[c] + Held(c) + Read(c)

\* Only the current connection can be Active, and it is not between connections.
\* The workers of later connections have not started.
ActiveInv ==
  /\ \A c \in Conns : active[c] => c = conn /\ main \notin {"connect", "backoff", "done"}
  /\ \A c \in Conns : c > conn => thr[c] = "none" /\ snd[c] = "none" /\ bridge[c] = 0

\* What has been sent late and what can still be sent late.
LateInv ==
  /\ ptt_on => late = 0
  /\ late <= Bridge + 2
  /\ \A c \in Conns : c = conn /\ ~ptt_on => late + Pending(c) <= Bridge + 2

\* The flag is on, and samples are on their way, only after a press.
PressInv ==
  /\ ptt_on => main \in {"ui", "toggled", "abort", "clear"} /\ conn \in keyed
  /\ \A c \in Conns : c = conn /\ Pending(c) > 0 => c \in keyed
  /\ talked \subseteq keyed

IInv == TypeOK /\ ActiveInv /\ LateInv /\ PressInv

\* The inductive invariant holds initially.
LEMMA InitIInv == Init => IInv
<1> SUFFICES ASSUME Init PROVE IInv
  OBVIOUS
<1>1. TypeOK
  <2>1. bridge \in [Conns -> 0 .. Bridge] /\ conn \in 0 .. MaxConns /\ late \in Nat
    BY PttAssumption DEF Init
  <2> QED
    BY <2>1, Zenon DEF Init, TypeOK
<1>2. ActiveInv
  BY PttAssumption DEF Init, ActiveInv, Conns
<1>3. LateInv
  BY PttAssumption DEF Init, LateInv, Conns
<1>4. PressInv
  BY PttAssumption DEF Init, PressInv, Conns
<1> QED
  BY <1>1, <1>2, <1>3, <1>4 DEF IInv

\* The steps of cmd_ptt and of the terminal loop preserve it.
LEMMA MainIInv == IInv /\ Main => IInv'
<1> SUFFICES ASSUME IInv, Main PROVE IInv'
  OBVIOUS
<1>1. CASE Connect
  <2>1. TypeOK'
    BY SMTT(60), <1>1, PttAssumption DEF IInv, TypeOK, Connect, Conns, mainVars, flagVars,
       thrVars, histVars
  <2>2. ActiveInv'
    BY <1>1, PttAssumption DEF IInv, TypeOK, ActiveInv, Connect, Conns, mainVars,
       flagVars, thrVars, histVars
  <2>3. LateInv'
    BY <1>1, PttAssumption DEF IInv, TypeOK, ActiveInv, LateInv, Pending, Held, Read,
       Connect, Conns, mainVars, flagVars, thrVars, histVars
  <2>4. PressInv'
    BY <1>1, PttAssumption DEF IInv, TypeOK, ActiveInv, PressInv, Pending, Held, Read,
       Connect, Conns, mainVars, flagVars, thrVars, histVars
  <2> QED
    BY <2>1, <2>2, <2>3, <2>4 DEF IInv
<1>2. CASE HandshakeFails
  <2>1. TypeOK'
    BY <1>2, PttAssumption DEF IInv, TypeOK, HandshakeFails, Conns, mainVars, flagVars,
       thrVars, histVars
  <2>2. ActiveInv'
    BY <1>2, PttAssumption DEF IInv, TypeOK, ActiveInv, HandshakeFails, Conns, mainVars,
       flagVars, thrVars, histVars
  <2>3. LateInv'
    BY <1>2, PttAssumption DEF IInv, TypeOK, ActiveInv, LateInv, Pending, Held, Read,
       HandshakeFails, Conns, mainVars, flagVars, thrVars, histVars
  <2>4. PressInv'
    BY <1>2, PttAssumption DEF IInv, TypeOK, ActiveInv, PressInv, Pending, Held, Read,
       HandshakeFails, Conns, mainVars, flagVars, thrVars, histVars
  <2> QED
    BY <2>1, <2>2, <2>3, <2>4 DEF IInv
<1>3. CASE Backoff
  <2>1. TypeOK'
    BY <1>3, PttAssumption DEF IInv, TypeOK, Backoff, Conns, mainVars, flagVars,
       thrVars, histVars
  <2>2. ActiveInv'
    BY <1>3, PttAssumption DEF IInv, TypeOK, ActiveInv, Backoff, Conns, mainVars,
       flagVars, thrVars, histVars
  <2>3. LateInv'
    BY <1>3, PttAssumption DEF IInv, TypeOK, ActiveInv, LateInv, Pending, Held, Read,
       Backoff, Conns, mainVars, flagVars, thrVars, histVars
  <2>4. PressInv'
    BY <1>3, PttAssumption DEF IInv, TypeOK, ActiveInv, PressInv, Pending, Held, Read,
       Backoff, Conns, mainVars, flagVars, thrVars, histVars
  <2> QED
    BY <2>1, <2>2, <2>3, <2>4 DEF IInv
<1>4. CASE BindFails
  <2>1. TypeOK'
    BY <1>4, PttAssumption DEF IInv, TypeOK, BindFails, Conns, mainVars, flagVars,
       thrVars, histVars
  <2>2. ActiveInv'
    BY <1>4, PttAssumption DEF IInv, TypeOK, ActiveInv, BindFails, Conns, mainVars,
       flagVars, thrVars, histVars
  <2>3. LateInv'
    BY <1>4, PttAssumption DEF IInv, TypeOK, ActiveInv, LateInv, Pending, Held, Read,
       BindFails, Conns, mainVars, flagVars, thrVars, histVars
  <2>4. PressInv'
    BY <1>4, PttAssumption DEF IInv, TypeOK, ActiveInv, PressInv, Pending, Held, Read,
       BindFails, Conns, mainVars, flagVars, thrVars, histVars
  <2> QED
    BY <2>1, <2>2, <2>3, <2>4 DEF IInv
<1>5. CASE Abort
  <2>1. TypeOK'
    BY <1>5, PttAssumption DEF IInv, TypeOK, Abort, Conns, mainVars, flagVars, thrVars,
       histVars
  <2>2. ActiveInv'
    BY <1>5, PttAssumption DEF IInv, TypeOK, ActiveInv, Abort, Conns, mainVars,
       flagVars, thrVars, histVars
  <2>3. LateInv'
    BY SMTT(60), <1>5, PttAssumption DEF IInv, TypeOK, ActiveInv, LateInv, Pending, Held, Read,
       Abort, Conns, mainVars, flagVars, thrVars, histVars
  <2>4. PressInv'
    BY <1>5, PttAssumption DEF IInv, TypeOK, ActiveInv, PressInv, Pending, Held, Read,
       Abort, Conns, mainVars, flagVars, thrVars, histVars
  <2> QED
    BY <2>1, <2>2, <2>3, <2>4 DEF IInv
<1>6. CASE ClearPtt
  <2>1. TypeOK'
    BY Zenon, <1>6, PttAssumption DEF IInv, TypeOK, ClearPtt, Conns, mainVars, flagVars,
       thrVars, histVars
  <2>2. ActiveInv'
    BY <1>6, PttAssumption DEF IInv, TypeOK, ActiveInv, ClearPtt, Conns, mainVars,
       flagVars, thrVars, histVars
  <2>3. LateInv'
    BY SMTT(60), <1>6, PttAssumption DEF IInv, TypeOK, ActiveInv, LateInv, Pending, Held, Read,
       ClearPtt, Conns, mainVars, flagVars, thrVars, histVars
  <2>4. PressInv'
    BY <1>6, PttAssumption DEF IInv, TypeOK, ActiveInv, PressInv, Pending, Held, Read,
       ClearPtt, Conns, mainVars, flagVars, thrVars, histVars
  <2> QED
    BY <2>1, <2>2, <2>3, <2>4 DEF IInv
<1>7. CASE Close
  <2>1. TypeOK'
    BY <1>7, PttAssumption DEF IInv, TypeOK, Close, Conns, mainVars, flagVars, thrVars,
       histVars
  <2>2. ActiveInv'
    BY <1>7, PttAssumption DEF IInv, TypeOK, ActiveInv, Close, Conns, mainVars,
       flagVars, thrVars, histVars
  <2>3. LateInv'
    BY <1>7, PttAssumption DEF IInv, TypeOK, ActiveInv, LateInv, Pending, Held, Read,
       Close, Conns, mainVars, flagVars, thrVars, histVars
  <2>4. PressInv'
    BY <1>7, PttAssumption DEF IInv, TypeOK, ActiveInv, PressInv, Pending, Held, Read,
       Close, Conns, mainVars, flagVars, thrVars, histVars
  <2> QED
    BY <2>1, <2>2, <2>3, <2>4 DEF IInv
<1>8. CASE Disconnected
  <2>1. TypeOK'
    BY <1>8, PttAssumption DEF IInv, TypeOK, Disconnected, Leave, Conns, mainVars,
       flagVars, thrVars, histVars
  <2>2. ActiveInv'
    BY <1>8, PttAssumption DEF IInv, TypeOK, ActiveInv, Disconnected, Leave, Conns,
       mainVars, flagVars, thrVars, histVars
  <2>3. LateInv'
    BY <1>8, PttAssumption DEF IInv, TypeOK, ActiveInv, LateInv, Pending, Held, Read,
       Disconnected, Leave, Conns, mainVars, flagVars, thrVars, histVars
  <2>4. PressInv'
    BY <1>8, PttAssumption DEF IInv, TypeOK, ActiveInv, PressInv, Pending, Held, Read,
       Disconnected, Leave, Conns, mainVars, flagVars, thrVars, histVars
  <2> QED
    BY <2>1, <2>2, <2>3, <2>4 DEF IInv
<1>9. CASE KeyQuit
  <2>1. TypeOK'
    BY <1>9, PttAssumption DEF IInv, TypeOK, KeyQuit, Leave, Conns, mainVars, flagVars,
       thrVars, histVars
  <2>2. ActiveInv'
    BY <1>9, PttAssumption DEF IInv, TypeOK, ActiveInv, KeyQuit, Leave, Conns, mainVars,
       flagVars, thrVars, histVars
  <2>3. LateInv'
    BY <1>9, PttAssumption DEF IInv, TypeOK, ActiveInv, LateInv, Pending, Held, Read,
       KeyQuit, Leave, Conns, mainVars, flagVars, thrVars, histVars
  <2>4. PressInv'
    BY <1>9, PttAssumption DEF IInv, TypeOK, ActiveInv, PressInv, Pending, Held, Read,
       KeyQuit, Leave, Conns, mainVars, flagVars, thrVars, histVars
  <2> QED
    BY <2>1, <2>2, <2>3, <2>4 DEF IInv
<1>10. CASE UiFails
  <2>1. TypeOK'
    BY <1>10, PttAssumption DEF IInv, TypeOK, UiFails, Leave, Conns, mainVars, flagVars,
       thrVars, histVars
  <2>2. ActiveInv'
    BY <1>10, PttAssumption DEF IInv, TypeOK, ActiveInv, UiFails, Leave, Conns,
       mainVars, flagVars, thrVars, histVars
  <2>3. LateInv'
    BY <1>10, PttAssumption DEF IInv, TypeOK, ActiveInv, LateInv, Pending, Held, Read,
       UiFails, Leave, Conns, mainVars, flagVars, thrVars, histVars
  <2>4. PressInv'
    BY <1>10, PttAssumption DEF IInv, TypeOK, ActiveInv, PressInv, Pending, Held, Read,
       UiFails, Leave, Conns, mainVars, flagVars, thrVars, histVars
  <2> QED
    BY <2>1, <2>2, <2>3, <2>4 DEF IInv
<1>11. CASE KeyToggle
  <2>1. TypeOK'
    BY <1>11, PttAssumption DEF IInv, TypeOK, KeyToggle, Conns, mainVars, flagVars,
       thrVars, histVars
  <2>2. ActiveInv'
    BY <1>11, PttAssumption DEF IInv, TypeOK, ActiveInv, KeyToggle, Conns, mainVars,
       flagVars, thrVars, histVars
  <2>3. LateInv'
    BY SMTT(60), <1>11, PttAssumption DEF IInv, TypeOK, ActiveInv, LateInv, Pending, Held, Read,
       KeyToggle, Conns, mainVars, flagVars, thrVars, histVars
  <2>4. PressInv'
    BY <1>11, PttAssumption DEF IInv, TypeOK, ActiveInv, PressInv, Pending, Held, Read,
       KeyToggle, Conns, mainVars, flagVars, thrVars, histVars
  <2> QED
    BY <2>1, <2>2, <2>3, <2>4 DEF IInv
<1>12. CASE PttCall
  <2>1. TypeOK'
    BY <1>12, PttAssumption DEF IInv, TypeOK, PttCall, Conns, mainVars, flagVars,
       thrVars, histVars
  <2>2. ActiveInv'
    BY <1>12, PttAssumption DEF IInv, TypeOK, ActiveInv, PttCall, Conns, mainVars,
       flagVars, thrVars, histVars
  <2>3. LateInv'
    BY <1>12, PttAssumption DEF IInv, TypeOK, ActiveInv, LateInv, Pending, Held, Read,
       PttCall, Conns, mainVars, flagVars, thrVars, histVars
  <2>4. PressInv'
    BY <1>12, PttAssumption DEF IInv, TypeOK, ActiveInv, PressInv, Pending, Held, Read,
       PttCall, Conns, mainVars, flagVars, thrVars, histVars
  <2> QED
    BY <2>1, <2>2, <2>3, <2>4 DEF IInv
<1> QED
  BY <1>1, <1>2, <1>3, <1>4, <1>5, <1>6, <1>7, <1>8, <1>9, <1>10, <1>11, <1>12 DEF Main

\* So do the steps of the thread and of the tasks of every connection, current or old.
LEMMA WorkersIInv == ASSUME IInv, NEW c \in Conns, Workers(c) PROVE IInv'
<1>1. CASE ThreadQuits(c)
  <2>1. TypeOK'
    BY <1>1, PttAssumption DEF IInv, TypeOK, ThreadQuits, Conns, mainVars, flagVars,
       thrVars, histVars
  <2>2. ActiveInv'
    BY <1>1, PttAssumption DEF IInv, TypeOK, ActiveInv, ThreadQuits, Conns, mainVars,
       flagVars, thrVars, histVars
  <2>3. LateInv'
    BY Zenon, <1>1, PttAssumption DEF IInv, TypeOK, ActiveInv, LateInv, Pending, Held, Read,
       ThreadQuits, Conns, mainVars, flagVars, thrVars, histVars
  <2>4. PressInv'
    BY <1>1, PttAssumption DEF IInv, TypeOK, ActiveInv, PressInv, Pending, Held, Read,
       ThreadQuits, Conns, mainVars, flagVars, thrVars, histVars
  <2> QED
    BY <2>1, <2>2, <2>3, <2>4 DEF IInv
<1>2. CASE ThreadIdles(c)
  <2>1. TypeOK'
    BY <1>2, PttAssumption DEF IInv, TypeOK, ThreadIdles, Conns, mainVars, flagVars,
       thrVars, histVars
  <2>2. ActiveInv'
    BY <1>2, PttAssumption DEF IInv, TypeOK, ActiveInv, ThreadIdles, Conns, mainVars,
       flagVars, thrVars, histVars
  <2>3. LateInv'
    BY <1>2, PttAssumption DEF IInv, TypeOK, ActiveInv, LateInv, Pending, Held, Read,
       ThreadIdles, Conns, mainVars, flagVars, thrVars, histVars
  <2>4. PressInv'
    BY <1>2, PttAssumption DEF IInv, TypeOK, ActiveInv, PressInv, Pending, Held, Read,
       ThreadIdles, Conns, mainVars, flagVars, thrVars, histVars
  <2> QED
    BY <2>1, <2>2, <2>3, <2>4 DEF IInv
<1>3. CASE ThreadSeesPtt(c)
  <2>1. TypeOK'
    BY <1>3, PttAssumption DEF IInv, TypeOK, ThreadSeesPtt, Conns, mainVars, flagVars,
       thrVars, histVars
  <2>2. ActiveInv'
    BY <1>3, PttAssumption DEF IInv, TypeOK, ActiveInv, ThreadSeesPtt, Conns, mainVars,
       flagVars, thrVars, histVars
  <2>3. LateInv'
    BY <1>3, PttAssumption DEF IInv, TypeOK, ActiveInv, LateInv, Pending, Held, Read,
       ThreadSeesPtt, Conns, mainVars, flagVars, thrVars, histVars
  <2>4. PressInv'
    BY <1>3, PttAssumption DEF IInv, TypeOK, ActiveInv, PressInv, Pending, Held, Read,
       ThreadSeesPtt, Conns, mainVars, flagVars, thrVars, histVars
  <2> QED
    BY <2>1, <2>2, <2>3, <2>4 DEF IInv
<1>4. CASE ThreadOpensMic(c)
  <2>1. TypeOK'
    BY ZenonT(30), <1>4, PttAssumption DEF IInv, TypeOK, ThreadOpensMic, Conns, mainVars, flagVars,
       thrVars, histVars
  <2>2. ActiveInv'
    BY <1>4, PttAssumption DEF IInv, TypeOK, ActiveInv, ThreadOpensMic, Conns, mainVars,
       flagVars, thrVars, histVars
  <2>3. LateInv'
    BY SMTT(60), SMTT(60), <1>4, PttAssumption DEF IInv, TypeOK, ActiveInv, LateInv, Pending, Held, Read,
       ThreadOpensMic, Conns, mainVars, flagVars, thrVars, histVars
  <2>4. PressInv'
    BY SMTT(60), SMTT(60), <1>4, PttAssumption DEF IInv, TypeOK, ActiveInv, PressInv, Pending, Held, Read,
       ThreadOpensMic, Conns, mainVars, flagVars, thrVars, histVars
  <2> QED
    BY <2>1, <2>2, <2>3, <2>4 DEF IInv
<1>5. CASE ThreadReadsMic(c)
  <2>1. TypeOK'
    BY ZenonT(30), <1>5, PttAssumption DEF IInv, TypeOK, ThreadReadsMic, Conns, mainVars, flagVars,
       thrVars, histVars
  <2>2. ActiveInv'
    BY <1>5, PttAssumption DEF IInv, TypeOK, ActiveInv, ThreadReadsMic, Conns, mainVars,
       flagVars, thrVars, histVars
  <2>3. LateInv'
    BY SMTT(60), SMTT(60), <1>5, PttAssumption DEF IInv, TypeOK, ActiveInv, LateInv, Pending, Held, Read,
       ThreadReadsMic, Conns, mainVars, flagVars, thrVars, histVars
  <2>4. PressInv'
    BY SMTT(60), <1>5, PttAssumption DEF IInv, TypeOK, ActiveInv, PressInv, Pending, Held, Read,
       ThreadReadsMic, Conns, mainVars, flagVars, thrVars, histVars
  <2> QED
    BY <2>1, <2>2, <2>3, <2>4 DEF IInv
<1>6. CASE ThreadForwards(c)
  <2>1. TypeOK'
    BY SMTT(60), <1>6, PttAssumption DEF IInv, TypeOK, ThreadForwards, Conns, mainVars, flagVars,
       thrVars, histVars
  <2>2. ActiveInv'
    BY <1>6, PttAssumption DEF IInv, TypeOK, ActiveInv, ThreadForwards, Conns, mainVars,
       flagVars, thrVars, histVars
  <2>3. LateInv'
    BY SMTT(60), SMTT(60), <1>6, PttAssumption DEF IInv, TypeOK, ActiveInv, LateInv, Pending, Held, Read,
       ThreadForwards, Conns, mainVars, flagVars, thrVars, histVars
  <2>4. PressInv'
    BY SMTT(60), <1>6, PttAssumption DEF IInv, TypeOK, ActiveInv, PressInv, Pending, Held, Read,
       ThreadForwards, Conns, mainVars, flagVars, thrVars, histVars
  <2> QED
    BY <2>1, <2>2, <2>3, <2>4 DEF IInv
<1>7. CASE SenderTakes(c)
  <2>1. TypeOK'
    BY SMTT(60), <1>7, PttAssumption DEF IInv, TypeOK, SenderTakes, Conns, mainVars, flagVars,
       thrVars, histVars
  <2>2. ActiveInv'
    BY <1>7, PttAssumption DEF IInv, TypeOK, ActiveInv, SenderTakes, Conns, mainVars,
       flagVars, thrVars, histVars
  <2>3. LateInv'
    BY SMTT(60), SMTT(60), <1>7, PttAssumption DEF IInv, TypeOK, ActiveInv, LateInv, Pending, Held, Read,
       SenderTakes, Conns, mainVars, flagVars, thrVars, histVars
  <2>4. PressInv'
    BY SMTT(60), <1>7, PttAssumption DEF IInv, TypeOK, ActiveInv, PressInv, Pending, Held, Read,
       SenderTakes, Conns, mainVars, flagVars, thrVars, histVars
  <2> QED
    BY <2>1, <2>2, <2>3, <2>4 DEF IInv
<1>8. CASE SenderSends(c)
  <2> DEFINE Sent == active[c] /\ talked' = talked \cup {c}
                     /\ late' = IF ptt_on THEN late ELSE late + 1
             Lost == UNCHANGED <<talked, late>>
  <2>0. Sent \/ Lost
    BY <1>8 DEF SenderSends
  <2>1. TypeOK'
    <3>1. late' \in Nat /\ talked' \subseteq Conns
      BY <2>0 DEF IInv, TypeOK
    <3>2. snd' \in [Conns -> {"none", "loop", "holding", "aborted", "ended"}]
      BY <1>8 DEF IInv, TypeOK, SenderSends
    <3> QED
      BY <1>8, <3>1, <3>2 DEF IInv, TypeOK, SenderSends, mainVars, flagVars, thrVars
  <2>2. ActiveInv'
    BY <1>8 DEF IInv, TypeOK, ActiveInv, SenderSends, Conns, mainVars, thrVars
  <2>3. LateInv'
    BY SMTT(60), SMTT(60), <1>8, PttAssumption DEF IInv, TypeOK, ActiveInv, LateInv, Pending, Held, Read,
       SenderSends, Conns, mainVars, flagVars, thrVars
  <2>4. talked' \subseteq keyed'
    <3>1. Sent => c \in keyed
      BY <1>8 DEF IInv, TypeOK, ActiveInv, PressInv, Pending, Held, Read, SenderSends, Conns
    <3> QED
      BY <1>8, <2>0, <3>1 DEF IInv, PressInv, SenderSends
  <2>5. PressInv'
    BY <1>8, <2>4 DEF IInv, TypeOK, PressInv, Pending, Held, Read, SenderSends, Conns,
       mainVars, flagVars, thrVars
  <2> QED
    BY <2>1, <2>2, <2>3, <2>5 DEF IInv
<1>9. CASE SenderEnds(c)
  <2>1. TypeOK'
    BY <1>9, PttAssumption DEF IInv, TypeOK, SenderEnds, Conns, mainVars, flagVars,
       thrVars, histVars
  <2>2. ActiveInv'
    BY <1>9, PttAssumption DEF IInv, TypeOK, ActiveInv, SenderEnds, Conns, mainVars,
       flagVars, thrVars, histVars
  <2>3. LateInv'
    BY <1>9, PttAssumption DEF IInv, TypeOK, ActiveInv, LateInv, Pending, Held, Read,
       SenderEnds, Conns, mainVars, flagVars, thrVars, histVars
  <2>4. PressInv'
    BY Zenon, <1>9, PttAssumption DEF IInv, TypeOK, ActiveInv, PressInv, Pending, Held, Read,
       SenderEnds, Conns, mainVars, flagVars, thrVars, histVars
  <2> QED
    BY <2>1, <2>2, <2>3, <2>4 DEF IInv
<1>10. CASE ReceiverFails(c)
  <2>1. TypeOK'
    BY ZenonT(30), <1>10, PttAssumption DEF IInv, TypeOK, ReceiverFails, Conns, mainVars, flagVars,
       thrVars, histVars
  <2>2. ActiveInv'
    BY Zenon, <1>10, PttAssumption DEF IInv, TypeOK, ActiveInv, ReceiverFails, Conns, mainVars,
       flagVars, thrVars, histVars
  <2>3. LateInv'
    BY <1>10, PttAssumption DEF IInv, TypeOK, ActiveInv, LateInv, Pending, Held, Read,
       ReceiverFails, Conns, mainVars, flagVars, thrVars, histVars
  <2>4. PressInv'
    BY <1>10, PttAssumption DEF IInv, TypeOK, ActiveInv, PressInv, Pending, Held, Read,
       ReceiverFails, Conns, mainVars, flagVars, thrVars, histVars
  <2> QED
    BY <2>1, <2>2, <2>3, <2>4 DEF IInv
<1>11. CASE ReceiverQuits(c)
  <2>1. TypeOK'
    BY <1>11, PttAssumption DEF IInv, TypeOK, ReceiverQuits, Conns, mainVars, flagVars,
       thrVars, histVars
  <2>2. ActiveInv'
    BY <1>11, PttAssumption DEF IInv, TypeOK, ActiveInv, ReceiverQuits, Conns, mainVars,
       flagVars, thrVars, histVars
  <2>3. LateInv'
    BY <1>11, PttAssumption DEF IInv, TypeOK, ActiveInv, LateInv, Pending, Held, Read,
       ReceiverQuits, Conns, mainVars, flagVars, thrVars, histVars
  <2>4. PressInv'
    BY <1>11, PttAssumption DEF IInv, TypeOK, ActiveInv, PressInv, Pending, Held, Read,
       ReceiverQuits, Conns, mainVars, flagVars, thrVars, histVars
  <2> QED
    BY <2>1, <2>2, <2>3, <2>4 DEF IInv
<1> QED
  BY <1>1, <1>2, <1>3, <1>4, <1>5, <1>6, <1>7, <1>8, <1>9, <1>10, <1>11 DEF Workers

\* Every step preserves the inductive invariant.
LEMMA NextIInv == IInv /\ [Next]_vars => IInv'
<1> SUFFICES ASSUME IInv, [Next]_vars PROVE IInv'
  OBVIOUS
<1>1. CASE Main
  BY <1>1, MainIInv
<1>2. ASSUME NEW c \in Conns, Workers(c) PROVE IInv'
  BY <1>2, WorkersIInv
<1>3. CASE UNCHANGED vars
  BY <1>3 DEF IInv, TypeOK, ActiveInv, LateInv, PressInv, Pending, Held, Read, vars,
     mainVars, flagVars, thrVars, histVars
<1> QED
  BY <1>1, <1>2, <1>3 DEF Next

\* The inductive invariant holds in every reachable state.
LEMMA AlwaysIInv == Spec => []IInv
BY InitIInv, NextIInv, PTL DEF Spec

\* The flags, tasks and channels of every connection of cmd_ptt keep their types; the
\* channel in particular never holds more than its capacity.
THEOREM PttTypeCorrect == Spec => []TypeOK
<1>1. IInv => TypeOK
  BY DEF IInv
<1> QED
  BY <1>1, AlwaysIInv, PTL

\* After the flag is cleared at most Bridge + 2 frames leave (the sending task drains the
\* channel without a look at ptt_on), whatever the capacity and the interleaving.
THEOREM LateAudioIsBounded == Spec => []LateAudioBounded
<1>1. IInv => LateAudioBounded
  BY DEF IInv, LateInv, LateAudioBounded
<1> QED
  BY <1>1, AlwaysIInv, PTL

\* A connection is silent until its user presses the key on it: cmd_ptt clears ptt_on
\* between connections and each connection has a channel of its own.
THEOREM StaysSilent == Spec => []SilentUntilPressed
<1>1. IInv => SilentUntilPressed
  BY DEF IInv, PressInv, SilentUntilPressed
<1> QED
  BY <1>1, AlwaysIInv, PTL

-----------------------------------------------------------------------------
(* Two sessions and the floor *)

\* The last message of B in s comes before a message m; there is none of B in s.
Decided(s, m, B) == \E i \in 1..Len(s) : s[i] = m /\ \A j \in (i + 1)..Len(s) : s[j] \notin B
Clear(s, B) == \A i \in 1..Len(s) : s[i] \notin B

\* Of what a call has still to send, what is on the first leg and what is on the second
\* one, m is the last that matters, or nothing of it matters and the flag is as wanted.
Reaches(c, u, d, m, B, flag, wanted) ==
  \/ Decided(c, m, B)
  \/ Clear(c, B) /\ Decided(u, m, B)
  \/ Clear(c, B) /\ Clear(u, B) /\ Decided(d, m, B)
  \/ Clear(c, B) /\ Clear(u, B) /\ Clear(d, B) /\ flag = wanted

LEMMA Appended ==
  ASSUME NEW S, NEW s \in Seq(S), NEW x \in S, NEW m, NEW B, NEW t, t = Append(s, x)
  PROVE  /\ t \in Seq(S)
         /\ x = m => Decided(t, m, B)
         /\ x \notin B /\ Decided(s, m, B) => Decided(t, m, B)
         /\ x \notin B /\ Clear(s, B) => Clear(t, B)
<1>1. /\ t \in Seq(S) /\ Len(s) \in Nat /\ Len(t) = Len(s) + 1
      /\ \A i \in 1..Len(s) : t[i] = s[i]
      /\ t[Len(s) + 1] = x
  BY AppendProperties, LenProperties
<1>2. ASSUME x = m PROVE Decided(t, m, B)
  <2>1. Len(t) \in 1..Len(t) /\ t[Len(t)] = m /\ \A j \in (Len(t) + 1)..Len(t) : t[j] \notin B
    BY <1>1, <1>2
  <2> QED
    BY <2>1 DEF Decided
<1>3. ASSUME x \notin B, Decided(s, m, B) PROVE Decided(t, m, B)
  <2>1. PICK i \in 1..Len(s) : s[i] = m /\ \A j \in (i + 1)..Len(s) : s[j] \notin B
    BY <1>3 DEF Decided
  <2>2. ASSUME NEW j \in (i + 1)..Len(t) PROVE t[j] \notin B
    <3>1. CASE j = Len(s) + 1
      BY <1>1, <1>3, <3>1
    <3>2. CASE j # Len(s) + 1
      <4>1. j \in (i + 1)..Len(s) /\ j \in 1..Len(s)
        BY <1>1, <2>1, <3>2
      <4> QED
        BY <1>1, <2>1, <4>1
    <3> QED
      BY <3>1, <3>2
  <2>3. i \in 1..Len(t) /\ t[i] = m
    BY <1>1, <2>1
  <2> QED
    BY <2>2, <2>3 DEF Decided
<1>4. ASSUME x \notin B, Clear(s, B) PROVE Clear(t, B)
  BY <1>1, <1>4 DEF Clear
<1> QED
  BY <1>1, <1>2, <1>3, <1>4

LEMMA Taken ==
  ASSUME NEW S, NEW s \in Seq(S), s # <<>>, NEW m, NEW B, NEW t, t = Tail(s)
  PROVE  /\ t \in Seq(S) /\ Head(s) \in S
         /\ Clear(s, B) => Clear(t, B) /\ Head(s) \notin B
         /\ Decided(s, m, B) => Decided(t, m, B) \/ (Head(s) = m /\ Clear(t, B))
<1>1. /\ t \in Seq(S) /\ Len(s) \in Nat \ {0} /\ Len(t) = Len(s) - 1
      /\ \A i \in 1..Len(t) : t[i] = s[i + 1]
      /\ Head(s) = s[1] /\ Head(s) \in S
  BY HeadTailProperties, LenProperties, EmptySeq
<1>2. ASSUME Clear(s, B) PROVE Clear(t, B) /\ Head(s) \notin B
  <2>1. \A i \in 1..Len(t) : i + 1 \in 1..Len(s)
    BY <1>1
  <2>2. 1 \in 1..Len(s)
    BY <1>1
  <2> QED
    BY Zenon, <1>1, <1>2, <2>1, <2>2 DEF Clear
<1>3. ASSUME Decided(s, m, B) PROVE Decided(t, m, B) \/ (Head(s) = m /\ Clear(t, B))
  <2>1. PICK i \in 1..Len(s) : s[i] = m /\ \A j \in (i + 1)..Len(s) : s[j] \notin B
    BY <1>3 DEF Decided
  <2>2. CASE i = 1
    <3>1. \A j \in 1..Len(t) : j + 1 \in (i + 1)..Len(s)
      BY <1>1, <2>2
    <3> QED
      BY Zenon, <1>1, <2>1, <2>2, <3>1 DEF Clear
  <2>3. CASE i # 1
    <3>1. i - 1 \in 1..Len(t) /\ t[i - 1] = s[i]
      BY <1>1, <2>3
    <3>2. ASSUME NEW j \in ((i - 1) + 1)..Len(t) PROVE t[j] \notin B
      <4>1. j \in 1..Len(t) /\ j + 1 \in (i + 1)..Len(s)
        BY <1>1, <2>3
      <4> QED
        BY Zenon, <1>1, <2>1, <4>1
    <3> QED
      BY Zenon, <2>1, <3>1, <3>2 DEF Decided
  <2> QED
    BY <2>2, <2>3
<1> QED
  BY <1>1, <1>2, <1>3

\* A message sent goes from the call to the first leg.
LEMMA ReachesSent ==
  ASSUME NEW S, NEW c \in Seq(S), c # <<>>, NEW u \in Seq(S), NEW d, NEW m, NEW B,
         NEW flag, NEW wanted, Reaches(c, u, d, m, B, flag, wanted)
  PROVE  Reaches(Tail(c), Append(u, Head(c)), d, m, B, flag, wanted)
<1> PICK x, c2, u2 : x = Head(c) /\ c2 = Tail(c) /\ u2 = Append(u, x)
  BY Zenon
<1>1. /\ x \in S
      /\ Clear(c, B) => Clear(c2, B) /\ x \notin B
      /\ Decided(c, m, B) => Decided(c2, m, B) \/ (x = m /\ Clear(c2, B))
  BY ZenonT(30), Taken
<1>2. /\ x = m => Decided(u2, m, B)
      /\ x \notin B /\ Decided(u, m, B) => Decided(u2, m, B)
      /\ x \notin B /\ Clear(u, B) => Clear(u2, B)
  BY Zenon, <1>1, Appended
<1>3. Reaches(c2, u2, d, m, B, flag, wanted)
  BY Zenon, <1>1, <1>2 DEF Reaches
<1> QED
  BY Zenon, <1>3

\* A message carried goes from the first leg to the second, as itself or as one that
\* does not matter.
LEMMA ReachesCarried ==
  ASSUME NEW S, NEW c, NEW u \in Seq(S), u # <<>>, NEW d \in Seq(S), NEW m, NEW B,
         NEW flag, NEW wanted, Reaches(c, u, d, m, B, flag, wanted),
         NEW x \in S, Head(u) = m => x = m, Head(u) \notin B => x \notin B
  PROVE  Reaches(c, Tail(u), Append(d, x), m, B, flag, wanted)
<1> PICK y, u2, d2 : y = Head(u) /\ u2 = Tail(u) /\ d2 = Append(d, x)
  BY Zenon
<1>1. /\ Clear(u, B) => Clear(u2, B) /\ y \notin B
      /\ Decided(u, m, B) => Decided(u2, m, B) \/ (y = m /\ Clear(u2, B))
  BY ZenonT(30), Taken
<1>2. /\ x = m => Decided(d2, m, B)
      /\ x \notin B /\ Decided(d, m, B) => Decided(d2, m, B)
      /\ x \notin B /\ Clear(d, B) => Clear(d2, B)
  BY Zenon, Appended
<1> QED
  BY Zenon, <1>1, <1>2 DEF Reaches

\* A message dispatched sets the flag as it says.
LEMMA ReachesDispatched ==
  ASSUME NEW S, NEW c, NEW u, NEW d \in Seq(S), d # <<>>, NEW m, NEW B,
         NEW flag, NEW flag2, NEW wanted, Reaches(c, u, d, m, B, flag, wanted),
         Head(d) = m => flag2 = wanted,
         Head(d) \notin B /\ flag = wanted => flag2 = wanted
  PROVE  Reaches(c, u, Tail(d), m, B, flag2, wanted)
<1> PICK y, d2 : y = Head(d) /\ d2 = Tail(d)
  BY Zenon
<1>1. /\ Clear(d, B) => Clear(d2, B) /\ y \notin B
      /\ Decided(d, m, B) => Decided(d2, m, B) \/ (y = m /\ Clear(d2, B))
  BY ZenonT(30), Taken
<1> QED
  BY Zenon, <1>1 DEF Reaches

\* A message that does not matter may join either leg.
LEMMA ReachesJoined ==
  ASSUME NEW S, NEW c, NEW u \in Seq(S), NEW d \in Seq(S), NEW m, NEW B,
         NEW flag, NEW wanted, Reaches(c, u, d, m, B, flag, wanted), NEW x \in S, x \notin B
  PROVE  /\ Reaches(c, Append(u, x), d, m, B, flag, wanted)
         /\ Reaches(c, u, Append(d, x), m, B, flag, wanted)
<1> PICK u2, d2 : u2 = Append(u, x) /\ d2 = Append(d, x)
  BY Zenon
<1>1. /\ Decided(u, m, B) => Decided(u2, m, B)
      /\ Clear(u, B) => Clear(u2, B)
  BY Zenon, Appended
<1>2. /\ Decided(d, m, B) => Decided(d2, m, B)
      /\ Clear(d, B) => Clear(d2, B)
  BY Zenon, Appended
<1> QED
  BY Zenon, <1>1, <1>2 DEF Reaches

\* The loss of another message than m leaves the last that matters.
LEMMA ReachesLost ==
  ASSUME NEW S, NEW c, NEW u \in Seq(S), NEW d \in Seq(S), NEW m, NEW B,
         NEW flag, NEW wanted, Reaches(c, u, d, m, B, flag, wanted)
  PROVE  /\ u # <<>> /\ Head(u) # m => Reaches(c, Tail(u), d, m, B, flag, wanted)
         /\ d # <<>> /\ Head(d) # m => Reaches(c, u, Tail(d), m, B, flag, wanted)
<1> PICK u2, d2 : u2 = Tail(u) /\ d2 = Tail(d)
  BY Zenon
<1>1. u # <<>> /\ Head(u) # m => /\ (Decided(u, m, B) => Decided(u2, m, B))
                                 /\ (Clear(u, B) => Clear(u2, B))
  BY Zenon, Taken
<1>2. d # <<>> /\ Head(d) # m => /\ (Decided(d, m, B) => Decided(d2, m, B))
                                 /\ (Clear(d, B) => Clear(d2, B))
  BY Zenon, Taken
<1> QED
  BY Zenon, <1>1, <1>2 DEF Reaches

\* Nothing on its way: the flag is as wanted.
LEMMA ReachesNothing ==
  ASSUME NEW m, NEW B, NEW flag, NEW wanted, Reaches(<<>>, <<>>, <<>>, m, B, flag, wanted)
  PROVE  flag = wanted
<1>1. ~Decided(<<>>, m, B)
  BY DEF Decided
<1> QED
  BY Zenon, <1>1 DEF Reaches

Messages == {"FloorRequest", "FloorGrant", "FloorDeny", "FloorTaken", "FloorRelease",
             "ControlResume", "ControlPause"}

PttTypes ==
  /\ relayed \in BOOLEAN /\ expired \in BOOLEAN /\ lost \in Nat
  /\ pressed \in [PttPeers -> BOOLEAN] /\ ptt_active \in [PttPeers -> BOOLEAN]
  /\ peer_ptt_active \in [PttPeers -> BOOLEAN]
  /\ calling \in [PttPeers -> Seq(Messages)] /\ up \in [PttPeers -> Seq(Messages)]
  /\ down \in [PttPeers -> Seq(Messages)]

\* What the other session will have been told of p's user when everything has arrived.
Tells(p, m, B, wanted) ==
  Reaches(calling[p], up[p], down[Other(p)], m, B, peer_ptt_active[Other(p)], wanted)
Resumes(p) == Tells(p, "ControlResume", {"ControlPause", "FloorRelease"}, TRUE)
Pauses(p) == Tells(p, "ControlPause", {"ControlResume"}, FALSE)
Releases(p) == Tells(p, "FloorRelease", {"ControlResume"}, FALSE)

\* A release is announced by two messages, and one loss leaves one of them.
IndicatorInv(p) ==
  /\ lost = 0 /\ pressed[p] => Resumes(p)
  /\ lost = 0 /\ ~pressed[p] => Pauses(p)
  /\ lost = 0 /\ ~pressed[p] /\ ~relayed => Releases(p)
  /\ lost = 1 /\ ~pressed[p] /\ ~relayed => Pauses(p) \/ Releases(p)

\* The relay has answered p's request, or has it still to come and no release after it.
Denied(p) == \E i \in 1..Len(down[p]) : down[p][i] = "FloorDeny"
Answered(p) == floor_holder = p \/ Denied(p)
AskInv(p) ==
  relayed /\ lost = 0 /\ ~expired /\ ptt_active[p] =>
    Reaches(<<>>, calling[p], up[p], "FloorRequest", {"FloorRelease"}, Answered(p), TRUE)

PttInv == PttTypes /\ \A p \in PttPeers : IndicatorInv(p) /\ AskInv(p)

LEMMA Peers ==
  ASSUME NEW p \in PttPeers
  PROVE  /\ Other(p) \in PttPeers /\ Other(p) # p /\ Other(Other(p)) = p
         /\ \A q \in PttPeers : q = p \/ q = Other(p)
<1>1. PICK a, b \in PttPeers : a # b /\ PttPeers = {a, b}
  BY PeersAssumption
<1>2. \A q \in PttPeers : Other(q) \in PttPeers /\ Other(q) # q
  BY <1>1 DEF Other
<1> QED
  BY <1>1, <1>2

LEMMA PttInitInv == PttInit => PttInv
<1> SUFFICES ASSUME PttInit PROVE PttInv
  OBVIOUS
<1>1. /\ lost = 0 /\ relayed \in BOOLEAN /\ expired = FALSE
      /\ pressed = [p \in PttPeers |-> FALSE] /\ ptt_active = [p \in PttPeers |-> FALSE]
      /\ peer_ptt_active = [p \in PttPeers |-> FALSE]
      /\ calling = [p \in PttPeers |-> <<>>] /\ up = [p \in PttPeers |-> <<>>]
      /\ down = [p \in PttPeers |-> <<>>]
  BY Zenon DEF PttInit
<1>2. <<>> \in Seq(Messages)
  OBVIOUS
<1>3. PttTypes
  BY Zenon, <1>1, <1>2 DEF PttTypes
<1>4. \A B : Clear(<<>>, B)
  BY DEF Clear
<1>5. ASSUME NEW p \in PttPeers PROVE IndicatorInv(p) /\ AskInv(p)
  <2>1. /\ calling[p] = <<>> /\ up[p] = <<>> /\ down[Other(p)] = <<>> /\ pressed[p] = FALSE
        /\ ptt_active[p] = FALSE /\ peer_ptt_active[Other(p)] = FALSE
    BY <1>1, Peers
  <2>2. Pauses(p) /\ Releases(p)
    BY Zenon, <1>4, <2>1 DEF Pauses, Releases, Tells, Reaches
  <2> QED
    BY Zenon, <2>1, <2>2 DEF IndicatorInv, AskInv
<1> QED
  BY <1>3, <1>5 DEF PttInv

\* What leaves the messages, the flags, the floor and the losses as they are.
LEMMA PttStutters ==
  ASSUME PttInv, UNCHANGED pttVars
  PROVE  PttInv'
  BY ZenonT(30) DEF pttVars, PttInv, PttTypes, IndicatorInv, AskInv, Resumes, Pauses, Releases, Tells,
         Answered, Denied

\* A call that begins puts the message that matters last.
LEMMA CallBegins ==
  ASSUME NEW x, NEW y, NEW s, s = <<x, y>>, NEW B
  PROVE  /\ y \notin B => Decided(s, x, B)
         /\ Decided(s, y, B)
<1>1. Len(s) = 2 /\ s[1] = x /\ s[2] = y
  OBVIOUS
<1>2. ASSUME y \notin B PROVE Decided(s, x, B)
  <2>1. 1 \in 1..Len(s) /\ \A j \in (1 + 1)..Len(s) : j = 2
    BY <1>1
  <2> QED
    BY <1>1, <1>2, <2>1 DEF Decided
<1>3. Decided(s, y, B)
  <2>1. 2 \in 1..Len(s) /\ \A j \in (2 + 1)..Len(s) : FALSE
    BY <1>1
  <2> QED
    BY <1>1, <2>1 DEF Decided
<1> QED
  BY <1>2, <1>3

LEMMA PressKeeps ==
  ASSUME PttInv, NEW p \in PttPeers, ptt_press(p)
  PROVE  PttInv'
<1>1. /\ pressed' = [pressed EXCEPT ![p] = TRUE]
      /\ ptt_active' = [ptt_active EXCEPT ![p] = TRUE]
      /\ calling' = [calling EXCEPT ![p] = <<"FloorRequest", "ControlResume">>]
      /\ UNCHANGED <<relayed, peer_ptt_active, up, down, floor_holder, lost, expired>>
  BY DEF ptt_press
<1>2. PttTypes /\ \A q \in PttPeers : IndicatorInv(q) /\ AskInv(q)
  BY DEF PttInv
<1>3. PttTypes'
  <2>1. <<"FloorRequest", "ControlResume">> \in Seq(Messages)
    BY DEF Messages
  <2> QED
    BY <1>1, <1>2, <2>1 DEF PttTypes
<1>4. ASSUME NEW q \in PttPeers, q # p PROVE IndicatorInv(q)' /\ AskInv(q)'
  <2>1. /\ calling'[q] = calling[q] /\ pressed'[q] = pressed[q]
        /\ ptt_active'[q] = ptt_active[q]
    BY <1>1, <1>2, <1>4 DEF PttTypes
  <2> QED
    BY Zenon, <1>1, <1>2, <2>1 DEF IndicatorInv, AskInv, Resumes, Pauses, Releases, Tells,
       Answered, Denied
<1>5. IndicatorInv(p)' /\ AskInv(p)'
  <2>1. /\ calling'[p] = <<"FloorRequest", "ControlResume">> /\ pressed'[p] = TRUE
        /\ ptt_active'[p] = TRUE
    BY <1>1, <1>2 DEF PttTypes
  <2>2. Decided(calling'[p], "ControlResume", {"ControlPause", "FloorRelease"})
    BY Zenon, <2>1, CallBegins
  <2>3. "ControlResume" \notin {"FloorRelease"}
    OBVIOUS
  <2>4. Decided(calling'[p], "FloorRequest", {"FloorRelease"})
    BY Zenon, <2>1, <2>3, CallBegins
  <2>5. Resumes(p)'
    BY Zenon, <2>2 DEF Resumes, Tells, Reaches
  <2>6. Clear(<<>>, {"FloorRelease"})
    BY DEF Clear
  <2> QED
    BY Zenon, <2>1, <2>4, <2>5, <2>6 DEF IndicatorInv, AskInv, Reaches
<1> QED
  BY <1>3, <1>4, <1>5 DEF PttInv

LEMMA ReleaseKeeps ==
  ASSUME PttInv, NEW p \in PttPeers, ptt_release(p)
  PROVE  PttInv'
<1>1. /\ pressed' = [pressed EXCEPT ![p] = FALSE]
      /\ ptt_active' = [ptt_active EXCEPT ![p] = FALSE]
      /\ calling' = [calling EXCEPT ![p] = <<"FloorRelease", "ControlPause">>]
      /\ UNCHANGED <<relayed, peer_ptt_active, up, down, floor_holder, lost, expired>>
  BY DEF ptt_release
<1>2. PttTypes /\ \A q \in PttPeers : IndicatorInv(q) /\ AskInv(q)
  BY DEF PttInv
<1>3. PttTypes'
  <2>1. <<"FloorRelease", "ControlPause">> \in Seq(Messages)
    BY DEF Messages
  <2> QED
    BY <1>1, <1>2, <2>1 DEF PttTypes
<1>4. ASSUME NEW q \in PttPeers, q # p PROVE IndicatorInv(q)' /\ AskInv(q)'
  <2>1. /\ calling'[q] = calling[q] /\ pressed'[q] = pressed[q]
        /\ ptt_active'[q] = ptt_active[q]
    BY <1>1, <1>2, <1>4 DEF PttTypes
  <2> QED
    BY Zenon, <1>1, <1>2, <2>1 DEF IndicatorInv, AskInv, Resumes, Pauses, Releases, Tells,
       Answered, Denied
<1>5. IndicatorInv(p)' /\ AskInv(p)'
  <2>1. /\ calling'[p] = <<"FloorRelease", "ControlPause">> /\ pressed'[p] = FALSE
        /\ ptt_active'[p] = FALSE
    BY <1>1, <1>2 DEF PttTypes
  <2>2. Decided(calling'[p], "ControlPause", {"ControlResume"})
    BY Zenon, <2>1, CallBegins
  <2>3. "ControlPause" \notin {"ControlResume"}
    OBVIOUS
  <2>4. Decided(calling'[p], "FloorRelease", {"ControlResume"})
    BY Zenon, <2>1, <2>3, CallBegins
  <2>5. Pauses(p)' /\ Releases(p)'
    BY Zenon, <2>2, <2>4 DEF Pauses, Releases, Tells, Reaches
  <2> QED
    BY Zenon, <2>1, <2>5 DEF IndicatorInv, AskInv
<1> QED
  BY <1>3, <1>4, <1>5 DEF PttInv

\* A step that keeps the presses and the losses and whatever a session is told.
LEMMA IndicatorKept ==
  ASSUME PttTypes, NEW p, UNCHANGED <<relayed, lost>>, pressed'[p] = pressed[p], IndicatorInv(p),
         Resumes(p) => Resumes(p)', Pauses(p) => Pauses(p)',
         Releases(p) /\ ~relayed => Releases(p)'
  PROVE  IndicatorInv(p)'
<1>1. lost' = lost /\ relayed' = relayed
  OBVIOUS
<1> QED
  BY <1>1 DEF IndicatorInv

LEMMA SendKeeps ==
  ASSUME PttInv, NEW p \in PttPeers, SendNext(p)
  PROVE  PttInv'
<1>1. /\ calling[p] # <<>>
      /\ up' = [up EXCEPT ![p] = Append(up[p], Head(calling[p]))]
      /\ calling' = [calling EXCEPT ![p] = Tail(calling[p])]
      /\ UNCHANGED <<relayed, ptt_active, peer_ptt_active, pressed, down, floor_holder, lost,
                     expired>>
  BY DEF SendNext
<1>2. PttTypes /\ \A q \in PttPeers : IndicatorInv(q) /\ AskInv(q)
  BY DEF PttInv
<1>3. calling[p] \in Seq(Messages) /\ up[p] \in Seq(Messages)
  BY <1>2 DEF PttTypes
<1>4. /\ Tail(calling[p]) \in Seq(Messages) /\ Head(calling[p]) \in Messages
      /\ Append(up[p], Head(calling[p])) \in Seq(Messages)
  BY Zenon, <1>1, <1>3, HeadTailProperties, AppendProperties
<1>5. PttTypes'
  BY <1>1, <1>2, <1>4 DEF PttTypes
<1>6. ASSUME NEW q \in PttPeers, q # p PROVE IndicatorInv(q)' /\ AskInv(q)'
  <2>1. calling'[q] = calling[q] /\ up'[q] = up[q]
    BY <1>1, <1>2, <1>6 DEF PttTypes
  <2> QED
    BY Zenon, <1>1, <1>2, <2>1 DEF IndicatorInv, AskInv, Resumes, Pauses, Releases, Tells,
       Answered, Denied
<1>7. IndicatorInv(p)' /\ AskInv(p)'
  <2>1. calling'[p] = Tail(calling[p]) /\ up'[p] = Append(up[p], Head(calling[p]))
    BY <1>1, <1>2 DEF PttTypes
  <2>2. ASSUME NEW m, NEW B, NEW wanted, Tells(p, m, B, wanted)
        PROVE  Reaches(calling'[p], up'[p], down'[Other(p)], m, B, peer_ptt_active'[Other(p)],
                       wanted)
    BY ZenonT(30), <1>1, <1>3, <2>1, <2>2, ReachesSent DEF Tells
  <2>3. IndicatorInv(p)'
    <3>1. (Resumes(p) => Resumes(p)') /\ (Pauses(p) => Pauses(p)')
      BY Zenon, <2>2 DEF Resumes, Pauses, Tells
    <3>2. Releases(p) => Releases(p)'
      BY Zenon, <2>2 DEF Releases, Tells
    <3> QED
      BY Zenon, <1>1, <1>2, <3>1, <3>2, IndicatorKept
  <2>4. ASSUME NEW flag, Reaches(<<>>, calling[p], up[p], "FloorRequest", {"FloorRelease"}, flag, TRUE)
        PROVE  Reaches(<<>>, calling'[p], up'[p], "FloorRequest", {"FloorRelease"}, flag, TRUE)
    <3>1. Reaches(<<>>, Tail(calling[p]), Append(up[p], Head(calling[p])), "FloorRequest",
                  {"FloorRelease"}, flag, TRUE)
      BY Zenon, <1>1, <1>3, <1>4, <2>4, ReachesCarried
    <3> QED
      BY Zenon, <2>1, <3>1
  <2>5. AskInv(p)'
    BY Zenon, <1>1, <1>2, <2>4 DEF AskInv, Answered, Denied
  <2> QED
    BY <2>3, <2>5
<1> QED
  BY <1>5, <1>6, <1>7 DEF PttInv

LEMMA DispatchKeeps ==
  ASSUME PttInv, NEW p \in PttPeers, dispatch_packet(p)
  PROVE  PttInv'
<1>1. PttTypes /\ \A q \in PttPeers : IndicatorInv(q) /\ AskInv(q)
  BY DEF PttInv
<1>2. PICK y : y = Head(down[p])
  OBVIOUS
<1>3. /\ down[p] # <<>>
      /\ peer_ptt_active' = [peer_ptt_active EXCEPT ![p] =
           CASE y = "ControlResume" -> TRUE
             [] y \in {"ControlPause", "FloorRelease"} -> FALSE
             [] OTHER -> peer_ptt_active[p]]
      /\ ptt_active' = [ptt_active EXCEPT ![p] = ptt_active[p] /\ y # "FloorDeny"]
      /\ up' = [up EXCEPT ![p] = IF y = "FloorRequest" /\ ~ptt_active[p]
                                 THEN Append(up[p], "FloorGrant") ELSE up[p]]
      /\ down' = [down EXCEPT ![p] = Tail(down[p])]
      /\ UNCHANGED <<relayed, calling, pressed, floor_holder, lost, expired>>
  BY <1>2 DEF dispatch_packet
<1>4. /\ down[p] \in Seq(Messages) /\ up[p] \in Seq(Messages) /\ "FloorGrant" \in Messages
      /\ peer_ptt_active[p] \in BOOLEAN
  BY <1>1 DEF PttTypes, Messages
<1>5. /\ peer_ptt_active'[p] = CASE y = "ControlResume" -> TRUE
                                [] y \in {"ControlPause", "FloorRelease"} -> FALSE
                                [] OTHER -> peer_ptt_active[p]
      /\ ptt_active'[p] = (ptt_active[p] /\ y # "FloorDeny")
      /\ up'[p] = up[p] \/ up'[p] = Append(up[p], "FloorGrant")
      /\ down'[p] = Tail(down[p])
  BY <1>1, <1>3 DEF PttTypes
<1>6. /\ y = "ControlResume" => peer_ptt_active'[p] = TRUE
      /\ y \in {"ControlPause", "FloorRelease"} => peer_ptt_active'[p] = FALSE
      /\ y \notin {"ControlResume", "ControlPause", "FloorRelease"} =>
           peer_ptt_active'[p] = peer_ptt_active[p]
  BY Zenon, <1>5
<1>7. Tail(down[p]) \in Seq(Messages) /\ Append(up[p], "FloorGrant") \in Seq(Messages)
  BY Zenon, <1>3, <1>4, HeadTailProperties, AppendProperties
<1>8. PttTypes'
  <2>1. peer_ptt_active'[p] \in BOOLEAN /\ up'[p] \in Seq(Messages) /\ ptt_active'[p] \in BOOLEAN
    BY Zenon, <1>4, <1>5, <1>6, <1>7
  <2>2. /\ peer_ptt_active' = [peer_ptt_active EXCEPT ![p] = peer_ptt_active'[p]]
        /\ ptt_active' = [ptt_active EXCEPT ![p] = ptt_active'[p]]
        /\ up' = [up EXCEPT ![p] = up'[p]]
    BY Zenon, <1>1, <1>3 DEF PttTypes
  <2>3. /\ peer_ptt_active' \in [PttPeers -> BOOLEAN] /\ ptt_active' \in [PttPeers -> BOOLEAN]
    BY Zenon, <1>1, <2>1, <2>2 DEF PttTypes
  <2>4. up' \in [PttPeers -> Seq(Messages)] /\ down' \in [PttPeers -> Seq(Messages)]
    BY <1>1, <1>3, <1>7, <2>1, <2>2 DEF PttTypes
  <2> QED
    BY Zenon, <1>1, <1>3, <2>3, <2>4 DEF PttTypes
<1>9. ASSUME NEW q \in PttPeers, q # p PROVE IndicatorInv(q)' /\ AskInv(q)'
  <2>1. /\ up'[q] = up[q] /\ down'[q] = down[q] /\ ptt_active'[q] = ptt_active[q]
        /\ Other(q) = p
    BY <1>1, <1>3, <1>9, Peers DEF PttTypes
  <2>2. AskInv(q)'
    BY Zenon, <1>1, <1>3, <2>1 DEF AskInv, Answered, Denied
  <2>3. ASSUME NEW m, NEW B, NEW wanted, Tells(q, m, B, wanted),
               y = m => peer_ptt_active'[p] = wanted,
               y \notin B /\ peer_ptt_active[p] = wanted => peer_ptt_active'[p] = wanted
        PROVE  Reaches(calling'[q], up'[q], down'[Other(q)], m, B, peer_ptt_active'[Other(q)],
                       wanted)
    <3>1. Reaches(calling[q], up[q], Tail(down[p]), m, B, peer_ptt_active'[p], wanted)
      BY Zenon, <1>2, <1>3, <1>4, <2>1, <2>3, ReachesDispatched DEF Tells
    <3> QED
      BY Zenon, <1>3, <1>5, <2>1, <3>1
  <2>4. Resumes(q) => Resumes(q)'
    <3>1. /\ y = "ControlResume" => peer_ptt_active'[p] = TRUE
          /\ y \notin {"ControlPause", "FloorRelease"} /\ peer_ptt_active[p] = TRUE =>
               peer_ptt_active'[p] = TRUE
      BY <1>6
    <3> QED
      BY Zenon, <2>3, <3>1 DEF Resumes, Tells
  <2>5. (Pauses(q) => Pauses(q)') /\ (Releases(q) => Releases(q)')
    <3>1. /\ y = "ControlPause" \/ y = "FloorRelease" => peer_ptt_active'[p] = FALSE
          /\ y \notin {"ControlResume"} /\ peer_ptt_active[p] = FALSE => peer_ptt_active'[p] = FALSE
      BY <1>6
    <3> QED
      BY Zenon, <2>3, <3>1 DEF Pauses, Releases, Tells
  <2> QED
    BY Zenon, <1>1, <1>3, <2>2, <2>4, <2>5, IndicatorKept
<1>10. IndicatorInv(p)' /\ AskInv(p)'
  <2>1. /\ down'[Other(p)] = down[Other(p)] /\ down[Other(p)] \in Seq(Messages)
        /\ peer_ptt_active'[Other(p)] = peer_ptt_active[Other(p)]
    BY Zenon, <1>1, <1>3, Peers DEF PttTypes
  <2>2. ASSUME NEW m, NEW B, NEW wanted, Tells(p, m, B, wanted), "FloorGrant" \notin B
        PROVE  Reaches(calling'[p], up'[p], down'[Other(p)], m, B, peer_ptt_active'[Other(p)],
                       wanted)
    <3>1. CASE up'[p] = up[p]
      BY Zenon, <1>3, <2>1, <2>2, <3>1 DEF Tells
    <3>2. CASE up'[p] = Append(up[p], "FloorGrant")
      <4>1. Reaches(calling[p], Append(up[p], "FloorGrant"), down[Other(p)], m, B,
                    peer_ptt_active[Other(p)], wanted)
        BY Zenon, <1>4, <2>1, <2>2, ReachesJoined DEF Tells
      <4> QED
        BY Zenon, <1>3, <2>1, <3>2, <4>1
    <3> QED
      BY <1>5, <3>1, <3>2
  <2>3. "FloorGrant" \notin {"ControlPause", "FloorRelease"} /\ "FloorGrant" \notin {"ControlResume"}
    OBVIOUS
  <2>4. IndicatorInv(p)'
    <3>1. (Resumes(p) => Resumes(p)') /\ (Pauses(p) => Pauses(p)')
      BY Zenon, <2>2, <2>3 DEF Resumes, Pauses, Tells
    <3>2. Releases(p) => Releases(p)'
      BY Zenon, <2>2, <2>3 DEF Releases, Tells
    <3> QED
      BY Zenon, <1>1, <1>3, <3>1, <3>2, IndicatorKept
  <2>5. AskInv(p)'
    <3> SUFFICES ASSUME relayed, lost = 0, ~expired, ptt_active'[p]
                 PROVE  Reaches(<<>>, calling'[p], up'[p], "FloorRequest", {"FloorRelease"},
                                Answered(p)', TRUE)
      BY Zenon, <1>3 DEF AskInv
    <3>1. ptt_active[p] /\ y # "FloorDeny"
      BY Zenon, <1>5
    <3>2. Reaches(<<>>, calling[p], up[p], "FloorRequest", {"FloorRelease"}, Answered(p), TRUE)
      BY Zenon, <1>1, <3>1 DEF AskInv
    <3>3. Denied(p) => Denied(p)'
      <4> SUFFICES ASSUME Denied(p) PROVE Denied(p)'
        OBVIOUS
      <4>1. PICK i \in 1..Len(down[p]) : down[p][i] = "FloorDeny"
        BY DEF Denied
      <4>2. /\ y = down[p][1] /\ Len(Tail(down[p])) = Len(down[p]) - 1 /\ Len(down[p]) \in Nat
            /\ \A j \in 1..Len(Tail(down[p])) : Tail(down[p])[j] = down[p][j + 1]
        BY SMTT(60), <1>2, <1>3, <1>4, HeadTailProperties, LenProperties
      <4>3. i # 1
        BY Zenon, <3>1, <4>1, <4>2
      <4>4. i - 1 \in 1..Len(Tail(down[p])) /\ Tail(down[p])[i - 1] = "FloorDeny"
        BY <4>1, <4>2, <4>3
      <4> QED
        BY Zenon, <1>5, <4>4 DEF Denied
    <3>4. Answered(p) = TRUE => Answered(p)' = TRUE
      BY <1>3, <3>3 DEF Answered
    <3>5. Reaches(<<>>, calling[p], up[p], "FloorRequest", {"FloorRelease"}, Answered(p)', TRUE)
      BY Zenon, <3>2, <3>4 DEF Reaches
    <3>6. "FloorGrant" \notin {"FloorRelease"} /\ calling[p] \in Seq(Messages)
      BY <1>1 DEF PttTypes
    <3>7. Reaches(<<>>, calling[p], Append(up[p], "FloorGrant"), "FloorRequest", {"FloorRelease"},
                  Answered(p)', TRUE)
      BY ZenonT(30), <1>4, <3>5, <3>6, ReachesJoined
    <3> QED
      BY Zenon, <1>3, <1>5, <3>5, <3>7
  <2> QED
    BY <2>4, <2>5
<1> QED
  BY <1>8, <1>9, <1>10 DEF PttInv

\* What the relay, or the network, hands on of a message y of p and gives back for it.
Handed(p, y) == IF relayed THEN Arbitrate(p, y)
                ELSE [holder |-> floor_holder, back |-> <<>>, on |-> <<y>>]

HandsOn(p, y, r) ==
  /\ r.back = <<>> \/ r.back = <<"FloorGrant">> \/ r.back = <<"FloorDeny">>
  /\ \/ r.on = <<y>>
     \/ relayed /\ y \in {"FloorRequest", "FloorRelease"} /\ r.on = <<>>
     \/ relayed /\ y = "FloorRequest" /\ r.on = <<"FloorTaken">>
  /\ relayed /\ y = "FloorRequest" => r.holder = p \/ r.back = <<"FloorDeny">>
  /\ y # "FloorRelease" /\ floor_holder = p => r.holder = p
  /\ floor_holder \in PttPeers \ {p} => r.holder = floor_holder

LEMMA CarriedOn ==
  ASSUME NEW p \in PttPeers, NEW y \in Messages, NEW r, r = Handed(p, y)
  PROVE  HandsOn(p, y, r)
<1> USE DEF HandsOn
<1>1. CASE ~relayed
  BY Zenon, <1>1 DEF Handed
<1>2. CASE relayed
  <2>1. r = Arbitrate(p, y)
    BY <1>2 DEF Handed
  <2>2. CASE y = "FloorRequest"
    BY <1>2, <2>1, <2>2, PeersAssumption DEF Arbitrate
  <2>3. CASE y = "FloorRelease"
    BY <1>2, <2>1, <2>3, PeersAssumption DEF Arbitrate
  <2>4. CASE y \notin {"FloorRequest", "FloorRelease"}
    BY <1>2, <2>1, <2>4 DEF Arbitrate
  <2> QED
    BY <2>2, <2>3, <2>4
<1> QED
  BY <1>1, <1>2

LEMMA Joined ==
  ASSUME NEW S, NEW s \in Seq(S), NEW x \in S
  PROVE  s \o <<x>> = Append(s, x) /\ s \o <<>> = s
  BY AppendIsConcat, ConcatEmptySeq

LEMMA DeniedStays ==
  ASSUME NEW p, NEW s \in Seq(Messages), down[p] = s,
         down'[p] = s \/ \E x \in Messages : down'[p] = Append(s, x)
  PROVE  Denied(p) => Denied(p)'
<1>1. CASE down'[p] = s
  BY <1>1 DEF Denied
<1>2. ASSUME NEW x \in Messages, down'[p] = Append(s, x) PROVE Denied(p) => Denied(p)'
  <2>1. /\ Len(Append(s, x)) = Len(s) + 1 /\ Len(s) \in Nat
        /\ \A i \in 1..Len(s) : Append(s, x)[i] = s[i]
    BY AppendProperties, LenProperties
  <2>2. \A i \in 1..Len(s) : i \in 1..Len(Append(s, x))
    BY <2>1
  <2> QED
    BY Zenon, <1>2, <2>1, <2>2 DEF Denied
<1> QED
  BY <1>1, <1>2

LEMMA CarryKeeps ==
  ASSUME PttInv, NEW p \in PttPeers, Carry(p)
  PROVE  PttInv'
<1>1. PttTypes /\ \A q \in PttPeers : IndicatorInv(q) /\ AskInv(q)
  BY DEF PttInv
<1>2. PICK y, r : y = Head(up[p]) /\ r = Handed(p, y)
  BY Zenon
<1>3. /\ up[p] # <<>> /\ floor_holder' = r.holder
      /\ down' = [q \in PttPeers |-> down[q] \o (IF q = p THEN r.back ELSE r.on)]
      /\ up' = [up EXCEPT ![p] = Tail(up[p])]
      /\ UNCHANGED <<relayed, ptt_active, peer_ptt_active, calling, pressed, lost, expired>>
  BY Zenon, <1>2 DEF Carry, Handed
<1> PICK q : q = Other(p)
  OBVIOUS
<1>4. q \in PttPeers /\ q # p /\ Other(q) = p /\ \A o \in PttPeers : o = p \/ o = q
  BY Peers
<1>5. /\ up[p] \in Seq(Messages) /\ down[p] \in Seq(Messages) /\ down[q] \in Seq(Messages)
      /\ up[q] \in Seq(Messages) /\ calling[p] \in Seq(Messages) /\ relayed \in BOOLEAN
      /\ {"FloorGrant", "FloorDeny", "FloorTaken"} \subseteq Messages
  BY <1>1, <1>4 DEF PttTypes, Messages
<1>6. y \in Messages /\ Tail(up[p]) \in Seq(Messages)
  BY ZenonT(30), <1>2, <1>3, <1>5, HeadTailProperties
<1>7. /\ up'[p] = Tail(up[p]) /\ up'[q] = up[q]
      /\ down'[p] = down[p] \o r.back /\ down'[q] = down[q] \o r.on
  BY Zenon, <1>1, <1>3, <1>4 DEF PttTypes
<1>8. HandsOn(p, y, r)
  BY Zenon, <1>2, <1>6, CarriedOn
<1>joined. \A o \in {p, q}, x \in Messages :
             /\ down[o] \o <<x>> = Append(down[o], x) /\ down[o] \o <<>> = down[o]
             /\ Append(down[o], x) \in Seq(Messages)
             /\ Len(Append(down[o], x)) = Len(down[o]) + 1 /\ Len(down[o]) \in Nat
             /\ Append(down[o], x)[Len(down[o]) + 1] = x
  <2> TAKE o \in {p, q}, x \in Messages
  <2>1. down[o] \in Seq(Messages)
    BY <1>5
  <2> QED
    BY ONLY x \in Messages, <2>1, Joined, AppendProperties, LenProperties
<1>9. /\ \/ down'[p] = down[p]
         \/ \E x \in {"FloorGrant", "FloorDeny"} : down'[p] = Append(down[p], x)
      /\ r.back = <<"FloorDeny">> => down'[p] = Append(down[p], "FloorDeny")
  <2>1. /\ "FloorGrant" \in Messages /\ "FloorDeny" \in Messages /\ p \in {p, q}
        /\ "FloorGrant" \in {"FloorGrant", "FloorDeny"} /\ "FloorDeny" \in {"FloorGrant", "FloorDeny"}
    BY <1>5
  <2>2. down[p] \o <<>> = down[p] /\ down[p] \o <<"FloorGrant">> = Append(down[p], "FloorGrant")
        /\ down[p] \o <<"FloorDeny">> = Append(down[p], "FloorDeny")
    BY Zenon, <2>1, <1>joined
  <2>3. r.back = <<>> \/ r.back = <<"FloorGrant">> \/ r.back = <<"FloorDeny">>
    BY Zenon, <1>8 DEF HandsOn
  <2> QED
    BY ZenonT(30), <1>7, <2>1, <2>2, <2>3
<1>10. \/ down'[q] = Append(down[q], y)
       \/ relayed /\ y \in {"FloorRequest", "FloorRelease"} /\ down'[q] = down[q]
       \/ relayed /\ y = "FloorRequest" /\ down'[q] = Append(down[q], "FloorTaken")
  <2>1. "FloorTaken" \in Messages /\ q \in {p, q}
    BY <1>5
  <2>2. down[q] \o <<>> = down[q] /\ down[q] \o <<y>> = Append(down[q], y)
        /\ down[q] \o <<"FloorTaken">> = Append(down[q], "FloorTaken")
    BY Zenon, <2>1, <1>6, <1>joined
  <2>3. \/ r.on = <<y>>
        \/ relayed /\ y \in {"FloorRequest", "FloorRelease"} /\ r.on = <<>>
        \/ relayed /\ y = "FloorRequest" /\ r.on = <<"FloorTaken">>
    BY Zenon, <1>8 DEF HandsOn
  <2> QED
    BY Zenon, <1>7, <2>2, <2>3
<1>11. PttTypes'
  <2>1. down'[p] \in Seq(Messages) /\ down'[q] \in Seq(Messages)
    <3>1. /\ \A x \in {"FloorGrant", "FloorDeny"} : x \in Messages
          /\ "FloorTaken" \in Messages /\ p \in {p, q} /\ q \in {p, q}
      BY <1>5
    <3>2. \A x \in Messages : /\ Append(down[p], x) \in Seq(Messages)
                             /\ Append(down[q], x) \in Seq(Messages)
      BY Zenon, <1>joined, <3>1
    <3> QED
      BY Zenon, <1>5, <1>6, <1>9, <1>10, <3>1, <3>2
  <2>2. down' \in [PttPeers -> Seq(Messages)]
    <3>1. \A o \in PttPeers : down'[o] \in Seq(Messages)
      BY Zenon, <1>4, <2>1
    <3>2. down' = [o \in PttPeers |-> down'[o]]
      BY Zenon, <1>3
    <3> QED
      BY <3>1, <3>2
  <2>3. up' \in [PttPeers -> Seq(Messages)]
    BY <1>1, <1>3, <1>6 DEF PttTypes
  <2> QED
    BY Zenon, <1>1, <1>3, <2>2, <2>3 DEF PttTypes
<1>12. ASSUME NEW m, NEW B, NEW wanted, Tells(q, m, B, wanted),
              "FloorGrant" \notin B, "FloorDeny" \notin B
       PROVE  Tells(q, m, B, wanted)'
  <2>1. Reaches(calling[q], up[q], down[p], m, B, peer_ptt_active[p], wanted)
    BY Zenon, <1>4, <1>12 DEF Tells
  <2>2. ASSUME NEW x \in {"FloorGrant", "FloorDeny"}
        PROVE  Reaches(calling[q], up[q], Append(down[p], x), m, B, peer_ptt_active[p], wanted)
    <3>1. x \in Messages /\ x \notin B
      BY <1>5, <1>12
    <3> QED
      BY ZenonT(30), <1>5, <2>1, <3>1, ReachesJoined
  <2>3. Reaches(calling[q], up[q], down'[p], m, B, peer_ptt_active[p], wanted)
    BY ZenonT(30), <1>9, <2>1, <2>2
  <2> QED
    BY Zenon, <1>3, <1>4, <1>7, <2>3 DEF Tells
<1>13. ASSUME NEW m, NEW B, NEW wanted, Tells(p, m, B, wanted),
              relayed => m \notin {"FloorRequest", "FloorRelease"}, "FloorTaken" \notin B
       PROVE  Tells(p, m, B, wanted)'
  <2>1. Reaches(calling[p], up[p], down[q], m, B, peer_ptt_active[q], wanted)
    BY Zenon, <1>13 DEF Tells
  <2>2. CASE down'[q] = Append(down[q], y)
    <3>1. Reaches(calling[p], Tail(up[p]), Append(down[q], y), m, B, peer_ptt_active[q], wanted)
      BY Zenon, <1>2, <1>3, <1>5, <1>6, <2>1, ReachesCarried
    <3> QED
      BY Zenon, <1>3, <1>7, <2>2, <3>1 DEF Tells
  <2>3. CASE y # m /\ down'[q] = down[q]
    <3>1. Reaches(calling[p], Tail(up[p]), down[q], m, B, peer_ptt_active[q], wanted)
      BY Zenon, <1>2, <1>3, <1>5, <2>1, <2>3, ReachesLost
    <3> QED
      BY Zenon, <1>3, <1>7, <2>3, <3>1 DEF Tells
  <2>4. CASE y # m /\ down'[q] = Append(down[q], "FloorTaken")
    <3>1. "FloorTaken" \in Messages
      BY <1>5
    <3>2. Reaches(calling[p], Tail(up[p]), Append(down[q], "FloorTaken"), m, B,
                  peer_ptt_active[q], wanted)
      BY Zenon, <1>2, <1>3, <1>5, <1>13, <2>1, <2>4, <3>1, ReachesCarried
    <3> QED
      BY ZenonT(30), <1>3, <1>7, <2>4, <3>2 DEF Tells
  <2> QED
    BY <1>10, <1>13, <2>2, <2>3, <2>4
<1>14. IndicatorInv(q)'
  <2>1. /\ "FloorGrant" \notin {"ControlPause", "FloorRelease"} /\ "FloorGrant" \notin {"ControlResume"}
        /\ "FloorDeny" \notin {"ControlPause", "FloorRelease"} /\ "FloorDeny" \notin {"ControlResume"}
    OBVIOUS
  <2>2. (Resumes(q) => Resumes(q)') /\ (Pauses(q) => Pauses(q)') /\ (Releases(q) => Releases(q)')
    BY Zenon, <1>12, <2>1 DEF Resumes, Pauses, Releases
  <2>3. pressed'[q] = pressed[q] /\ UNCHANGED <<relayed, lost>>
    BY Zenon, <1>3
  <2> QED
    BY Zenon, <1>1, <1>4, <2>2, <2>3, IndicatorKept
<1>15. IndicatorInv(p)'
  <2>1. /\ "FloorTaken" \notin {"ControlPause", "FloorRelease"} /\ "FloorTaken" \notin {"ControlResume"}
        /\ "ControlResume" \notin {"FloorRequest", "FloorRelease"}
        /\ "ControlPause" \notin {"FloorRequest", "FloorRelease"}
    OBVIOUS
  <2>2. (Resumes(p) => Resumes(p)') /\ (Pauses(p) => Pauses(p)')
    BY Zenon, <1>13, <2>1 DEF Resumes, Pauses
  <2>3. Releases(p) /\ ~relayed => Releases(p)'
    BY Zenon, <1>13, <2>1 DEF Releases
  <2>4. pressed'[p] = pressed[p] /\ UNCHANGED <<relayed, lost>>
    BY ZenonT(30), <1>3
  <2> QED
    BY Zenon, <1>1, <2>2, <2>3, <2>4, IndicatorKept
<1>16. ASSUME relayed, Answered(p) = TRUE, y # "FloorRelease" PROVE Answered(p)' = TRUE
  <2>1. Denied(p) => Denied(p)'
    BY Zenon, <1>5, <1>9, DeniedStays
  <2> QED
    BY <1>3, <1>8, <1>16, <2>1 DEF Answered, HandsOn
<1>17. ASSUME relayed, y = "FloorRequest" PROVE Answered(p)' = TRUE
  <2>1. CASE r.holder = p
    BY <1>3, <2>1 DEF Answered
  <2>2. CASE r.back = <<"FloorDeny">>
    <3>1. "FloorDeny" \in Messages
      BY <1>5
    <3>2. /\ Len(down'[p]) = Len(down[p]) + 1 /\ Len(down[p]) \in Nat
          /\ down'[p][Len(down[p]) + 1] = "FloorDeny"
      BY Zenon, <1>9, <2>2, <3>1, <1>joined, p \in {p, q}
    <3>3. Len(down[p]) + 1 \in 1..Len(down'[p])
      BY <3>2
    <3>4. Denied(p)'
      BY Zenon, <3>2, <3>3 DEF Denied
    <3> QED
      BY <3>4 DEF Answered
  <2> QED
    BY Zenon, <1>8, <1>17, <2>1, <2>2 DEF HandsOn
<1>18. AskInv(p)'
  <2> SUFFICES ASSUME relayed, lost = 0, ~expired, ptt_active[p]
               PROVE  Reaches(<<>>, calling'[p], up'[p], "FloorRequest", {"FloorRelease"},
                              Answered(p)', TRUE)
    BY Zenon, <1>3 DEF AskInv
  <2>1. Reaches(<<>>, calling[p], up[p], "FloorRequest", {"FloorRelease"}, Answered(p), TRUE)
    BY Zenon, <1>1 DEF AskInv
  <2>2. y \notin {"FloorRelease"} => y # "FloorRelease"
    OBVIOUS
  <2>3. PICK flag2 : flag2 = Answered(p)'
    OBVIOUS
  <2>4. Reaches(<<>>, calling[p], Tail(up[p]), "FloorRequest", {"FloorRelease"}, flag2, TRUE)
    BY Zenon, <1>2, <1>3, <1>5, <1>16, <1>17, <2>1, <2>2, <2>3, ReachesDispatched
  <2> QED
    BY Zenon, <1>3, <1>7, <2>3, <2>4
<1>19. AskInv(q)'
  <2>1. Denied(q) => Denied(q)'
    <3>1. down'[q] = down[q] \/ \E x \in Messages : down'[q] = Append(down[q], x)
      BY SMTT(60), <1>5, <1>6, <1>10
    <3> QED
      BY ZenonT(30), <1>5, <3>1, DeniedStays
  <2>2. floor_holder = q => floor_holder' = q
    BY <1>3, <1>4, <1>8 DEF HandsOn
  <2>3. Answered(q) = TRUE => Answered(q)' = TRUE
    BY <2>1, <2>2 DEF Answered
  <2>4. calling'[q] = calling[q] /\ ptt_active'[q] = ptt_active[q]
    BY Zenon, <1>3
  <2>5. ASSUME Reaches(<<>>, calling[q], up[q], "FloorRequest", {"FloorRelease"}, Answered(q), TRUE)
        PROVE  Reaches(<<>>, calling'[q], up'[q], "FloorRequest", {"FloorRelease"},
                       Answered(q)', TRUE)
    BY Zenon, <1>7, <2>3, <2>4, <2>5 DEF Reaches
  <2> QED
    BY Zenon, <1>1, <1>3, <1>4, <2>4, <2>5 DEF AskInv
<1> QED
  BY Zenon, <1>4, <1>11, <1>14, <1>15, <1>18, <1>19 DEF PttInv

\* One datagram lost leaves one of the two that announce a release.
LEMMA LoseKeeps ==
  ASSUME PttInv, NEW p \in PttPeers, Lose(p)
  PROVE  PttInv'
<1>1. PttTypes /\ \A q \in PttPeers : IndicatorInv(q) /\ AskInv(q)
  BY DEF PttInv
<1>2. /\ lost' = lost + 1 /\ lost \in Nat
      /\ UNCHANGED <<relayed, ptt_active, peer_ptt_active, calling, pressed, expired>>
      /\ \/ up[p] # <<>> /\ up' = [up EXCEPT ![p] = Tail(up[p])] /\ down' = down
         \/ down[p] # <<>> /\ down' = [down EXCEPT ![p] = Tail(down[p])] /\ up' = up
  BY <1>1 DEF Lose, PttTypes
<1> PICK q : q = Other(p)
  OBVIOUS
<1>3. q \in PttPeers /\ q # p /\ Other(q) = p /\ \A o \in PttPeers : o = p \/ o = q
  BY Peers
<1>4. /\ up[p] \in Seq(Messages) /\ down[p] \in Seq(Messages)
      /\ up[q] \in Seq(Messages) /\ down[q] \in Seq(Messages)
  BY <1>1, <1>3 DEF PttTypes
<1>5. /\ up[p] # <<>> => Tail(up[p]) \in Seq(Messages)
      /\ down[p] # <<>> => Tail(down[p]) \in Seq(Messages)
  BY Zenon, <1>4, HeadTailProperties
<1>6. PttTypes'
  <2>1. up' \in [PttPeers -> Seq(Messages)]
    BY Zenon, <1>1, <1>2, <1>5 DEF PttTypes
  <2>2. down' \in [PttPeers -> Seq(Messages)]
    BY Zenon, <1>1, <1>2, <1>5 DEF PttTypes
  <2>3. lost' \in Nat
    BY <1>2
  <2> QED
    BY Zenon, <1>1, <1>2, <2>1, <2>2, <2>3 DEF PttTypes
<1>7. ASSUME NEW o \in PttPeers, Pauses(o), Releases(o) PROVE Pauses(o)' \/ Releases(o)'
  <2> DEFINE Tell(u, d, m) == Reaches(calling[o], u, d, m, {"ControlResume"},
                                      peer_ptt_active[Other(o)], FALSE)
  <2>1. /\ Tell(up[o], down[Other(o)], "ControlPause")
        /\ Tell(up[o], down[Other(o)], "FloorRelease")
    BY Zenon, <1>7 DEF Pauses, Releases, Tells
  <2>2. /\ up[o] \in Seq(Messages) /\ down[Other(o)] \in Seq(Messages)
        /\ "ControlPause" # "FloorRelease"
    BY Zenon, <1>3, <1>4
  <2>3. ASSUME NEW u, NEW d, up'[o] = u, down'[Other(o)] = d,
               Tell(u, d, "ControlPause") \/ Tell(u, d, "FloorRelease")
        PROVE  Pauses(o)' \/ Releases(o)'
    BY Zenon, <1>2, <2>3 DEF Pauses, Releases, Tells
  <2>4. CASE up[p] # <<>> /\ up' = [up EXCEPT ![p] = Tail(up[p])] /\ down' = down /\ o = p
    <3>1. up'[o] = Tail(up[o]) /\ down'[Other(o)] = down[Other(o)] /\ up[o] # <<>>
      BY <1>1, <2>4 DEF PttTypes
    <3>2. \/ Tell(Tail(up[o]), down[Other(o)], "ControlPause")
          \/ Tell(Tail(up[o]), down[Other(o)], "FloorRelease")
      BY Zenon, <2>1, <2>2, <3>1, ReachesLost
    <3> QED
      BY Zenon, <2>3, <3>1, <3>2
  <2>5. CASE up' = [up EXCEPT ![p] = Tail(up[p])] /\ down' = down /\ o = q
    <3>1. up'[o] = up[o] /\ down'[Other(o)] = down[Other(o)]
      BY <1>1, <1>3, <2>5 DEF PttTypes
    <3> QED
      BY Zenon, <2>1, <2>3, <3>1
  <2>6. CASE down[p] # <<>> /\ down' = [down EXCEPT ![p] = Tail(down[p])] /\ up' = up /\ o = q
    <3>1. /\ up'[o] = up[o] /\ down'[Other(o)] = Tail(down[Other(o)])
          /\ down[Other(o)] # <<>>
      BY <1>1, <1>3, <2>6 DEF PttTypes
    <3>2. \/ Tell(up[o], Tail(down[Other(o)]), "ControlPause")
          \/ Tell(up[o], Tail(down[Other(o)]), "FloorRelease")
      BY ZenonT(30), <2>1, <2>2, <3>1, ReachesLost
    <3> QED
      BY Zenon, <2>3, <3>1, <3>2
  <2>7. CASE down' = [down EXCEPT ![p] = Tail(down[p])] /\ up' = up /\ o = p
    <3>1. up'[o] = up[o] /\ down'[Other(o)] = down[Other(o)]
      BY <1>1, <1>3, <2>7 DEF PttTypes
    <3> QED
      BY Zenon, <2>1, <2>3, <3>1
  <2> QED
    BY Zenon, <1>2, <1>3, <2>4, <2>5, <2>6, <2>7
<1>8. ASSUME NEW o \in PttPeers PROVE IndicatorInv(o)' /\ AskInv(o)'
  <2>1. lost' # 0 /\ (lost' = 1 => lost = 0) /\ relayed' = relayed /\ pressed'[o] = pressed[o]
    BY <1>2
  <2>2. lost = 0 /\ ~pressed[o] /\ ~relayed => Pauses(o) /\ Releases(o)
    BY Zenon, <1>1 DEF IndicatorInv
  <2> QED
    BY Zenon, <1>7, <2>1, <2>2 DEF IndicatorInv, AskInv
<1> QED
  BY Zenon, <1>6, <1>8 DEF PttInv

LEMMA ExpireKeeps ==
  ASSUME PttInv, PttHoldExpires
  PROVE  PttInv'
<1>1. /\ expired' = TRUE
      /\ UNCHANGED <<relayed, ptt_active, peer_ptt_active, calling, pressed, up, down, lost>>
  BY DEF PttHoldExpires
<1>2. PttTypes /\ \A q \in PttPeers : IndicatorInv(q)
  BY DEF PttInv
<1>3. PttTypes'
  BY <1>1, <1>2 DEF PttTypes
<1>4. ASSUME NEW o \in PttPeers PROVE IndicatorInv(o)' /\ AskInv(o)'
  BY Zenon, <1>1, <1>2 DEF IndicatorInv, AskInv, Resumes, Pauses, Releases, Tells
<1> QED
  BY <1>3, <1>4 DEF PttInv

LEMMA PttNextInv == PttInv /\ [PttNext]_pttVars => PttInv'
<1> SUFFICES ASSUME PttInv, [PttNext]_pttVars PROVE PttInv'
  OBVIOUS
<1>1. ASSUME NEW p \in PttPeers, ptt_press(p) \/ ptt_release(p) \/ SendNext(p) PROVE PttInv'
  BY <1>1, PressKeeps, ReleaseKeeps, SendKeeps
<1>2. ASSUME NEW p \in PttPeers, dispatch_packet(p) \/ Carry(p) \/ Lose(p) PROVE PttInv'
  BY <1>2, DispatchKeeps, CarryKeeps, LoseKeeps
<1>3. CASE PttHoldExpires
  BY <1>3, ExpireKeeps
<1>4. CASE UNCHANGED pttVars
  BY Zenon, <1>4, PttStutters
<1> QED
  BY <1>1, <1>2, <1>3, <1>4 DEF PttNext

LEMMA PttInvariant == PttSpec => []PttInv
  BY PttInitInv, PttNextInv, PTL DEF PttSpec

\* Once everything sent has arrived, the talking indicator of a session shows what the
\* other user's last call was, and one lost datagram of a direct call never leaves a
\* user who has released shown as talking (ptt_press, ptt_release, dispatch_packet and
\* the relay's arbitration).
THEOREM IndicatorStaysSettled == PttSpec => []IndicatorSettles
<1>1. PttInv => IndicatorSettles
  <2> SUFFICES ASSUME PttInv, Quiet, NEW p \in PttPeers
               PROVE  /\ lost = 0 => peer_ptt_active[p] = pressed[Other(p)]
                      /\ ~relayed /\ lost <= 1 => (peer_ptt_active[p] => pressed[Other(p)])
    BY Zenon DEF IndicatorSettles
  <2> PICK q : q = Other(p)
    OBVIOUS
  <2>1. q \in PttPeers /\ Other(q) = p
    BY Peers
  <2>2. /\ calling[q] = <<>> /\ up[q] = <<>> /\ down[p] = <<>> /\ IndicatorInv(q)
        /\ pressed[q] \in BOOLEAN /\ peer_ptt_active[p] \in BOOLEAN /\ lost \in Nat
    BY <2>1 DEF Quiet, PttInv, PttTypes
  <2>3. /\ Resumes(q) => peer_ptt_active[p] = TRUE
        /\ Pauses(q) => peer_ptt_active[p] = FALSE
        /\ Releases(q) => peer_ptt_active[p] = FALSE
    BY Zenon, <2>1, <2>2, ReachesNothing DEF Resumes, Pauses, Releases, Tells
  <2> QED
    BY SMTT(60), <2>2, <2>3 DEF IndicatorInv
<1> QED
  BY <1>1, PttInvariant, PTL

\* Through the relay, once everything sent has arrived and nothing was lost nor a hold
\* expired, a session whose own flag is set is the one the relay holds the floor for.
THEOREM TalkerKeepsFloor == PttSpec => []TalkerHasFloor
<1>1. PttInv => TalkerHasFloor
  <2> SUFFICES ASSUME PttInv, Quiet, relayed, lost = 0, ~expired, NEW p \in PttPeers, ptt_active[p]
               PROVE  floor_holder = p
    BY Zenon DEF TalkerHasFloor
  <2>1. calling[p] = <<>> /\ up[p] = <<>> /\ down[p] = <<>> /\ AskInv(p)
    BY Zenon DEF Quiet, PttInv
  <2>2. Answered(p) = TRUE
    BY Zenon, <2>1, ReachesNothing DEF AskInv
  <2>3. ~Denied(p)
    BY <2>1 DEF Denied
  <2> QED
    BY <2>2, <2>3 DEF Answered
<1> QED
  BY <1>1, PttInvariant, PTL
=============================================================================
