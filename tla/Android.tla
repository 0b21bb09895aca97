------------------------------ MODULE Android ------------------------------
(***************************************************************************)
(* The Android application: PairingActivity hands the session it connected *)
(* to MainActivity in an intent and finishes, while the coroutines of both *)
(* view models run on.                                                     *)
(***************************************************************************)
EXTENDS PttScreen

androidVars == <<nativeVars, pairingVars, mainVars, screenVars>>

AndroidInit == NativeInit /\ PairingInit /\ ScreenInit

\* As launchPttScreen leaves it when a host's first client has connected.
HandedOver ==
  /\ native = [h \in Handles |-> IF h = 1 THEN "open" ELSE "none"]
  /\ borrowed = [h \in Handles |-> 0] /\ misused = {}
  /\ pairing = [alive |-> TRUE, nativeHandle |-> 1, screen |-> [at |-> "Connected", handle |-> 1],
                finishing |-> TRUE, launched |-> 1]
  /\ jobs = [t \in Coroutines |-> Ended]
  /\ ends = [h \in Handles |-> 0] /\ raced = {}
  /\ mainThread = Idle /\ intent = 1 /\ events = 1 /\ taken = {}
  /\ ScreenInit

AndroidNext ==
  \/ PairingNext /\ UNCHANGED screenVars
  \/ ScreenNext /\ UNCHANGED pairingVars

-----------------------------------------------------------------------------
\* A native session is neither used after it was destroyed nor destroyed while a call
\* runs on it, unless the user, the end of an activity, a lost network or a failed
\* connect() of the call screen ended it under the call: the hosts and joins of pairing
\* that fail, overlap or try the next address never do.
UsedWhileLive == misused \subseteq taken
=============================================================================
