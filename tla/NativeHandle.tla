---------------------------- MODULE NativeHandle ----------------------------
(***************************************************************************)
(* The sessions behind the C interface (gravital-talk-ffi/lib.rs) and its  *)
(* JNI bridge (jni_bridge.rs).  A handle is the address of a SessionInner; *)
(* every function refuses the null handle and trusts any other.  A call    *)
(* borrows the session while it runs; what a session does is elsewhere.    *)
(* Addresses are not reused here: a use of a freed one is told apart.      *)
(***************************************************************************)
EXTENDS Integers, FiniteSets

CONSTANT Handles        \* addresses, positive; 0 is null

ASSUME HandlesAssumption == Handles \subseteq Nat \ {0}

VARIABLES
  native,               \* each SessionInner
  borrowed,             \* how many calls run on it
  misused               \* history: handles destroyed while or before a call used them

nativeVars == <<native, borrowed, misused>>

NativeInit ==
  /\ native = [h \in Handles |-> "none"]
  /\ borrowed = [h \in Handles |-> 0]
  /\ misused = {}

\* What gs_session_create may return: null when the runtime or the socket fails.
NewHandles == {0} \cup {h \in Handles : native[h] = "none" /\ \A g \in 1..(h - 1) : native[g] # "none"}

gs_session_create(h) ==
  /\ native' = [native EXCEPT ![h] = "open"]
  /\ UNCHANGED <<borrowed, misused>>

nativeCreate(h) == IF h = 0 THEN UNCHANGED nativeVars ELSE gs_session_create(h)

\* Box::from_raw: the session is dropped, whoever uses it.
gs_session_destroy(h) ==
  /\ native' = [native EXCEPT ![h] = "freed"]
  /\ misused' = misused \cup {g \in {h} : native[g] = "freed" \/ borrowed[g] > 0}
  /\ UNCHANGED borrowed

nativeDestroy(h) == IF h = 0 THEN UNCHANGED nativeVars ELSE gs_session_destroy(h)

\* A call that ends at once and changes nothing here, after the null check.
Uses(h) ==
  /\ misused' = misused \cup {g \in {h} \ {0} : native[g] = "freed"}
  /\ UNCHANGED <<native, borrowed>>

gs_session_local_port(h) == Uses(h)
gs_session_id(h) == Uses(h)
gs_session_ptt_press(h) == Uses(h)
gs_session_ptt_release(h) == Uses(h)
gs_session_metrics(h) == Uses(h)
gs_session_is_peer_ptt_active(h) == Uses(h)
gs_session_send_audio(h) == Uses(h)

nativeGetLocalPort(h) == gs_session_local_port(h)
nativeGetSessionId(h) == gs_session_id(h)
nativePttPress(h) == gs_session_ptt_press(h)
nativePttRelease(h) == gs_session_ptt_release(h)
nativeGetMetrics(h) == gs_session_metrics(h)
nativeIsPeerPttActive(h) == gs_session_is_peer_ptt_active(h)
nativeSendAudio(h) == gs_session_send_audio(h)

\* gs_session_close: the session leaves whatever it does; the handle stays valid.
gs_session_close(h) ==
  /\ native' = [native EXCEPT ![h] = IF @ = "freed" THEN @ ELSE "closed"]
  /\ misused' = misused \cup {g \in {h} : native[g] = "freed"}
  /\ UNCHANGED borrowed

nativeClose(h) == IF h = 0 THEN UNCHANGED nativeVars ELSE gs_session_close(h)

\* A call that blocks: handshake_common, accept_any, recv_audio.
Enters(h) ==
  /\ borrowed' = [borrowed EXCEPT ![h] = @ + 1]
  /\ misused' = misused \cup {g \in {h} : native[g] = "freed"}
  /\ UNCHANGED native
Leaves(h) ==
  /\ borrowed' = [borrowed EXCEPT ![h] = @ - 1]
  /\ UNCHANGED <<native, misused>>

\* handshake_common: a host that is no literal address is refused, all else that fails
\* is a failed handshake.  A session that was closed does not connect.
nativeConnect(h) ==
  {"GS_ERR_INVALID_ARGUMENT", "GS_ERR_HANDSHAKE"} \cup (IF native[h] = "closed" THEN {} ELSE {"GS_OK"})

\* gs_session_accept_any waits until a client comes or the session is closed.
nativeAcceptAny(h) == CASE native[h] = "open" -> {"GS_OK", "GS_ERR_HANDSHAKE"}
                        [] native[h] = "closed" -> {"GS_ERR_CLOSED"}
                        [] OTHER -> {"GS_OK", "GS_ERR_CLOSED", "GS_ERR_HANDSHAKE"}

\* gs_session_recv_audio gives a frame or an error, which the bridge turns into null;
\* it does not look whether the session was closed.
nativeRecvAudio(h) == {"frame", "null"}
=============================================================================
