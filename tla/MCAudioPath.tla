---------------------------- MODULE MCAudioPath ----------------------------
(* Sequence numbers modulo 16, started just below the wrap. *)
EXTENDS AudioPath
=============================================================================
