--------------------------- MODULE MCJitterBuffer ---------------------------
(* The ring with two slots and frames 0 .. 4: every slot is reused. *)
EXTENDS JitterBuffer
=============================================================================
