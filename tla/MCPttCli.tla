----------------------------- MODULE MCPttCli -----------------------------
(* Two connections, and a sample channel with room for one sample. *)
EXTENDS PttCli
=============================================================================
