------------------------------ MODULE MCRelay ------------------------------
(* Two UDP endpoints and a WebSocket on more sessions than the relay allows. *)
EXTENDS Relay, TLC

CONSTANTS u1, u2, w1, s1, s2, s3

UdpEndpoints == {u1, u2}
WsEndpoints == {w1}
SomeSids == {s1, s2, s3}

Interchangeable == Permutations(UdpEndpoints) \cup Permutations(SomeSids)
=============================================================================
