----------------------------- MODULE MCSession -----------------------------
(* A server with a client and its restart, and a server with one client. *)
EXTENDS Session, TLC

CONSTANTS c1, c2, srv, a1, a2, opus, pcm

\* c2 is the restart of c1 on the same address, with another configuration.  It
\* prefers a codec the server does not have.
RestartClients == {c1, c2}
RestartAddr == c1 :> a1 @@ c2 :> a1 @@ srv :> a2
RestartPreferred == c1 :> opus @@ c2 :> pcm @@ srv :> opus
RestartSupported == c1 :> <<opus>> @@ c2 :> <<pcm, opus>> @@ srv :> <<opus>>
RestartVersion == c1 :> 2 @@ c2 :> 1 @@ srv :> 1
RestartClosers == {c2, srv}

\* One client.
PairClients == {c1}
PairAddr == c1 :> a1 @@ srv :> a2
PairPreferred == c1 :> opus @@ srv :> opus
PairSupported == c1 :> <<opus>> @@ srv :> <<opus>>
PairVersion == c1 :> 1 @@ srv :> 1
PairAll == {c1, srv}
=============================================================================
