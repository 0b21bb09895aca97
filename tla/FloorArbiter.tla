---------------------------- MODULE FloorArbiter ----------------------------
(***************************************************************************)
(* What the relay promises about the floor of a session: it is somebody's  *)
(* or nobody's, and it changes hands only by becoming nobody's first.      *)
(***************************************************************************)

CONSTANTS Sids, Peers, Nil

VARIABLE holder   \* who has the floor of each session, Nil for nobody

Init == holder = [s \in Sids |-> Nil]

Grant(s, p) == holder[s] = Nil /\ holder' = [holder EXCEPT ![s] = p]

Free(s) == holder[s] # Nil /\ holder' = [holder EXCEPT ![s] = Nil]

Next == \E s \in Sids : Free(s) \/ \E p \in Peers : Grant(s, p)

Spec == Init /\ [][Next]_holder
=============================================================================
