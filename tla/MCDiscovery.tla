----------------------------- MODULE MCDiscovery -----------------------------
(***************************************************************************)
(* How often nodes are started and killed when PeerDiscovery is checked.   *)
(***************************************************************************)
EXTENDS PeerDiscovery

bound(start, kill) == [start |-> start, kill |-> kill]

OneStartOneKill == bound(1, 1)
=============================================================================
