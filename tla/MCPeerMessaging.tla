-------------------------- MODULE MCPeerMessaging --------------------------
(* Small instances of PeerMessaging for TLC. *)
EXTENDS PeerMessaging, TLC

CONSTANTS m1, m2, k1, k2, c1, c2
=============================================================================
