--------------------------- MODULE MCBridgeClient ---------------------------
(***************************************************************************)
(* BridgeClient for TLC: two sessions, so that a change and a change back  *)
(* exist, and three sequence numbers, so that feeds of MaxFeed events wrap *)
(* around.                                                                 *)
(***************************************************************************)
EXTENDS BridgeClient
=============================================================================
