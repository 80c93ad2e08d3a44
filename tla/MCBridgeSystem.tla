--------------------------- MODULE MCBridgeSystem ---------------------------
(***************************************************************************)
(* BridgeSystem for TLC: two of the topics, one announced with its value   *)
(* and one that has to be asked for again; sequence numbers wrap around    *)
(* behind any event.                                                       *)
(***************************************************************************)
EXTENDS BridgeSystem
=============================================================================
