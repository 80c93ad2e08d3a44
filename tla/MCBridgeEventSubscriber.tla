----------------------- MODULE MCBridgeEventSubscriber -----------------------
(***************************************************************************)
(* BridgeEventSubscriber for TLC.                                          *)
(***************************************************************************)
EXTENDS BridgeEventSubscriber
=============================================================================
