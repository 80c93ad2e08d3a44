-------------------------- MODULE MCBridgeRpcClient --------------------------
(***************************************************************************)
(* BridgeRpcClient for TLC: one query and one control, so that a result of *)
(* the wrong type exists, and more calls than identifiers, so that they    *)
(* wrap around while abandoned answers are unread.                         *)
(***************************************************************************)
EXTENDS BridgeRpcClient
=============================================================================
