----------------------------- MODULE RpcOutcomes -----------------------------
(***************************************************************************)
(* A BridgeRpcClient as BridgeClient uses it: between construction and     *)
(* close() every request changes the object as one outcome says, and       *)
(* nothing else does.  BridgeRpcClient, with its frames and identifiers,   *)
(* implements this module.                                                 *)
(***************************************************************************)
EXTENDS BridgeConnections

VARIABLE object

Init == object = FreshRpc

Next ==
    \/ \E o \in OutcomesOf(object) : object' = AfterRequest(object, o)
    \/ object' = [object EXCEPT !.socket = FALSE]

Spec == Init /\ [][Next]_object
=============================================================================
