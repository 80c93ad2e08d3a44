-------------------------- MODULE MCGeneratedPackage --------------------------
(***************************************************************************)
(* GeneratedPackage for TLC: two commits.  The first one has the schemas   *)
(* of the pinned Bridge in miniature; those of the second are any variant  *)
(* of them, or have no RunIcons.                                           *)
(***************************************************************************)
EXTENDS GeneratedPackage

LOCAL Def(type) == [type |-> type, cond |-> "none"]

\* TimerState is shared by responses and events.
LOCAL Responses(icons, list) ==
    [title |-> "RpcResponse", root |-> Def({"array"}),
     defs |-> [RunIcons |-> icons, TimerState |-> Def({"array"})] @@ list]

LOCAL EventSchema(title, timer) ==
    [title |-> title, root |-> Def({"array"}), defs |-> [TimerState |-> Def(timer)]]

LOCAL List(type) == [ListOfString |-> Def(type)]

Official ==
    <<Responses([type |-> Kinds, cond |-> "null_is_list"], List({"array"})),
      EventSchema("BridgeEvent", {"array"})>>

Variants ==
    {<<Responses(icons, list), EventSchema(title, timer)>> :
        icons \in [type : {Kinds, {"array"}}, cond : Conditionals],
        list \in {<<>>, List({"array"}), List(Kinds)},
        title \in {"BridgeEvent", "RunIcons", "RpcResponse"},
        timer \in {{"array"}, Kinds}}
    \cup {<<EventSchema("BridgeEvent", {"array"})>>}

MCHistories == {<<Official, variant>> : variant \in Variants}
=============================================================================
