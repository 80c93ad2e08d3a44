-------------------------- MODULE MCBridgeMessages --------------------------
(***************************************************************************)
(* BridgeMessages for TLC: for every data type of the protocol a valid     *)
(* text and every text one mistake away from it, at any depth: a field of  *)
(* another kind or just out of range, missing, unknown or given twice.     *)
(***************************************************************************)
EXTENDS BridgeJson

\* Something of every kind.
Odd == {Null, <<"bool">>, <<"float">>, <<"NaN">>, <<"str", "odd">>, <<"str", "cG5n">>,
        <<"int", 0>>, <<"int", 1>>, <<"list", <<>>>>, <<"object", <<>>>>}

RECURSIVE Sample(_)
Sample(type) ==
    CASE type[1] = "int"  -> <<"int", type[3]>>
      [] type[1] = "enum" -> <<"str", CHOOSE name \in type[2] : TRUE>>
      [] type[1] = "str"  -> <<"str", "cG5n">>
      [] type[1] = "or"   -> Sample(type[2][1])
      [] type[1] = "list" -> <<"list", <<Sample(type[2])>>>>
      [] type[1] = "dict" -> <<"object", <<<<"key", Sample(type[2])>>>>>>
      [] type[1] = "model" ->
            LET keys == FoldSet(LAMBDA k, rest : Append(rest, k), <<>>, DOMAIN type[2])
            IN <<"object", [i \in DOMAIN keys |-> <<keys[i], Sample(type[2][keys[i]])>>]>>
      [] OTHER -> type

\* Properties that belong to other messages, or to none.
Strangers == {"result", "error", "params", "unknown"}

RECURSIVE Near(_)
Near(type) ==
    CASE type[1] = "int"  -> Odd \cup {<<"int", n>> : n \in {type[2] - 1, type[2], type[3], type[3] + 1}}
      [] type[1] = "enum" -> Odd \cup {<<"str", name>> : name \in type[2]}
      [] type[1] = "or"   -> UNION {Near(type[2][i]) : i \in DOMAIN type[2]}
      [] type[1] = "list" -> Odd \cup {<<"list", <<Sample(type[2]), x>>>> : x \in Near(type[2])}
      [] type[1] = "dict" -> Odd \cup {<<"object", <<<<"key", x>>>>>> : x \in Near(type[2])}
                                 \cup {<<"object", <<<<"key", Sample(type[2])>>, <<"key", Null>>>>>>}
      [] type[1] = "model" ->
            LET base == Sample(type)[2]
            IN {<<"object", base>>}
               \cup UNION {{<<"object", [base EXCEPT ![i][2] = x]>> :
                                x \in Near(type[2][base[i][1]])} : i \in DOMAIN base}
               \cup {<<"object", RemoveAt(base, i)>> : i \in DOMAIN base}
               \cup {<<"object", Append(base, base[i])>> : i \in DOMAIN base}
               \cup {<<"object", <<<<base[i][1], Null>>>> \o base>> : i \in DOMAIN base}
               \cup {<<"object", Append(base, <<k, Null>>)>> : k \in Strangers}
      [] OTHER -> Odd

Texts(texts) == [opcode : {"text"}, text : texts]
NoText(text) == [opcode : {"binary", "other", "text"}, text : {text, <<"garbage">>, <<"list", <<>>>>}]

\* All that one method may be answered with: near its own result, and the valid
\* answers to all the others.
AnswersTo(method) ==
    LET own == SuccessResponse(QueryResults[method])
    IN Texts(Near(own) \cup Near(ErrorResponse)
                \cup {Sample(SuccessResponse(r)) : r \in DOMAIN ResultTypes})
       \cup NoText(Sample(own))

MCAnswers ==
    UNION {[id : {UINT32_MAX, 0}, method : {m}, frame : AnswersTo(m)] : m \in DOMAIN QueryResults}

\* Every type with and without a timer state.
EventText(type, state) ==
    <<"object", <<<<"session_id", <<"int", 1>>>>, <<"event_sequence", <<"int", UINT32_MAX>>>>,
                  <<"type", <<"str", type>>>>, <<"timer_state", state>>>>>>
Types == {"timer_started", "timer_split", "timer_skipped", "timer_undo", "timer_phase_changed",
          "timer_reset", "run_changed", "context_changed", "timer_stopped"}

MCEventFrames ==
    Texts(UNION {Near(WireEvent[i]) : i \in DOMAIN WireEvent}
             \cup {EventText(t, s) : t \in Types, s \in {Null, Sample(TimerState)}})
    \cup NoText(Sample(TimerEvent))

MCCalls ==
    [method : {"timer_operation"}, operation : TimerOperation, ticks : {Null}]
        \cup [method : {"game_time_operation"}, operation : GameTimeOperation \cup {"stop"},
              ticks : {Null, <<"bool">>, <<"float">>}
                         \cup {<<"int", n>> : n \in {Ticks[2] - 1, Ticks[2], Ticks[3], Ticks[3] + 1}}]

\* The contents of typed models, before JSON: no property can be given twice,
\* nor can request_id be missing.
MCTyped ==
    {JsonValue(text) : text \in
        {t \in UNION {Near(RpcRequest[i]) : i \in DOMAIN RpcRequest} :
            /\ t[1] = "object" /\ Object(t[2])
            /\ \E i \in DOMAIN t[2] : t[2][i][1] = "request_id"}}

Icons == {Null, <<"bytes", "png">>, <<"bytes", "empty">>, <<"str", "cG5n">>, <<"str", "odd">>, <<"bool">>}
MCPictures ==
    [game_icon : Icons,
     segment_icons : {Null, <<"list", <<>>>>} \cup {<<"list", <<a, b>>>> : a \in Icons, b \in Icons}]
=============================================================================
