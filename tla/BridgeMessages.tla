--------------------------- MODULE BridgeMessages ---------------------------
(***************************************************************************)
(* What the client makes of one message: of the arguments of a call before *)
(* anything is sent, and of a response or an event frame as it was read    *)
(* from the socket.  What json.loads() makes of a text is a parameter;     *)
(* BridgeJson is the one of _json.py.  Each behaviour takes one message    *)
(* through the client.                                                     *)
(***************************************************************************)
EXTENDS BridgeProtocol, SequencesExt

CONSTANTS
    Loads(_),       \* whether json.loads() with the hooks of _json.py takes a text
    Value(_),       \* the value it gives
    Calls,          \* arguments of game_time_operation() and timer_operation()
    Typed,          \* contents of request models that their owner has changed
    Answers,        \* response frames, with the request they are read for
    EventFrames,    \* event frames
    Pictures        \* keyword arguments of RunIcons()

\* timer_operation() has no ticks, and an object is read as an object.
ASSUME CallsAssumption ==
    \A call \in Calls : call.method = "timer_operation" => call.ticks = Null
ASSUME ObjectsAssumption ==
    \A frame \in EventFrames : frame.text[1] = "object" => Value(frame.text)[1] = "object"

VARIABLES input, outcome
vars == <<input, outcome>>

Pending == [result |-> "pending"]
Refused == [result |-> "refused"]       \* ValueError, ValidationError or TypeError
Malformed == [result |-> "protocol"]    \* BridgeProtocolError
Done(result, value) == [result |-> result, value |-> value]

-----------------------------------------------------------------------------
(* _json.py *)

\* A text frame that decode_object() takes.
Decodes(frame) == frame.opcode = "text" /\ frame.text[1] = "object" /\ Loads(frame.text)

-----------------------------------------------------------------------------
(* models.RunIcons *)

\* The Base64 of two images; every other string is none.
Base64 == [empty |-> "", png |-> "cG5n"]

\* Two images are enough to tell places apart: the bytes are those of one.
ASSUME PicturesAssumption ==
    \A given \in Pictures : given.segment_icons[1] = "list" =>
        \A i \in DOMAIN given.segment_icons[2] :
            given.segment_icons[2][i][1] = "bytes" =>
                \E b \in DOMAIN Base64 : given.segment_icons[2][i] = <<"bytes", b>>

IsIcon(v) == v = Null \/ \E b \in DOMAIN Base64 : v = <<"str", Base64[b]>>

\* _decode_icon(), which raises for anything else.
DecodeIcon(v) ==
    IF v = Null THEN Null
    ELSE IF ~IsIcon(v) THEN <<"ValueError">>
    ELSE <<"bytes", CHOOSE b \in DOMAIN Base64 : v[2] = Base64[b]>>

\* encode_input_bytes() of one field.
EncodeIcon(v) == IF v[1] = "bytes" THEN <<"str", Base64[v[2]]>> ELSE v

\* Seeded fault: the segments are not looked at.
Fault_ValidateIcons(icons) == IsIcon(icons.game_icon)

\* validate_base64()
ValidateIcons(icons) ==
    /\ IsIcon(icons.game_icon)
    /\ \A i \in DOMAIN icons.segment_icons[2] : IsIcon(icons.segment_icons[2][i])

\* The accessors, which decode again.
View(icons) ==
    [game_icon |-> DecodeIcon(icons.game_icon),
     segment_icons |-> [i \in DOMAIN icons.segment_icons[2] |->
                            DecodeIcon(icons.segment_icons[2][i])]]

\* RunIcons(game_icon=..., segment_icons=...)
RunIconsOutcome(given) ==
    LET icons == [game_icon |-> EncodeIcon(given.game_icon),
                  segment_icons |->
                     IF given.segment_icons[1] = "list"
                     THEN <<"list", [i \in DOMAIN given.segment_icons[2] |->
                                        EncodeIcon(given.segment_icons[2][i])]>>
                     ELSE given.segment_icons]
    IN IF Accepts(RunIcons, <<"object", icons>>) /\ ValidateIcons(icons)
       THEN Done("ok", View(icons)) ELSE Refused

-----------------------------------------------------------------------------
(* Requests *)

Request(method, params) == <<"object", [request_id |-> <<"int", 0>>, method |-> <<"str", method>>,
                                        params |-> <<"object", params>>]>>

GameTimeOperation == GameControlOperation \cup {"set"}

\* Seeded fault: ticks are thrown away where they mean nothing.
Fault_GameTimeParams(operation, ticks) ==
    IF operation = "set" THEN [operation |-> <<"str", "set">>, ticks |-> ticks]
    ELSE [operation |-> <<"str", operation>>]

\* The parameters that game_time_operation() builds, none for ValueError.
GameTimeParams(operation, ticks) ==
    CASE operation = "set" /\ ticks # Null ->
            [operation |-> <<"str", "set">>, ticks |-> ticks]
      [] operation \in GameControlOperation /\ ticks = Null ->
            [operation |-> <<"str", operation>>]
      [] OTHER -> <<>>

ApiRequest(call) ==
    IF call.method = "timer_operation"
    THEN Request("timer_operation", [operation |-> <<"str", call.operation>>])
    ELSE Request("game_time_operation", GameTimeParams(call.operation, call.ticks))

\* _REQUEST.validate_python(): what may leave the client.
Valid(v) == Branches(RpcRequest, v) # {}

\* BridgeRpcClient.request() up to the send: the identifier is the client's own.
SendOutcome(v, id) ==
    LET sent == <<"object", [v[2] EXCEPT !.request_id = <<"int", id>>]>>
    IN IF Valid(v) /\ Valid(sent) THEN Done("sent", sent) ELSE Refused

-----------------------------------------------------------------------------
(* Responses *)

\* _QUERY_RESULTS, and NoneType for a control.
QueryResults == [get_timer_state |-> "TimerState", get_run |-> "RunState",
                 get_run_icons |-> "RunIcons", get_attempt |-> "AttemptState",
                 get_context_state |-> "ContextState",
                 get_completed_count |-> "CompletedCount", control |-> "NoneType"]

\* The success branches that take v, icons included.
Successes(v) ==
    {r \in DOMAIN ResultTypes :
        /\ Accepts(SuccessResponse(r), v)
        /\ r = "RunIcons" => ValidateIcons(v[2].result[2])}

\* Seeded fault: any result will do.
Fault_Fits(method, result) == TRUE

\* isinstance(response.result, expected_type)
Fits(method, result) == result = QueryResults[method]

\* request() from the frame it read to what it returns or raises.
AnswerOutcome(answer) ==
    LET v == Value(answer.frame.text)
        types == Successes(v)
        error == Accepts(ErrorResponse, v)
    IN IF ~Decodes(answer.frame) THEN Malformed
       ELSE IF types = {} /\ ~error THEN Malformed
       ELSE IF v[2].request_id # <<"int", answer.id>> THEN Malformed
       ELSE IF types = {} THEN Done("remote", v)
       ELSE LET r == CHOOSE r \in types : TRUE
            IN IF Fits(answer.method, r) THEN Done("ok", v) ELSE Malformed

-----------------------------------------------------------------------------
(* Events *)

\* _decode_event()
EventOutcome(frame) ==
    IF Decodes(frame) /\ Branches(WireEvent, Value(frame.text)) # {}
    THEN Done("ok", Value(frame.text)) ELSE Malformed

\* Seeded fault: the hand-written enum lacks the value of a single literal.
Fault_EventType == TimerEventType \cup ChangedEventType

\* models.EventType, the enum that BridgeEvent.type converts to.
EventType == TimerEventType \cup {"timer_reset"} \cup ChangedEventType

-----------------------------------------------------------------------------
(* One message *)

Inputs ==
    [on : {"call"}, call : Calls] \cup [on : {"typed"}, request : Typed]
        \cup [on : {"answer"}, answer : Answers] \cup [on : {"event"}, frame : EventFrames]
        \cup [on : {"icons"}, icons : Pictures]

Init == input \in Inputs /\ outcome = Pending

Take(on, result) ==
    /\ input.on = on
    /\ outcome = Pending
    /\ outcome' = result
    /\ UNCHANGED input

Next ==
    \/ Take("call", SendOutcome(ApiRequest(input.call), UINT32_MAX))
    \/ Take("typed", SendOutcome(input.request, 0))
    \/ Take("answer", AnswerOutcome(input.answer))
    \/ Take("event", EventOutcome(input.frame))
    \/ Take("icons", RunIconsOutcome(input.icons))

Spec == Init /\ [][Next]_vars

-----------------------------------------------------------------------------
(* Properties *)

Of(on, result) == input.on = on /\ outcome.result = result
Field(name) == outcome.value[2][name]

\* Nothing in a message can be read in two ways: no value that reaches a union
\* of the protocol fits two of its branches, so which model a caller gets does
\* not depend on the order of the branches (models.py SuccessResponse,
\* BridgeEvent; rpc.py _RESPONSE).
OneBranch ==
    outcome # Pending =>
        CASE input.on = "answer" ->
                LET v == Value(input.answer.frame.text)
                IN Cardinality(Successes(v)) + (IF Accepts(ErrorResponse, v) THEN 1 ELSE 0) <= 1
          [] input.on = "event" -> Cardinality(Branches(WireEvent, Value(input.frame.text))) <= 1
          [] Of("call", "sent") \/ Of("typed", "sent") ->
                Cardinality(Branches(RpcRequest, outcome.value)) = 1
          [] OTHER -> TRUE

\* What a caller is given is the result of the method it asked for, with its
\* identifier, also when a valid answer to another method carries it
\* (README:50-59, README:75-77).
ResultFitsMethod ==
    /\ Of("answer", "ok") =>
          /\ Field("request_id") = <<"int", input.answer.id>>
          /\ Accepts(ResultTypes[QueryResults[input.answer.method]], Field("result"))
    /\ Of("answer", "remote") =>
          /\ Field("request_id") = <<"int", input.answer.id>>
          /\ "error" \in DOMAIN outcome.value[2]

\* Every event that passes validation, and so moves the sequence baseline, can
\* be read: its type is a member of the public enum and its timer state is what
\* README:115-126 says of that type; and no such event is refused.
TimerStateRule(type, state) ==
    CASE type \in {"run_changed", "context_changed"} -> state = Null
      [] type = "timer_reset" -> state = Null \/ Accepts(TimerState, state)
      [] OTHER -> Accepts(TimerState, state)

EventReadable ==
    /\ Of("event", "ok") =>
          /\ Field("type")[2] \in EventType
          /\ TimerStateRule(Field("type")[2], Field("timer_state"))
    /\ Of("event", "protocol") /\ Decodes(input.frame) =>
          LET e == Value(input.frame.text)[2]
          IN ~ /\ DOMAIN e = {"session_id", "event_sequence", "type", "timer_state"}
               /\ e.session_id[1] = "int" /\ e.session_id[2] \in 1..UINT32_MAX
               /\ e.event_sequence[1] = "int" /\ e.event_sequence[2] \in 1..UINT32_MAX
               /\ e.type[1] = "str" /\ e.type[2] \in EventType
               /\ TimerStateRule(e.type[2], e.timer_state)

\* A caller that gave its arguments another meaning than the protocol is told
\* before anything is sent: what is sent is valid, carries the client's own
\* identifier, and names the operation with all the arguments of the call
\* (README:69-72).
SentAsCalled ==
    /\ Of("call", "sent") \/ Of("typed", "sent") => Branches(RpcRequest, outcome.value) # {}
    /\ Of("call", "sent") =>
          LET params == Field("params")[2]
          IN /\ Field("request_id") = <<"int", UINT32_MAX>>
             /\ params.operation[2] = input.call.operation
             /\ input.call.ticks = (IF "ticks" \in DOMAIN params THEN params.ticks ELSE Null)

\* Icons that were accepted can be read later, each at its place: the accessors,
\* which decode again, never fail, and give back the bytes a caller put in
\* (README:95-97, models.py RunIcons).
Readable(icons, places) ==
    /\ DOMAIN icons.segment_icons = DOMAIN places
    /\ \A i \in DOMAIN places :
          LET icon == icons.segment_icons[i]
          IN /\ icon[1] \in {"null", "bytes"}
             /\ places[i] = Null <=> icon = Null
             /\ places[i][1] = "bytes" => icon = places[i]

IconsReadable ==
    /\ Of("icons", "ok") => Readable(outcome.value, input.icons.segment_icons[2])
    /\ Of("answer", "ok") /\ input.answer.method = "get_run_icons" =>
          LET icons == Field("result")[2]
          IN /\ IsIcon(icons.game_icon)
             /\ Readable(View(icons), icons.segment_icons[2])
=============================================================================
