--------------------------- MODULE BridgeProtocol ---------------------------
(***************************************************************************)
(* _generated/protocol.py: the data types of the version 4 protocol, as    *)
(* data, and what validation accepts.  A JSON value is a tuple that starts *)
(* with its kind; the ends of the integer ranges are parameters.           *)
(***************************************************************************)
EXTENDS Integers, Sequences

CONSTANTS UINT32_MAX, INT32_MAX, INT64_MAX

ASSUME RangeAssumption ==
    /\ {UINT32_MAX, INT32_MAX, INT64_MAX} \subseteq Nat \ {0}
    /\ INT32_MAX <= INT64_MAX

-----------------------------------------------------------------------------
(* Kinds of fields *)

Null == <<"null">>
StrictBool == <<"bool">>
StrictStr == <<"str">>
StrictInt(lo, hi) == <<"int", lo, hi>>
UInt32 == StrictInt(0, UINT32_MAX)
NonZero == StrictInt(1, UINT32_MAX)
Int32 == StrictInt(-INT32_MAX - 1, INT32_MAX)
Ticks == StrictInt(-INT64_MAX - 1, INT64_MAX)
Enum(names) == <<"enum", names>>
Literal(name) == Enum({name})
OneOf(types) == <<"or", types>>
Maybe(type) == OneOf(<<type, Null>>)
ListOf(type) == <<"list", type>>
Dictionary == <<"dict", StrictStr>>
BaseModel(fields) == <<"model", fields>>

-----------------------------------------------------------------------------
(* Requests *)

GameControlOperation == {"initialize", "pause", "resume"}
QueryMethod == {"get_timer_state", "get_run", "get_run_icons", "get_attempt",
                "get_context_state", "get_completed_count"}
TimerOperation == {"start", "split", "skip", "undo", "reset", "pause", "resume"}

QueryRequest == BaseModel([request_id |-> UInt32, method |-> Enum(QueryMethod)])
Control(method, params) ==
    BaseModel([request_id |-> UInt32, method |-> Literal(method), params |-> params])

TimerParams == BaseModel([operation |-> Enum(TimerOperation)])
TimerRequest == Control("timer_operation", TimerParams)
GameControlParams == BaseModel([operation |-> Enum(GameControlOperation)])
GameControlRequest == Control("game_time_operation", GameControlParams)
GameSetParams == BaseModel([operation |-> Literal("set"), ticks |-> Ticks])
GameSetRequest == Control("game_time_operation", GameSetParams)

RpcRequest == <<QueryRequest, TimerRequest, GameControlRequest, GameSetRequest>>

-----------------------------------------------------------------------------
(* Results *)

TimeValue == BaseModel([real_time_ticks |-> Maybe(Ticks), game_time_ticks |-> Maybe(Ticks)])

TimerState == BaseModel([
    phase |-> Enum({"unspecified", "not_running", "running", "paused", "ended"}),
    split_index |-> Int32, real_time_ticks |-> Ticks, game_time_ticks |-> Maybe(Ticks),
    is_game_time_initialized |-> StrictBool, is_game_time_paused |-> StrictBool])

RunMetadata == BaseModel([
    run_id |-> Maybe(StrictStr), platform_name |-> Maybe(StrictStr),
    region_name |-> Maybe(StrictStr), uses_emulator |-> StrictBool, variables |-> Dictionary])

ComparisonTime == BaseModel([name |-> StrictStr, time |-> TimeValue])

SegmentInfo == BaseModel([
    index |-> UInt32, name |-> StrictStr, comparisons |-> ListOf(ComparisonTime),
    best_segment_time |-> TimeValue])

RunState == BaseModel([
    game_name |-> StrictStr, category_name |-> StrictStr, offset_ticks |-> Ticks,
    file_path |-> Maybe(StrictStr), layout_path |-> Maybe(StrictStr),
    metadata |-> Maybe(RunMetadata), comparisons |-> ListOf(StrictStr),
    segments |-> ListOf(SegmentInfo)])

RunIcons == BaseModel([
    game_icon |-> Maybe(StrictStr), segment_icons |-> ListOf(Maybe(StrictStr))])

AttemptSegment == BaseModel([
    index |-> UInt32, split_time |-> TimeValue, custom_variables |-> Dictionary])

AttemptState == BaseModel([attempt_count |-> UInt32, segments |-> ListOf(AttemptSegment)])

ContextState == BaseModel([
    current_timing_method |-> Enum({"unspecified", "real_time", "game_time"}),
    current_comparison |-> StrictStr, custom_variables |-> Dictionary])

CompletedCount == BaseModel([completed_count |-> UInt32])

\* The success branches of RpcResponse, by the type of their result.
ResultTypes == [TimerState |-> TimerState, RunState |-> RunState, RunIcons |-> RunIcons,
                AttemptState |-> AttemptState, ContextState |-> ContextState,
                CompletedCount |-> CompletedCount, NoneType |-> Null]

SuccessResponse(result) ==
    BaseModel([request_id |-> UInt32, session_id |-> NonZero, result |-> ResultTypes[result]])

BridgeErrorCode == {"invalid_request", "invalid_argument", "operation_failed",
                    "internal_error", "permission_denied"}

BridgeError == BaseModel([code |-> Enum(BridgeErrorCode), message |-> StrictStr])

ErrorResponse ==
    BaseModel([request_id |-> UInt32, session_id |-> NonZero, error |-> BridgeError])

-----------------------------------------------------------------------------
(* Events *)

Event(types, timer_state) ==
    BaseModel([session_id |-> NonZero, event_sequence |-> NonZero,
               type |-> Enum(types), timer_state |-> timer_state])

TimerEventType == {"timer_started", "timer_split", "timer_skipped", "timer_undo",
                   "timer_phase_changed"}
ChangedEventType == {"run_changed", "context_changed"}

TimerEvent == Event(TimerEventType, TimerState)
ResetEvent == Event({"timer_reset"}, Maybe(TimerState))
ChangedEvent == Event(ChangedEventType, Null)

WireEvent == <<TimerEvent, ResetEvent, ChangedEvent>>

-----------------------------------------------------------------------------
(* Validation *)

\* Seeded fault: properties nobody knows are ignored.
Fault_Fields(fields, object) == DOMAIN fields \subseteq DOMAIN object

\* Required fields and extra="forbid".
Fields(fields, object) == DOMAIN fields = DOMAIN object

\* Whether a value is an instance of a type: strict scalars, ranges, and no
\* property more or less than the fields.  Inner is the same one level down.
Validates(Inner(_, _), type, v) ==
    CASE type[1] = "null" -> v = Null
      [] type[1] = "int"  -> v[1] = "int" /\ v[2] \in type[2]..type[3]
      [] type[1] = "enum" -> v[1] = "str" /\ v[2] \in type[2]
      [] type[1] = "or"   -> \E i \in DOMAIN type[2] : Inner(type[2][i], v)
      [] type[1] = "list" -> v[1] = "list" /\ \A i \in DOMAIN v[2] : Inner(type[2], v[2][i])
      [] type[1] = "dict" -> v[1] = "object" /\ \A k \in DOMAIN v[2] : Inner(type[2], v[2][k])
      [] type[1] = "model" ->
            /\ v[1] = "object"
            /\ Fields(type[2], v[2])
            /\ \A k \in DOMAIN type[2] : Inner(type[2][k], v[2][k])
      [] OTHER -> v[1] = type[1]

\* The deepest type of the protocol has nine levels: the ticks that may be null
\* in the time of a comparison of a segment of the run of a response.
Level1(type, v) == Validates(LAMBDA t, x : FALSE, type, v)
Level2(type, v) == Validates(Level1, type, v)
Level3(type, v) == Validates(Level2, type, v)
Level4(type, v) == Validates(Level3, type, v)
Level5(type, v) == Validates(Level4, type, v)
Level6(type, v) == Validates(Level5, type, v)
Level7(type, v) == Validates(Level6, type, v)
Level8(type, v) == Validates(Level7, type, v)
Accepts(type, v) == Validates(Level8, type, v)

\* The branches of a union that take a value.
Branches(types, v) == {i \in DOMAIN types : Accepts(types[i], v)}
=============================================================================
