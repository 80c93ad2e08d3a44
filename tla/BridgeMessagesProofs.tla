------------------------ MODULE BridgeMessagesProofs ------------------------
(***************************************************************************)
(* What the client makes of a message, for every decoder, every set of     *)
(* messages and every range of the integers: nothing is read in two ways,  *)
(* results fit their methods, events and icons can be read, and what is    *)
(* sent is what was called.                                                *)
(***************************************************************************)
EXTENDS BridgeMessages, FiniteSetTheorems, TLAPS

-----------------------------------------------------------------------------
(* One level of validation *)

\* A level accepts whatever the levels below it accept: no type is cut off by
\* looking deeper.
LEMMA LevelsGrow ==
    /\ \A t, x : Level5(t, x) => Level6(t, x)
    /\ \A t, x : Level6(t, x) => Level7(t, x)
    /\ \A t, x : Level7(t, x) => Level8(t, x)
    /\ \A t, x : Level8(t, x) => Accepts(t, x)
    /\ \A t, x : Accepts(t, x) => Validates(Accepts, t, x)
<1>2. \A t, x : Level1(t, x) => Level2(t, x)  BY DEF Level1, Level2, Validates
<1>3. \A t, x : Level2(t, x) => Level3(t, x)  BY <1>2 DEF Level2, Level3, Validates
<1>4. \A t, x : Level3(t, x) => Level4(t, x)  BY <1>3 DEF Level3, Level4, Validates
<1>5. \A t, x : Level4(t, x) => Level5(t, x)  BY <1>4 DEF Level4, Level5, Validates
<1>6. \A t, x : Level5(t, x) => Level6(t, x)  BY <1>5 DEF Level5, Level6, Validates
<1>7. \A t, x : Level6(t, x) => Level7(t, x)  BY <1>6 DEF Level6, Level7, Validates
<1>8. \A t, x : Level7(t, x) => Level8(t, x)  BY <1>7 DEF Level7, Level8, Validates
<1>9. \A t, x : Level8(t, x) => Accepts(t, x) BY <1>8 DEF Level8, Accepts, Validates
<1>10. \A t, x : Accepts(t, x) => Validates(Accepts, t, x)
  <2>1. \A t, x : Accepts(t, x) <=> Validates(Level8, t, x)
    BY DEF Accepts
  <2> QED BY <1>9, <2>1 DEF Validates
<1> QED BY <1>6, <1>7, <1>8, <1>9, <1>10

\* The types a type is made of, and the types of at most so many levels.
Parts(type) ==
    CASE type[1] = "or" -> {type[2][i] : i \in DOMAIN type[2]}
      [] type[1] \in {"list", "dict"} -> {type[2]}
      [] type[1] = "model" -> {type[2][k] : k \in DOMAIN type[2]}
      [] OTHER -> {}

Deep1(type) == Parts(type) = {}
Deep2(type) == \A part \in Parts(type) : Deep1(part)
Deep3(type) == \A part \in Parts(type) : Deep2(part)
Deep4(type) == \A part \in Parts(type) : Deep3(part)
Deep5(type) == \A part \in Parts(type) : Deep4(part)
Deep6(type) == \A part \in Parts(type) : Deep5(part)
Deep7(type) == \A part \in Parts(type) : Deep6(part)
Deep8(type) == \A part \in Parts(type) : Deep7(part)
Deep9(type) == \A part \in Parts(type) : Deep8(part)

LEMMA DeepsGrow ==
    ASSUME NEW type
    PROVE  /\ Deep1(type) => Deep2(type)
           /\ Deep2(type) => Deep3(type)
           /\ Deep3(type) => Deep4(type)
           /\ Deep4(type) => Deep5(type)
           /\ Deep5(type) => Deep6(type)
           /\ Deep6(type) => Deep7(type)
           /\ Deep7(type) => Deep8(type)
           /\ Deep8(type) => Deep9(type)
<1>1. \A t : Deep1(t) => Deep2(t)  BY DEF Deep1, Deep2
<1>2. \A t : Deep2(t) => Deep3(t)  BY <1>1 DEF Deep2, Deep3
<1>3. \A t : Deep3(t) => Deep4(t)  BY <1>2 DEF Deep3, Deep4
<1>4. \A t : Deep4(t) => Deep5(t)  BY <1>3 DEF Deep4, Deep5
<1>5. \A t : Deep5(t) => Deep6(t)  BY <1>4 DEF Deep5, Deep6
<1>6. \A t : Deep6(t) => Deep7(t)  BY <1>5 DEF Deep6, Deep7
<1>7. \A t : Deep7(t) => Deep8(t)  BY <1>6 DEF Deep7, Deep8
<1>8. \A t : Deep8(t) => Deep9(t)  BY <1>7 DEF Deep8, Deep9
<1> QED BY <1>1, <1>2, <1>3, <1>4, <1>5, <1>6, <1>7, <1>8

\* As many levels as a type has are enough for it: one more refuses nothing.
LEMMA LevelsSettle ==
    ASSUME NEW type
    PROVE  /\ Deep6(type) => \A v : Level7(type, v) => Level6(type, v)
           /\ Deep7(type) => \A v : Level8(type, v) => Level7(type, v)
           /\ Deep8(type) => \A v : Accepts(type, v) => Level8(type, v)
           /\ Deep9(type) => \A v : Validates(Accepts, type, v) => Accepts(type, v)
<1>1. ASSUME NEW t, Deep1(t), NEW v, Level2(t, v) PROVE Level1(t, v)
  <2>1. Parts(t) = {}
    BY <1>1 DEF Deep1
  <2>2. CASE t[1] = "or"
    <3>1. \A i \in DOMAIN t[2] : t[2][i] \in Parts(t)
      BY <2>2 DEF Parts
    <3> QED BY <1>1, <2>1, <2>2, <3>1 DEF Level1, Level2, Validates
  <2>3. CASE t[1] \in {"list", "dict"}
    <3>1. t[2] \in Parts(t)
      BY <2>3 DEF Parts
    <3> QED BY <2>1, <3>1
  <2>4. CASE t[1] = "model"
    <3>1. \A k \in DOMAIN t[2] : t[2][k] \in Parts(t)
      BY <2>4 DEF Parts
    <3> QED BY <1>1, <2>1, <2>4, <3>1 DEF Level1, Level2, Validates
  <2>5. CASE t[1] \notin {"or", "list", "dict", "model"}
    BY <1>1, <2>5 DEF Level1, Level2, Validates
  <2> QED BY <2>2, <2>3, <2>4, <2>5
<1>2. \A t, v : Deep2(t) => (Level3(t, v) => Level2(t, v))
  BY <1>1 DEF Level2, Validates, Parts, Deep2, Level3
<1>3. \A t, v : Deep3(t) => (Level4(t, v) => Level3(t, v))
  BY <1>2 DEF Level3, Validates, Parts, Deep3, Level4
<1>4. \A t, v : Deep4(t) => (Level5(t, v) => Level4(t, v))
  BY <1>3 DEF Level4, Validates, Parts, Deep4, Level5
<1>5. \A t, v : Deep5(t) => (Level6(t, v) => Level5(t, v))
  BY <1>4 DEF Level5, Validates, Parts, Deep5, Level6
<1>6. \A t, v : Deep6(t) => (Level7(t, v) => Level6(t, v))
  BY <1>5 DEF Level6, Validates, Parts, Deep6, Level7
<1>7. \A t, v : Deep7(t) => (Level8(t, v) => Level7(t, v))
  BY <1>6 DEF Level7, Validates, Parts, Deep7, Level8
<1>8. \A t, v : Deep8(t) => (Accepts(t, v) => Level8(t, v))
  BY <1>7 DEF Level8, Validates, Parts, Deep8, Accepts
<1>9. \A t, v : Deep9(t) => (Validates(Accepts, t, v) => Accepts(t, v))
  <2>1. \A t, v : Accepts(t, v) <=> Validates(Level8, t, v)
    BY DEF Accepts
  <2> QED BY <1>8, <2>1 DEF Validates, Parts, Deep9
<1> QED BY <1>6, <1>7, <1>8, <1>9

\* A model at the top of a message, in the result or the parameters of one, and
\* where it may also be null.
LEMMA ModelLevels ==
    ASSUME NEW fields, NEW v
    PROVE  /\ Accepts(BaseModel(fields), v) <=>
                 /\ v[1] = "object"
                 /\ DOMAIN fields = DOMAIN v[2]
                 /\ \A k \in DOMAIN fields : Level8(fields[k], v[2][k])
           /\ Level8(BaseModel(fields), v) <=>
                 /\ v[1] = "object"
                 /\ DOMAIN fields = DOMAIN v[2]
                 /\ \A k \in DOMAIN fields : Level7(fields[k], v[2][k])
           /\ Level7(BaseModel(fields), v) <=>
                 /\ v[1] = "object"
                 /\ DOMAIN fields = DOMAIN v[2]
                 /\ \A k \in DOMAIN fields : Level6(fields[k], v[2][k])
<1>1. Accepts(BaseModel(fields), v) <=>
         /\ v[1] = "object"
         /\ DOMAIN fields = DOMAIN v[2]
         /\ \A k \in DOMAIN fields : Level8(fields[k], v[2][k])
  BY DEF Accepts, Validates, BaseModel, Fields
<1>2. Level8(BaseModel(fields), v) <=>
         /\ v[1] = "object"
         /\ DOMAIN fields = DOMAIN v[2]
         /\ \A k \in DOMAIN fields : Level7(fields[k], v[2][k])
  BY DEF Level8, Validates, BaseModel, Fields
<1>3. Level7(BaseModel(fields), v) <=>
         /\ v[1] = "object"
         /\ DOMAIN fields = DOMAIN v[2]
         /\ \A k \in DOMAIN fields : Level6(fields[k], v[2][k])
  BY DEF Level7, Validates, BaseModel, Fields
<1> QED BY <1>1, <1>2, <1>3

\* The fields of a message that are not models.
LEMMA FieldLevels ==
    ASSUME NEW v
    PROVE  /\ \A names : Level8(Enum(names), v) <=> v[1] = "str" /\ v[2] \in names
           /\ \A type : Level8(Maybe(type), v) <=> Level7(type, v) \/ v = Null
           /\ Level8(Null, v) <=> v = Null
           /\ Level8(NonZero, v) <=> v[1] = "int" /\ v[2] \in 1..UINT32_MAX
<1>1. \A names : Level8(Enum(names), v) <=> v[1] = "str" /\ v[2] \in names
  BY DEF Level8, Validates, Enum
<1>2. Level7(Null, v) <=> v = Null
  BY DEF Level7, Validates, Null
<1>3. \A type : Level8(Maybe(type), v) <=> Level7(type, v) \/ Level7(Null, v)
  <2> TAKE type
  <2> DEFINE types == <<type, Null>>
  <2>1. Level8(Maybe(type), v) <=> \E i \in DOMAIN types : Level7(types[i], v)
    BY DEF Level8, Validates, Maybe, OneOf
  <2>2. DOMAIN types = {1, 2} /\ types[1] = type /\ types[2] = Null
    OBVIOUS
  <2> QED BY <2>1, <2>2
<1>4. Level8(Null, v) <=> v = Null
  BY DEF Level8, Validates, Null
<1>5. Level8(NonZero, v) <=> v[1] = "int" /\ v[2] \in 1..UINT32_MAX
  BY DEF Level8, Validates, NonZero, StrictInt
<1> QED BY <1>1, <1>2, <1>3, <1>4, <1>5

\* How the parts of a type lie in it.
LEMMA TypeParts ==
    /\ \A fields : Parts(BaseModel(fields)) = {fields[k] : k \in DOMAIN fields}
    /\ \A type : Parts(ListOf(type)) = {type}
    /\ \A type : Parts(Maybe(type)) = {type, Null}
    /\ Parts(Dictionary) = {StrictStr}
    /\ \A lo, hi : Parts(StrictInt(lo, hi)) = {}
    /\ \A names : Parts(Enum(names)) = {}
    /\ Parts(StrictStr) = {} /\ Parts(StrictBool) = {} /\ Parts(Null) = {}
<1>1. \A fields : Parts(BaseModel(fields)) = {fields[k] : k \in DOMAIN fields}
  BY DEF Parts, BaseModel
<1>2. \A type : Parts(ListOf(type)) = {type}
  BY DEF Parts, ListOf
<1>3. ASSUME NEW type PROVE Parts(Maybe(type)) = {type, Null}
  <2> DEFINE types == <<type, Null>>
  <2>1. DOMAIN types = {1, 2} /\ types[1] = type /\ types[2] = Null
    OBVIOUS
  <2>2. Parts(Maybe(type)) = {types[i] : i \in DOMAIN types}
    BY DEF Parts, Maybe, OneOf
  <2> HIDE DEF types
  <2> QED BY <2>1, <2>2
<1>4. Parts(Dictionary) = {StrictStr}
  BY DEF Parts, Dictionary
<1>5. \A lo, hi : Parts(StrictInt(lo, hi)) = {}
  BY DEF Parts, StrictInt
<1>6. \A names : Parts(Enum(names)) = {}
  BY DEF Parts, Enum
<1>7. Parts(StrictStr) = {} /\ Parts(StrictBool) = {} /\ Parts(Null) = {}
  BY DEF Parts, StrictStr, StrictBool, Null
<1> QED BY <1>1, <1>2, <1>3, <1>4, <1>5, <1>6, <1>7

\* The types without parts, and those with one level of parts.
LEMMA ShallowTypes ==
    /\ \A type \in {UInt32, NonZero, Int32, Ticks, StrictStr, StrictBool, Null} : Deep1(type)
    /\ \A names : Deep1(Enum(names))
    /\ Deep2(Maybe(Ticks)) /\ Deep2(Maybe(StrictStr)) /\ Deep2(Dictionary)
    /\ Deep2(ListOf(StrictStr)) /\ Deep3(ListOf(Maybe(StrictStr)))
<1>1. \A type \in {UInt32, NonZero, Int32, Ticks, StrictStr, StrictBool, Null} : Deep1(type)
  BY TypeParts DEF Deep1, UInt32, NonZero, Int32, Ticks
<1>2. \A names : Deep1(Enum(names))
  BY TypeParts DEF Deep1
<1>3. Deep2(Maybe(Ticks)) /\ Deep2(Maybe(StrictStr)) /\ Deep2(Dictionary) /\ Deep2(ListOf(StrictStr))
  BY <1>1, TypeParts DEF Deep2
<1>4. Deep3(ListOf(Maybe(StrictStr)))
  BY <1>3, TypeParts DEF Deep3
<1> QED BY <1>1, <1>2, <1>3, <1>4

\* A timer state is the same wherever it stands.
LEMMA TimerStateLevels ==
    /\ Deep3(TimerState)
    /\ \A s : Accepts(TimerState, s) <=> Level8(TimerState, s)
    /\ \A s : Accepts(TimerState, s) <=> Level7(TimerState, s)
<1>1. \A part \in Parts(TimerState) : part = Maybe(Ticks) \/ Deep1(part)
  BY TypeParts, ShallowTypes DEF TimerState
<1>2. Deep3(TimerState)
  BY <1>1, ShallowTypes, DeepsGrow DEF Deep3
<1>3. Deep7(TimerState) /\ Deep8(TimerState)
  BY <1>2, DeepsGrow
<1> QED BY <1>2, <1>3, LevelsSettle, LevelsGrow

\* The results and messages of the protocol have at most nine levels: looking
\* deeper takes and refuses the same values.
THEOREM NineLevelsEnough ==
    /\ \A r \in DOMAIN ResultTypes : \A v :
          Validates(Accepts, SuccessResponse(r), v) <=> Accepts(SuccessResponse(r), v)
    /\ \A v : Validates(Accepts, ErrorResponse, v) <=> Accepts(ErrorResponse, v)
    /\ \A i \in DOMAIN RpcRequest : \A v :
          Validates(Accepts, RpcRequest[i], v) <=> Accepts(RpcRequest[i], v)
    /\ \A i \in DOMAIN WireEvent : \A v :
          Validates(Accepts, WireEvent[i], v) <=> Accepts(WireEvent[i], v)
    /\ \A v : Validates(Accepts, RunIcons, v) <=> Accepts(RunIcons, v)
<1>1. Deep3(TimeValue)
  <2>1. \A part \in Parts(TimeValue) : part = Maybe(Ticks)
    BY TypeParts DEF TimeValue
  <2> QED BY <2>1, ShallowTypes DEF Deep3
<1>2. Deep4(ComparisonTime)
  <2>1. \A part \in Parts(ComparisonTime) : part = TimeValue \/ Deep1(part)
    BY TypeParts, ShallowTypes DEF ComparisonTime
  <2> QED BY <1>1, <2>1, DeepsGrow DEF Deep4
<1>3. Deep6(SegmentInfo)
  <2>1. \A part \in Parts(SegmentInfo) :
            part = ListOf(ComparisonTime) \/ part = TimeValue \/ Deep1(part)
    BY TypeParts, ShallowTypes DEF SegmentInfo
  <2>2. Deep5(ListOf(ComparisonTime))
    BY <1>2, TypeParts DEF Deep5
  <2> QED BY <1>1, <2>1, <2>2, DeepsGrow DEF Deep6
<1>4. Deep3(RunMetadata)
  <2>1. \A part \in Parts(RunMetadata) :
            part = Maybe(StrictStr) \/ part = Dictionary \/ Deep1(part)
    BY TypeParts, ShallowTypes DEF RunMetadata
  <2> QED BY <2>1, ShallowTypes, DeepsGrow DEF Deep3
<1>5. Deep8(RunState)
  <2>1. \A part \in Parts(RunState) :
            \/ part = ListOf(SegmentInfo) \/ part = Maybe(RunMetadata)
            \/ part = Maybe(StrictStr) \/ part = ListOf(StrictStr) \/ Deep1(part)
    BY TypeParts, ShallowTypes DEF RunState
  <2>2. Deep7(ListOf(SegmentInfo))
    BY <1>3, TypeParts DEF Deep7
  <2>3. Deep4(Maybe(RunMetadata))
    BY <1>4, TypeParts, ShallowTypes, DeepsGrow DEF Deep4
  <2>4. \A part \in Parts(RunState) : Deep7(part)
    BY <2>1, <2>2, <2>3, ShallowTypes, DeepsGrow
  <2> QED BY <2>4 DEF Deep8
<1>6. Deep4(RunIcons)
  <2>1. \A part \in Parts(RunIcons) :
            part = Maybe(StrictStr) \/ part = ListOf(Maybe(StrictStr))
    BY TypeParts DEF RunIcons
  <2> QED BY <2>1, ShallowTypes, DeepsGrow DEF Deep4
<1>7. Deep6(AttemptState)
  <2>1. \A part \in Parts(AttemptSegment) : part = TimeValue \/ part = Dictionary \/ Deep1(part)
    BY TypeParts, ShallowTypes DEF AttemptSegment
  <2>2. Deep4(AttemptSegment)
    BY <1>1, <2>1, ShallowTypes, DeepsGrow DEF Deep4
  <2>3. Deep5(ListOf(AttemptSegment))
    BY <2>2, TypeParts DEF Deep5
  <2>4. \A part \in Parts(AttemptState) : part = ListOf(AttemptSegment) \/ Deep1(part)
    BY TypeParts, ShallowTypes DEF AttemptState
  <2> QED BY <2>3, <2>4, DeepsGrow DEF Deep6
<1>8. Deep3(ContextState) /\ Deep2(CompletedCount)
  <2>1. \A part \in Parts(ContextState) : part = Dictionary \/ Deep1(part)
    BY TypeParts, ShallowTypes DEF ContextState
  <2>2. \A part \in Parts(CompletedCount) : Deep1(part)
    BY TypeParts, ShallowTypes DEF CompletedCount
  <2> QED BY <2>1, <2>2, ShallowTypes, DeepsGrow DEF Deep2, Deep3
<1>9. \A r \in DOMAIN ResultTypes : Deep8(ResultTypes[r])
  BY <1>5, <1>6, <1>7, <1>8, TimerStateLevels, ShallowTypes, DeepsGrow DEF ResultTypes
<1>10. ASSUME NEW r \in DOMAIN ResultTypes PROVE Deep9(SuccessResponse(r))
  <2>1. \A part \in Parts(SuccessResponse(r)) : part = ResultTypes[r] \/ Deep1(part)
    BY TypeParts, ShallowTypes DEF SuccessResponse
  <2> QED BY <1>9, <2>1, DeepsGrow DEF Deep9
<1>11. Deep9(ErrorResponse)
  <2>1. \A part \in Parts(BridgeError) : Deep1(part)
    BY TypeParts, ShallowTypes DEF BridgeError
  <2>2. \A part \in Parts(ErrorResponse) : part = BridgeError \/ Deep1(part)
    BY TypeParts, ShallowTypes DEF ErrorResponse
  <2>3. Deep2(BridgeError)
    BY <2>1 DEF Deep2
  <2> QED BY <2>2, <2>3, DeepsGrow DEF Deep9
<1>12. ASSUME NEW i \in DOMAIN RpcRequest PROVE Deep9(RpcRequest[i])
  <2>1. \A params \in {TimerParams, GameControlParams, GameSetParams} :
            \A part \in Parts(params) : Deep1(part)
    BY TypeParts, ShallowTypes DEF TimerParams, GameControlParams, GameSetParams, Literal
  <2>2. \A params \in {TimerParams, GameControlParams, GameSetParams} : Deep2(params)
    BY <2>1 DEF Deep2
  <2>3. \A method, params : \A part \in Parts(Control(method, params)) : part = params \/ Deep1(part)
    BY TypeParts, ShallowTypes DEF Control, Literal
  <2>4. \A part \in Parts(QueryRequest) : Deep1(part)
    BY TypeParts, ShallowTypes DEF QueryRequest
  <2>5. \A part \in Parts(RpcRequest[i]) :
            part \in {TimerParams, GameControlParams, GameSetParams} \/ Deep1(part)
    BY <2>3, <2>4 DEF RpcRequest, TimerRequest, GameControlRequest, GameSetRequest
  <2> QED BY <2>2, <2>5, DeepsGrow DEF Deep9
<1>13. ASSUME NEW i \in DOMAIN WireEvent PROVE Deep9(WireEvent[i])
  <2>1. \A types, state : \A part \in Parts(Event(types, state)) : part = state \/ Deep1(part)
    BY TypeParts, ShallowTypes DEF Event
  <2>2. \A part \in Parts(WireEvent[i]) :
            part \in {TimerState, Maybe(TimerState)} \/ Deep1(part)
    BY <2>1, ShallowTypes DEF WireEvent, TimerEvent, ResetEvent, ChangedEvent
  <2>3. Deep4(Maybe(TimerState))
    BY TimerStateLevels, TypeParts, ShallowTypes, DeepsGrow DEF Deep4
  <2> QED BY <2>2, <2>3, TimerStateLevels, DeepsGrow DEF Deep9
<1>14. Deep9(RunIcons)
  BY <1>6, DeepsGrow
<1> QED BY <1>10, <1>11, <1>12, <1>13, <1>14, LevelsSettle, LevelsGrow

-----------------------------------------------------------------------------
(* Branches *)

\* A set whose members are all the same has at most one.
LEMMA AtMostOne ==
    ASSUME NEW S, \A x, y \in S : x = y
    PROVE  /\ S = {} => Cardinality(S) = 0
           /\ S # {} => Cardinality(S) = 1
<1>1. CASE S = {}
  BY <1>1, FS_EmptySet
<1>2. CASE S # {}
  <2>1. PICK x : x \in S
    BY <1>2
  <2>2. S = {x}
    BY <2>1
  <2> QED BY <1>2, <2>2, FS_Singleton
<1> QED BY <1>1, <1>2

\* A field that only one type of result has.
Mark == [TimerState |-> "phase", RunState |-> "game_name", RunIcons |-> "segment_icons",
         AttemptState |-> "attempt_count", ContextState |-> "current_comparison",
         CompletedCount |-> "completed_count"]

\* No value is a result of two types.
LEMMA ResultsDiffer ==
    ASSUME NEW w, NEW r \in DOMAIN ResultTypes, NEW q \in DOMAIN ResultTypes,
           Level8(ResultTypes[r], w), Level8(ResultTypes[q], w)
    PROVE  r = q
<1>1. DOMAIN ResultTypes = DOMAIN Mark \cup {"NoneType"}
  BY DEF ResultTypes, Mark
<1>2. ASSUME NEW t \in DOMAIN Mark, Level8(ResultTypes[t], w)
      PROVE  w[1] = "object" /\ \A u \in DOMAIN Mark : Mark[u] \in DOMAIN w[2] <=> u = t
  <2>1. CASE t = "TimerState"
    <3>1. w[1] = "object" /\ DOMAIN w[2] = {"phase", "split_index", "real_time_ticks",
              "game_time_ticks", "is_game_time_initialized", "is_game_time_paused"}
      BY <1>2, <2>1, ModelLevels DEF ResultTypes, TimerState
    <3> QED BY <2>1, <3>1 DEF Mark
  <2>2. CASE t = "RunState"
    <3>1. w[1] = "object" /\ DOMAIN w[2] = {"game_name", "category_name", "offset_ticks",
              "file_path", "layout_path", "metadata", "comparisons", "segments"}
      BY <1>2, <2>2, ModelLevels DEF ResultTypes, RunState
    <3> QED BY <2>2, <3>1 DEF Mark
  <2>3. CASE t = "RunIcons"
    <3>1. w[1] = "object" /\ DOMAIN w[2] = {"game_icon", "segment_icons"}
      BY <1>2, <2>3, ModelLevels DEF ResultTypes, RunIcons
    <3> QED BY <2>3, <3>1 DEF Mark
  <2>4. CASE t = "AttemptState"
    <3>1. w[1] = "object" /\ DOMAIN w[2] = {"attempt_count", "segments"}
      BY <1>2, <2>4, ModelLevels DEF ResultTypes, AttemptState
    <3> QED BY <2>4, <3>1 DEF Mark
  <2>5. CASE t = "ContextState"
    <3>1. w[1] = "object" /\ DOMAIN w[2] = {"current_timing_method", "current_comparison",
              "custom_variables"}
      BY <1>2, <2>5, ModelLevels DEF ResultTypes, ContextState
    <3> QED BY <2>5, <3>1 DEF Mark
  <2>6. CASE t = "CompletedCount"
    <3>1. w[1] = "object" /\ DOMAIN w[2] = {"completed_count"}
      BY <1>2, <2>6, ModelLevels DEF ResultTypes, CompletedCount
    <3> QED BY <2>6, <3>1 DEF Mark
  <2> QED BY <2>1, <2>2, <2>3, <2>4, <2>5, <2>6 DEF Mark
<1>3. Level8(ResultTypes["NoneType"], w) => w[1] = "null"
  BY FieldLevels DEF ResultTypes, Null
<1> QED BY <1>1, <1>2, <1>3

\* What a response of either kind holds.
LEMMA ResponseFields ==
    ASSUME NEW v
    PROVE  /\ \A r : Accepts(SuccessResponse(r), v) =>
                 /\ DOMAIN v[2] = {"request_id", "session_id", "result"}
                 /\ Level8(ResultTypes[r], v[2].result)
           /\ Accepts(ErrorResponse, v) =>
                 DOMAIN v[2] = {"request_id", "session_id", "error"}
<1>1. ASSUME NEW r, Accepts(SuccessResponse(r), v)
      PROVE  /\ DOMAIN v[2] = {"request_id", "session_id", "result"}
             /\ Level8(ResultTypes[r], v[2].result)
  BY <1>1, ModelLevels DEF SuccessResponse
<1>2. ASSUME Accepts(ErrorResponse, v)
      PROVE  DOMAIN v[2] = {"request_id", "session_id", "error"}
  BY <1>2, ModelLevels DEF ErrorResponse
<1> QED BY <1>1, <1>2

\* A response is a success of one type, or an error, or none.
LEMMA OneResponse ==
    ASSUME NEW v
    PROVE  Cardinality(Successes(v)) + (IF Accepts(ErrorResponse, v) THEN 1 ELSE 0) <= 1
<1>1. \A r, q \in Successes(v) : r = q
  BY ResponseFields, ResultsDiffer DEF Successes
<1>2. Accepts(ErrorResponse, v) => Successes(v) = {}
  BY ResponseFields DEF Successes
<1>3. /\ Successes(v) = {} => Cardinality(Successes(v)) = 0
      /\ Successes(v) # {} => Cardinality(Successes(v)) = 1
  BY <1>1, AtMostOne
<1> QED BY <1>2, <1>3

\* What an event of any kind holds.
LEMMA EventFields ==
    ASSUME NEW types, NEW state, NEW v
    PROVE  Accepts(Event(types, state), v) <=>
              /\ v[1] = "object"
              /\ DOMAIN v[2] = {"session_id", "event_sequence", "type", "timer_state"}
              /\ v[2].session_id[1] = "int" /\ v[2].session_id[2] \in 1..UINT32_MAX
              /\ v[2].event_sequence[1] = "int" /\ v[2].event_sequence[2] \in 1..UINT32_MAX
              /\ v[2].type[1] = "str" /\ v[2].type[2] \in types
              /\ Level8(state, v[2].timer_state)
<1> DEFINE fields == [session_id |-> NonZero, event_sequence |-> NonZero,
                      type |-> Enum(types), timer_state |-> state]
<1>1. DOMAIN fields = {"session_id", "event_sequence", "type", "timer_state"}
  OBVIOUS
<1>2. /\ fields.session_id = NonZero /\ fields.event_sequence = NonZero
      /\ fields.type = Enum(types) /\ fields.timer_state = state
  OBVIOUS
<1>3. Event(types, state) = BaseModel(fields)
  BY DEF Event
<1> HIDE DEF fields
<1>4. Accepts(BaseModel(fields), v) <=>
          /\ v[1] = "object"
          /\ DOMAIN fields = DOMAIN v[2]
          /\ Level8(NonZero, v[2].session_id)
          /\ Level8(NonZero, v[2].event_sequence)
          /\ Level8(Enum(types), v[2].type)
          /\ Level8(state, v[2].timer_state)
  BY <1>1, <1>2, ModelLevels
<1> QED BY <1>1, <1>3, <1>4, FieldLevels

\* The branches of the event union are told apart by the type.
LEMMA EventTypes ==
    /\ DOMAIN WireEvent = {1, 2, 3}
    /\ \A v : Accepts(WireEvent[1], v) => v[2].type[2] \in TimerEventType
    /\ \A v : Accepts(WireEvent[2], v) => v[2].type[2] = "timer_reset"
    /\ \A v : Accepts(WireEvent[3], v) => v[2].type[2] \in ChangedEventType
<1>1. DOMAIN WireEvent = {1, 2, 3}
  BY DEF WireEvent
<1>2. /\ WireEvent[1] = Event(TimerEventType, TimerState)
      /\ WireEvent[2] = Event({"timer_reset"}, Maybe(TimerState))
      /\ WireEvent[3] = Event(ChangedEventType, Null)
  BY DEF WireEvent, TimerEvent, ResetEvent, ChangedEvent
<1> QED BY <1>1, <1>2, EventFields

LEMMA OneEvent ==
    ASSUME NEW v
    PROVE  Cardinality(Branches(WireEvent, v)) <= 1
<1>1. \A i, j \in Branches(WireEvent, v) : i = j
  BY EventTypes DEF Branches, TimerEventType, ChangedEventType
<1> QED BY <1>1, AtMostOne

\* What a request of any kind holds.
LEMMA RequestFields ==
    ASSUME NEW v
    PROVE  /\ DOMAIN RpcRequest = {1, 2, 3, 4}
           /\ Accepts(RpcRequest[1], v) => DOMAIN v[2] = {"request_id", "method"}
           /\ Accepts(RpcRequest[2], v) =>
                 /\ DOMAIN v[2] = {"request_id", "method", "params"}
                 /\ v[2].method[2] = "timer_operation"
           /\ Accepts(RpcRequest[3], v) =>
                 /\ DOMAIN v[2] = {"request_id", "method", "params"}
                 /\ v[2].method[2] = "game_time_operation"
                 /\ DOMAIN v[2].params[2] = {"operation"}
           /\ Accepts(RpcRequest[4], v) =>
                 /\ DOMAIN v[2] = {"request_id", "method", "params"}
                 /\ v[2].method[2] = "game_time_operation"
                 /\ DOMAIN v[2].params[2] = {"operation", "ticks"}
<1>1. ASSUME NEW method, NEW params, Accepts(Control(method, params), v)
      PROVE  /\ DOMAIN v[2] = {"request_id", "method", "params"}
             /\ v[2].method[2] = method
             /\ Level8(params, v[2].params)
  <2>1. /\ DOMAIN v[2] = {"request_id", "method", "params"}
        /\ Level8(Enum({method}), v[2].method)
        /\ Level8(params, v[2].params)
    BY <1>1, ModelLevels DEF Control, Literal
  <2> QED BY <2>1, FieldLevels
<1>2. DOMAIN RpcRequest = {1, 2, 3, 4}
  BY DEF RpcRequest
<1>3. /\ RpcRequest[1] = QueryRequest
      /\ RpcRequest[2] = Control("timer_operation", TimerParams)
      /\ RpcRequest[3] = Control("game_time_operation", GameControlParams)
      /\ RpcRequest[4] = Control("game_time_operation", GameSetParams)
  BY DEF RpcRequest, TimerRequest, GameControlRequest, GameSetRequest
<1>4. Accepts(QueryRequest, v) => DOMAIN v[2] = {"request_id", "method"}
  BY ModelLevels DEF QueryRequest
<1>5. \A p : Level8(GameControlParams, p) => DOMAIN p[2] = {"operation"}
  BY ModelLevels DEF GameControlParams
<1>6. \A p : Level8(GameSetParams, p) => DOMAIN p[2] = {"operation", "ticks"}
  BY ModelLevels DEF GameSetParams
<1> QED BY <1>1, <1>2, <1>3, <1>4, <1>5, <1>6

LEMMA OneRequest ==
    ASSUME NEW v, Branches(RpcRequest, v) # {}
    PROVE  Cardinality(Branches(RpcRequest, v)) = 1
<1>1. \A i, j \in Branches(RpcRequest, v) : i = j
  BY RequestFields DEF Branches
<1> QED BY <1>1, AtMostOne

-----------------------------------------------------------------------------
(* One message *)

\* The inductive invariant: the outcome of a message, once it is there, is the
\* one of its own input.
Taken ==
    /\ input \in Inputs
    /\ \/ outcome = Pending
       \/ input.on = "call" /\ outcome = SendOutcome(ApiRequest(input.call), UINT32_MAX)
       \/ input.on = "typed" /\ outcome = SendOutcome(input.request, 0)
       \/ input.on = "answer" /\ outcome = AnswerOutcome(input.answer)
       \/ input.on = "event" /\ outcome = EventOutcome(input.frame)
       \/ input.on = "icons" /\ outcome = RunIconsOutcome(input.icons)

\* Every message keeps the outcome it got (client.py, rpc.py request(), events.py
\* _decode_event(): each is left by one return or raise).
LEMMA TakenHolds == Spec => []Taken
<1>1. Init => Taken
  BY DEF Init, Taken
<1>2. Taken /\ [Next]_vars => Taken'
  <2> SUFFICES ASSUME Taken, [Next]_vars PROVE Taken'
    OBVIOUS
  <2>1. CASE UNCHANGED vars
    BY <2>1 DEF Taken, vars
  <2>2. CASE Next
    <3>1. input' = input
      BY <2>2 DEF Next, Take
    <3>2. \/ input.on = "call" /\ outcome' = SendOutcome(ApiRequest(input.call), UINT32_MAX)
          \/ input.on = "typed" /\ outcome' = SendOutcome(input.request, 0)
          \/ input.on = "answer" /\ outcome' = AnswerOutcome(input.answer)
          \/ input.on = "event" /\ outcome' = EventOutcome(input.frame)
          \/ input.on = "icons" /\ outcome' = RunIconsOutcome(input.icons)
      BY <2>2 DEF Next, Take
    <3> QED BY <3>1, <3>2 DEF Taken
  <2> QED BY <2>1, <2>2
<1> QED BY <1>1, <1>2, PTL DEF Spec

\* What each kind of input leads to.
LEMMA Outcomes ==
    ASSUME Taken
    PROVE  /\ Of("call", "sent") =>
                 outcome = SendOutcome(ApiRequest(input.call), UINT32_MAX) /\ input.call \in Calls
           /\ Of("typed", "sent") => outcome = SendOutcome(input.request, 0)
           /\ Of("answer", "ok") \/ Of("answer", "remote") =>
                 outcome = AnswerOutcome(input.answer)
           /\ Of("event", "ok") \/ Of("event", "protocol") =>
                 outcome = EventOutcome(input.frame) /\ input.frame \in EventFrames
           /\ Of("icons", "ok") =>
                 outcome = RunIconsOutcome(input.icons) /\ input.icons \in Pictures
<1>1. Pending.result = "pending"
  BY DEF Pending
<1>2. /\ input.on = "call" => input.call \in Calls
      /\ input.on = "event" => input.frame \in EventFrames
      /\ input.on = "icons" => input.icons \in Pictures
  BY DEF Taken, Inputs
<1> QED BY <1>1, <1>2 DEF Taken, Of

\* What is sent was valid before and after it got its identifier.
LEMMA Sent ==
    ASSUME NEW v, NEW id, SendOutcome(v, id).result = "sent"
    PROVE  /\ Valid(v)
           /\ Valid(SendOutcome(v, id).value)
           /\ SendOutcome(v, id).value = <<"object", [v[2] EXCEPT !.request_id = <<"int", id>>]>>
  BY DEF SendOutcome, Done, Refused

\* A frame that was answered fits one response, carries the identifier that was
\* asked for, and a success is of the type of the method.
LEMMA Answered ==
    ASSUME NEW answer
    PROVE  LET v == Value(answer.frame.text)
           IN /\ AnswerOutcome(answer).result = "ok" =>
                    /\ AnswerOutcome(answer).value = v
                    /\ v[2].request_id = <<"int", answer.id>>
                    /\ QueryResults[answer.method] \in Successes(v)
              /\ AnswerOutcome(answer).result = "remote" =>
                    /\ AnswerOutcome(answer).value = v
                    /\ v[2].request_id = <<"int", answer.id>>
                    /\ Accepts(ErrorResponse, v)
<1> DEFINE v == Value(answer.frame.text)
<1> DEFINE types == Successes(v)
<1> DEFINE one == CHOOSE r \in types : TRUE
<1>1. types # {} => one \in types
  OBVIOUS
<1>2. AnswerOutcome(answer) \in {Malformed, Done("remote", v), Done("ok", v)}
  BY DEF AnswerOutcome
<1>3. Malformed.result = "protocol" /\ Done("remote", v).result = "remote"
      /\ Done("ok", v).result = "ok" /\ Done("remote", v).value = v /\ Done("ok", v).value = v
  BY DEF Malformed, Done
<1>4. AnswerOutcome(answer).result = "ok" =>
          types # {} /\ Fits(answer.method, one) /\ v[2].request_id = <<"int", answer.id>>
  BY <1>3 DEF AnswerOutcome
<1>5. AnswerOutcome(answer).result = "remote" =>
          Accepts(ErrorResponse, v) /\ v[2].request_id = <<"int", answer.id>>
  BY <1>3 DEF AnswerOutcome
<1>6. Fits(answer.method, one) => one = QueryResults[answer.method]
  BY DEF Fits
<1> HIDE DEF one, types
<1>7. AnswerOutcome(answer).result = "ok" => QueryResults[answer.method] \in types
  BY <1>1, <1>4, <1>6
<1> QED BY <1>2, <1>3, <1>4, <1>5, <1>7 DEF types

\* Nothing in a message can be read in two ways (models.py SuccessResponse,
\* BridgeEvent; rpc.py _RESPONSE).
THEOREM OneBranchHolds == Spec => []OneBranch
<1>1. Taken => OneBranch
  <2> SUFFICES ASSUME Taken PROVE OneBranch
    OBVIOUS
  <2>1. Of("call", "sent") \/ Of("typed", "sent") => input.on \in {"call", "typed"}
    BY DEF Of
  <2>2. CASE input.on = "answer"
    <3>1. LET v == Value(input.answer.frame.text)
          IN Cardinality(Successes(v)) + (IF Accepts(ErrorResponse, v) THEN 1 ELSE 0) <= 1
      BY OneResponse
    <3> QED BY <2>1, <2>2, <3>1 DEF OneBranch
  <2>3. CASE input.on = "event"
    <3>1. Cardinality(Branches(WireEvent, Value(input.frame.text))) <= 1
      BY OneEvent
    <3> QED BY <2>1, <2>3, <3>1 DEF OneBranch
  <2>4. ASSUME Of("call", "sent") \/ Of("typed", "sent")
        PROVE  Cardinality(Branches(RpcRequest, outcome.value)) = 1
    <3>1. CASE Of("call", "sent")
      <4>1. outcome = SendOutcome(ApiRequest(input.call), UINT32_MAX) /\ outcome.result = "sent"
        BY <3>1, Outcomes DEF Of
      <4>2. Valid(outcome.value)
        BY <4>1, Sent
      <4> QED BY <4>2, OneRequest DEF Valid
    <3>2. CASE Of("typed", "sent")
      <4>1. outcome = SendOutcome(input.request, 0) /\ outcome.result = "sent"
        BY <3>2, Outcomes DEF Of
      <4>2. Valid(outcome.value)
        BY <4>1, Sent
      <4> QED BY <4>2, OneRequest DEF Valid
    <3> QED BY <2>4, <3>1, <3>2
  <2> QED BY <2>1, <2>2, <2>3, <2>4 DEF OneBranch
<1> QED BY <1>1, TakenHolds, PTL

\* A caller is given the result of the method it asked for, with its identifier
\* (README:50-59, README:75-77).
THEOREM ResultFitsMethodHolds == Spec => []ResultFitsMethod
<1>1. Taken => ResultFitsMethod
  <2> SUFFICES ASSUME Taken PROVE ResultFitsMethod
    OBVIOUS
  <2>1. ASSUME Of("answer", "ok")
        PROVE  /\ Field("request_id") = <<"int", input.answer.id>>
               /\ Accepts(ResultTypes[QueryResults[input.answer.method]], Field("result"))
    <3> DEFINE v == Value(input.answer.frame.text)
               r == QueryResults[input.answer.method]
    <3>1. outcome.value = v /\ v[2].request_id = <<"int", input.answer.id>> /\ r \in Successes(v)
      BY <2>1, Outcomes, Answered DEF Of
    <3>2. Accepts(SuccessResponse(r), v)
      BY <3>1 DEF Successes
    <3>3. Level8(ResultTypes[r], v[2].result)
      BY <3>2, ResponseFields
    <3> QED BY <3>1, <3>3, LevelsGrow DEF Field
  <2>2. ASSUME Of("answer", "remote")
        PROVE  /\ Field("request_id") = <<"int", input.answer.id>>
               /\ "error" \in DOMAIN outcome.value[2]
    <3> DEFINE v == Value(input.answer.frame.text)
    <3>1. outcome.value = v /\ v[2].request_id = <<"int", input.answer.id>>
          /\ Accepts(ErrorResponse, v)
      BY <2>2, Outcomes, Answered DEF Of
    <3> QED BY <3>1, ResponseFields DEF Field
  <2> QED BY <2>1, <2>2 DEF ResultFitsMethod
<1> QED BY <1>1, TakenHolds, PTL

\* Every event that passes can be read, and no event that a reader of README:115-126
\* expects is refused (events.py _decode_event(), models.py EventType).
THEOREM EventReadableHolds == Spec => []EventReadable
<1> DEFINE Shape(e) ==
        /\ DOMAIN e = {"session_id", "event_sequence", "type", "timer_state"}
        /\ e.session_id[1] = "int" /\ e.session_id[2] \in 1..UINT32_MAX
        /\ e.event_sequence[1] = "int" /\ e.event_sequence[2] \in 1..UINT32_MAX
        /\ e.type[1] = "str" /\ e.type[2] \in EventType
        /\ TimerStateRule(e.type[2], e.timer_state)
<1>1. /\ WireEvent[1] = Event(TimerEventType, TimerState)
      /\ WireEvent[2] = Event({"timer_reset"}, Maybe(TimerState))
      /\ WireEvent[3] = Event(ChangedEventType, Null)
      /\ DOMAIN WireEvent = {1, 2, 3}
  BY DEF WireEvent, TimerEvent, ResetEvent, ChangedEvent
<1>2. \A s : /\ Level8(TimerState, s) <=> Accepts(TimerState, s)
             /\ Level8(Maybe(TimerState), s) <=> s = Null \/ Accepts(TimerState, s)
             /\ Level8(Null, s) <=> s = Null
  BY FieldLevels, TimerStateLevels
\* The three branches together are the rule of the README.
<1>3. ASSUME NEW v
      PROVE  Branches(WireEvent, v) # {} <=> v[1] = "object" /\ Shape(v[2])
  <2>1. Branches(WireEvent, v) # {} <=>
            \/ Accepts(Event(TimerEventType, TimerState), v)
            \/ Accepts(Event({"timer_reset"}, Maybe(TimerState)), v)
            \/ Accepts(Event(ChangedEventType, Null), v)
    BY <1>1 DEF Branches
  <2>2. ASSUME NEW type
        PROVE  /\ type \in EventType <=> type \in TimerEventType \/ type = "timer_reset"
                                            \/ type \in ChangedEventType
               /\ \A s : type \in TimerEventType =>
                     (TimerStateRule(type, s) <=> Accepts(TimerState, s))
               /\ \A s : type = "timer_reset" =>
                     (TimerStateRule(type, s) <=> s = Null \/ Accepts(TimerState, s))
               /\ \A s : type \in ChangedEventType => (TimerStateRule(type, s) <=> s = Null)
    BY DEF EventType, TimerEventType, ChangedEventType, TimerStateRule
  <2> HIDE DEF Shape
  <2> DEFINE e == v[2]
             Rest == /\ DOMAIN e = {"session_id", "event_sequence", "type", "timer_state"}
                     /\ e.session_id[1] = "int" /\ e.session_id[2] \in 1..UINT32_MAX
                     /\ e.event_sequence[1] = "int" /\ e.event_sequence[2] \in 1..UINT32_MAX
                     /\ e.type[1] = "str"
  <2>3. Accepts(Event(TimerEventType, TimerState), v) <=>
            v[1] = "object" /\ Rest /\ e.type[2] \in TimerEventType
                /\ TimerStateRule(e.type[2], e.timer_state)
    BY <1>2, <2>2, EventFields
  <2>4. Accepts(Event({"timer_reset"}, Maybe(TimerState)), v) <=>
            v[1] = "object" /\ Rest /\ e.type[2] = "timer_reset"
                /\ TimerStateRule(e.type[2], e.timer_state)
    BY <1>2, <2>2, EventFields
  <2>5. Accepts(Event(ChangedEventType, Null), v) <=>
            v[1] = "object" /\ Rest /\ e.type[2] \in ChangedEventType
                /\ TimerStateRule(e.type[2], e.timer_state)
    BY <1>2, <2>2, EventFields
  <2>6. Shape(e) <=> Rest /\ e.type[2] \in EventType /\ TimerStateRule(e.type[2], e.timer_state)
    BY DEF Shape
  <2> HIDE DEF Rest
  <2> QED BY <2>1, <2>2, <2>3, <2>4, <2>5, <2>6
<1> HIDE DEF Shape
<1>4. Taken => EventReadable
  <2> SUFFICES ASSUME Taken PROVE EventReadable
    OBVIOUS
  <2> DEFINE v == Value(input.frame.text)
  <2>1. ASSUME Of("event", "ok")
        PROVE  /\ Field("type")[2] \in EventType
               /\ TimerStateRule(Field("type")[2], Field("timer_state"))
    <3>1. outcome = EventOutcome(input.frame) /\ outcome.result = "ok"
      BY <2>1, Outcomes DEF Of
    <3>2. outcome.value = v /\ Branches(WireEvent, v) # {}
      BY <3>1 DEF EventOutcome, Done, Malformed
    <3> QED BY <1>3, <3>2 DEF Field, Shape
  <2>2. ASSUME Of("event", "protocol"), Decodes(input.frame)
        PROVE  ~Shape(v[2])
    <3>1. outcome = EventOutcome(input.frame) /\ outcome.result = "protocol"
          /\ input.frame \in EventFrames
      BY <2>2, Outcomes DEF Of
    <3>2. Branches(WireEvent, v) = {}
      BY <2>2, <3>1 DEF EventOutcome, Done
    <3>3. v[1] = "object"
      BY <2>2, <3>1, ObjectsAssumption DEF Decodes
    <3> QED BY <1>3, <3>2, <3>3
  <2> QED BY <2>1, <2>2 DEF EventReadable, Shape
<1> QED BY <1>4, TakenHolds, PTL

\* Where game_time_operation() finds no parameters nothing valid is left to send.
LEMMA EmptyParams == ~Valid(Request("game_time_operation", <<>>))
<1> DEFINE v == Request("game_time_operation", <<>>)
<1>1. DOMAIN v[2] = {"request_id", "method", "params"}
      /\ v[2].method[2] = "game_time_operation" /\ v[2].params[2] = <<>>
  BY DEF Request
<1>2. "operation" \notin DOMAIN v[2].params[2]
  <2>1. "operation" \notin DOMAIN <<>>
    OBVIOUS
  <2> QED BY <1>1, <2>1
<1> HIDE DEF v
<1>3. ~Accepts(RpcRequest[1], v)
  <2>1. "params" \in DOMAIN v[2]
    BY <1>1
  <2> QED BY <2>1, RequestFields
<1>4. ~Accepts(RpcRequest[2], v)
  BY <1>1, RequestFields
<1>5. ~Accepts(RpcRequest[3], v) /\ ~Accepts(RpcRequest[4], v)
  BY <1>2, RequestFields
<1> QED BY <1>3, <1>4, <1>5, RequestFields DEF Valid, Branches, v

\* A caller is told before anything is sent, and what is sent names the operation
\* with all its arguments (README:69-72).
THEOREM SentAsCalledHolds == Spec => []SentAsCalled
<1>1. ASSUME NEW call \in Calls, NEW id, SendOutcome(ApiRequest(call), id).result = "sent"
      PROVE  LET sent == SendOutcome(ApiRequest(call), id).value[2]
                 params == sent.params[2]
             IN /\ sent.request_id = <<"int", id>>
                /\ params.operation[2] = call.operation
                /\ call.ticks = (IF "ticks" \in DOMAIN params THEN params.ticks ELSE Null)
  <2> DEFINE given == IF call.method = "timer_operation"
                      THEN [operation |-> <<"str", call.operation>>]
                      ELSE GameTimeParams(call.operation, call.ticks)
             method == IF call.method = "timer_operation" THEN "timer_operation"
                       ELSE "game_time_operation"
  <2>1. ApiRequest(call) = Request(method, given)
    BY DEF ApiRequest
  <2>2. /\ Valid(Request(method, given))
        /\ SendOutcome(ApiRequest(call), id).value =
              <<"object", [Request(method, given)[2] EXCEPT !.request_id = <<"int", id>>]>>
    BY <1>1, <2>1, Sent
  <2>3. call.method # "timer_operation" => given # <<>>
    BY <2>2, EmptyParams
  <2>4. /\ given.operation[2] = call.operation
        /\ call.ticks = (IF "ticks" \in DOMAIN given THEN given.ticks ELSE Null)
    <3>1. CASE call.method = "timer_operation"
      <4>1. given = [operation |-> <<"str", call.operation>>] /\ call.ticks = Null
        BY <3>1, CallsAssumption
      <4> QED BY <4>1
    <3>2. CASE call.method # "timer_operation"
      <4>1. \/ given = [operation |-> <<"str", "set">>, ticks |-> call.ticks]
                  /\ call.operation = "set"
            \/ given = [operation |-> <<"str", call.operation>>] /\ call.ticks = Null
        BY <2>3, <3>2 DEF GameTimeParams
      <4> QED BY <4>1
    <3> QED BY <3>1, <3>2
  <2> HIDE DEF given, method
  <2> DEFINE sentFields == [Request(method, given)[2] EXCEPT !.request_id = <<"int", id>>]
             value == SendOutcome(ApiRequest(call), id).value
  <2>5. sentFields.params[2] = given /\ sentFields.request_id = <<"int", id>>
    BY DEF Request
  <2> HIDE DEF sentFields
  <2>6. value[2].request_id = <<"int", id>> /\ value[2].params[2] = given
    <3>1. value = <<"object", sentFields>>
      BY <2>2 DEF sentFields
    <3>2. value[2] = sentFields
      BY <3>1
    <3> QED BY <2>5, <3>2
  <2> HIDE DEF value
  <2>7. LET sent == value[2]
            params == sent.params[2]
        IN /\ sent.request_id = <<"int", id>>
           /\ params.operation[2] = call.operation
           /\ call.ticks = (IF "ticks" \in DOMAIN params THEN params.ticks ELSE Null)
    BY <2>4, <2>6
  <2> QED BY <2>7 DEF value
<1>2. Taken => SentAsCalled
  <2> SUFFICES ASSUME Taken PROVE SentAsCalled
    OBVIOUS
  <2>1. ASSUME Of("call", "sent") \/ Of("typed", "sent")
        PROVE  Branches(RpcRequest, outcome.value) # {}
    <3>1. CASE Of("call", "sent")
      <4>1. outcome = SendOutcome(ApiRequest(input.call), UINT32_MAX) /\ outcome.result = "sent"
        BY <3>1, Outcomes DEF Of
      <4> QED BY <4>1, Sent DEF Valid
    <3>2. CASE Of("typed", "sent")
      <4>1. outcome = SendOutcome(input.request, 0) /\ outcome.result = "sent"
        BY <3>2, Outcomes DEF Of
      <4> QED BY <4>1, Sent DEF Valid
    <3> QED BY <2>1, <3>1, <3>2
  <2>2. ASSUME Of("call", "sent")
        PROVE  LET params == Field("params")[2]
               IN /\ Field("request_id") = <<"int", UINT32_MAX>>
                  /\ params.operation[2] = input.call.operation
                  /\ input.call.ticks =
                        (IF "ticks" \in DOMAIN params THEN params.ticks ELSE Null)
    <3>1. outcome = SendOutcome(ApiRequest(input.call), UINT32_MAX) /\ outcome.result = "sent"
          /\ input.call \in Calls
      BY <2>2, Outcomes DEF Of
    <3> QED BY <1>1, <3>1 DEF Field
  <2> QED BY <2>1, <2>2 DEF SentAsCalled
<1> QED BY <1>2, TakenHolds, PTL

-----------------------------------------------------------------------------
(* Icons *)

\* Different images have different Base64.
LEMMA Base64Differs ==
    ASSUME NEW a \in DOMAIN Base64, NEW b \in DOMAIN Base64, Base64[a] = Base64[b]
    PROVE  a = b
<1>1. DOMAIN Base64 = {"empty", "png"} /\ Base64["empty"] = "" /\ Base64["png"] = "cG5n"
  BY DEF Base64
<1>2. "" # "cG5n"
  OBVIOUS
<1> QED BY <1>1, <1>2

\* What was checked decodes, null to null only, and the text of an image to the
\* image.
LEMMA DecodedIcons ==
    /\ \A v : IsIcon(v) => /\ DecodeIcon(v)[1] \in {"null", "bytes"}
                           /\ v = Null <=> DecodeIcon(v) = Null
                           /\ v[1] # "bytes"
    /\ \A b \in DOMAIN Base64 : DecodeIcon(<<"str", Base64[b]>>) = <<"bytes", b>>
<1>1. ASSUME NEW b \in DOMAIN Base64
      PROVE  DecodeIcon(<<"str", Base64[b]>>) = <<"bytes", b>>
  <2> DEFINE v == <<"str", Base64[b]>>
             one == CHOOSE a \in DOMAIN Base64 : v[2] = Base64[a]
  <2>1. v # Null /\ IsIcon(v) /\ v[2] = Base64[b]
    BY DEF Null, IsIcon
  <2>2. one \in DOMAIN Base64 /\ v[2] = Base64[one]
    BY <2>1
  <2>3. one = b
    BY <2>1, <2>2, Base64Differs
  <2>4. DecodeIcon(v) = <<"bytes", one>>
    BY <2>1 DEF DecodeIcon
  <2> QED BY <2>3, <2>4
<1>2. DecodeIcon(Null) = Null /\ Null[1] = "null"
  BY DEF DecodeIcon, Null
<1>3. ASSUME NEW v, IsIcon(v), v # Null
      PROVE  v[1] = "str" /\ \E b \in DOMAIN Base64 : DecodeIcon(v) = <<"bytes", b>>
  BY <1>1, <1>3 DEF IsIcon
<1> QED BY <1>1, <1>2, <1>3 DEF Null

\* Icons that were accepted can be read later, each at its place (README:95-97,
\* models.py RunIcons).
THEOREM IconsReadableHolds == Spec => []IconsReadable
<1>1. ASSUME NEW given \in Pictures, RunIconsOutcome(given).result = "ok"
      PROVE  Readable(RunIconsOutcome(given).value, given.segment_icons[2])
  <2> DEFINE places == given.segment_icons[2]
             encoded == [i \in DOMAIN places |-> EncodeIcon(places[i])]
             icons == [game_icon |-> EncodeIcon(given.game_icon),
                       segment_icons |-> IF given.segment_icons[1] = "list"
                                         THEN <<"list", encoded>>
                                         ELSE given.segment_icons]
  <2>1. /\ Accepts(RunIcons, <<"object", icons>>) /\ ValidateIcons(icons)
        /\ RunIconsOutcome(given).value = View(icons)
    BY <1>1 DEF RunIconsOutcome, Done, Refused
  <2>2. given.segment_icons[1] = "list"
    <3>1. Level8(ListOf(Maybe(StrictStr)), icons.segment_icons)
      BY <2>1, ModelLevels DEF RunIcons
    <3>2. icons.segment_icons[1] = "list"
      BY <3>1 DEF Level8, Validates, ListOf
    <3> QED BY <3>2
  <2>3. icons.segment_icons[2] = encoded
    BY <2>2
  <2>4. \A i \in DOMAIN places : IsIcon(encoded[i])
    BY <2>1, <2>3 DEF ValidateIcons
  <2>5. View(icons).segment_icons = [i \in DOMAIN encoded |-> DecodeIcon(encoded[i])]
    BY <2>3 DEF View
  <2>6. ASSUME NEW i \in DOMAIN places
        PROVE  LET icon == View(icons).segment_icons[i]
               IN /\ icon[1] \in {"null", "bytes"}
                  /\ places[i] = Null <=> icon = Null
                  /\ places[i][1] = "bytes" => icon = places[i]
    <3>1. View(icons).segment_icons[i] = DecodeIcon(EncodeIcon(places[i]))
          /\ IsIcon(EncodeIcon(places[i]))
      BY <2>4, <2>5
    <3>2. CASE places[i][1] = "bytes"
      <4>1. PICK b \in DOMAIN Base64 : places[i] = <<"bytes", b>>
        BY <2>2, <3>2, PicturesAssumption
      <4>2. DecodeIcon(EncodeIcon(places[i])) = <<"bytes", b>>
        BY <4>1, DecodedIcons DEF EncodeIcon
      <4>3. places[i] # Null
        BY <4>1 DEF Null
      <4> QED BY <3>1, <4>1, <4>2, <4>3
    <3>3. CASE places[i][1] # "bytes"
      <4>1. EncodeIcon(places[i]) = places[i]
        BY <3>3 DEF EncodeIcon
      <4> QED BY <3>1, <3>3, <4>1, DecodedIcons
    <3> QED BY <3>2, <3>3
  <2>7. DOMAIN View(icons).segment_icons = DOMAIN places
    BY <2>5
  <2> HIDE DEF icons, encoded
  <2> QED BY <2>1, <2>6, <2>7 DEF Readable
<1>2. ASSUME NEW icons, ValidateIcons(icons)
      PROVE  IsIcon(icons.game_icon) /\ Readable(View(icons), icons.segment_icons[2])
  <2> DEFINE places == icons.segment_icons[2]
  <2>1. IsIcon(icons.game_icon) /\ \A i \in DOMAIN places : IsIcon(places[i])
    BY <1>2 DEF ValidateIcons
  <2>2. View(icons).segment_icons = [i \in DOMAIN places |-> DecodeIcon(places[i])]
    BY DEF View
  <2>3. \A i \in DOMAIN places : View(icons).segment_icons[i] = DecodeIcon(places[i])
    BY <2>2
  <2> QED BY <2>1, <2>2, <2>3, DecodedIcons DEF Readable
<1>3. Taken => IconsReadable
  <2> SUFFICES ASSUME Taken PROVE IconsReadable
    OBVIOUS
  <2>1. ASSUME Of("icons", "ok")
        PROVE  Readable(outcome.value, input.icons.segment_icons[2])
    <3>1. outcome = RunIconsOutcome(input.icons) /\ outcome.result = "ok"
          /\ input.icons \in Pictures
      BY <2>1, Outcomes DEF Of
    <3> QED BY <1>1, <3>1
  <2>2. ASSUME Of("answer", "ok"), input.answer.method = "get_run_icons"
        PROVE  LET icons == Field("result")[2]
               IN IsIcon(icons.game_icon) /\ Readable(View(icons), icons.segment_icons[2])
    <3> DEFINE v == Value(input.answer.frame.text)
    <3>1. outcome = AnswerOutcome(input.answer) /\ outcome.result = "ok"
      BY <2>2, Outcomes DEF Of
    <3>2. outcome.value = v /\ QueryResults[input.answer.method] \in Successes(v)
      BY <3>1, Answered
    <3>3. QueryResults[input.answer.method] = "RunIcons"
      BY <2>2 DEF QueryResults
    <3>4. ValidateIcons(v[2].result[2])
      BY <3>2, <3>3 DEF Successes
    <3> QED BY <1>2, <3>2, <3>4 DEF Field
  <2> QED BY <2>1, <2>2 DEF IconsReadable
<1> QED BY <1>3, TakenHolds, PTL
=============================================================================
