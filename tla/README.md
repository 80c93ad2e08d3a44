# Verification of livesplit-bridge-client

This directory holds TLA+ models of the Python client for LiveSplit.Bridge, the
TLC configurations that check them on small instances, and proofs about them for
every instance, checked by TLAPS.  Source lines are those of `src/` at the
modelled commit; `PROJECT.json` maps every definition to its lines.

## The system

The client talks to a Bridge (a LiveSplit component, not in this repository) over
two WebSockets on the loopback interface: one for requests and responses, one for
events.  All classes are synchronous and single-threaded.  Nothing is persisted.

| component | source | state | operations |
| --- | --- | --- | --- |
| `BridgeClient` | `client.py` | `_closed`, `_rpc`, `_events`, `_known_rpc_session_id`, `_event_session_id`, `_last_event_sequence`, `_recovery_state` | construct, `request` (every query and control), `synchronize`, `receive`, `reconnect`, `close` |
| `BridgeRpcClient` | `rpc.py` | `_socket`, `_next_request_id`, `session_id`, `session_change`, `transport_reset`, `_closed` | construct, `request`, `close` |
| `BridgeEventSubscriber` | `events.py` | `_socket`, `_closed`, `_connection_lost_message` | construct, `receive`, `close` |
| `BridgeApi` | `_api.py` | none | typed wrappers around `request` |
| views and JSON decoding | `models.py`, `_json.py` | none | validate and convert a frame |
| generated models | `_generated/protocol.py` | none | field types and ranges |
| code generation | `tools/update_protocol.py` | the generated package on disk | merge schemas, generate, replace or compare |
| scripts | `tools/run_integration.py`, `tools/verify_distributions.py`, CI | a checkout of the Bridge and what is built from it | clone, compare, build, test; verify archives |
| LiveSplit.Bridge | not in this repository | session, event numbers, the state of LiveSplit | answer, publish, restart |

How they interact.  `BridgeClient` owns one `BridgeRpcClient` and one
`BridgeEventSubscriber` and calls them; it reads the flags `session_id`,
`session_change` and `transport_reset` that the last RPC left behind, catches what
they raise, and turns all of it into `recovery_state`.  `synchronize()` and
`reconnect()` are collections of four or five queries.  `reconnect()` builds a
second pair of objects and swaps it in only when the collection is complete.  The
properties `client.rpc` and `client.events` hand the low-level objects to the
caller, who may use them behind the client's back.

What makes it hard is not threads but the remote side: between any two queries of
one call the Bridge may restart (a new session), deny, answer late, answer nonsense,
vanish or stay silent; events are buffered while queries are answered; the two
connections may belong to different runtimes; the caller may interrupt a wait and go
on.  Sessions and sequence numbers have to be compared on every way out of every call,
also the exceptional ones.

What makes each component correct:

- `BridgeClient`: between two (re)connections everything handed out is of one
  session; events between two snapshots are consecutive; nothing is handed out while
  a recovery is due; a lost session is left only by a completed `reconnect()`; a
  failed recovery changes nothing and leaks nothing.
- `BridgeRpcClient`: a response is the response to the request that is returned with
  it; no request is executed twice; after a lost or violated wait no late answer can
  arrive; a rejected response changes no session.
- `BridgeEventSubscriber`: frames are reported in order, each once, by an event or
  by an error; a loss is final and is noticed.
- `BridgeApi`, views, JSON: what is sent says what the caller said; what is accepted
  can be read in one way only, later too, and nothing of it is ignored.
- All of it together: a caller that follows the README holds a current copy of the
  Bridge's state, is told to recover only with reason, and does recover.
- Code generation: the merge gives no definition another meaning; a check passes
  exactly for the package of the pinned commit and never writes; an update repairs
  what an earlier one left.
- Scripts: what is tested is the pinned commit; what is verified can be
  imported, but for what the verification does not look at (Not modelled).

## Modules

| module | what it is |
| --- | --- |
| `BridgeWire` | ranges and successors of session, sequence and request identifiers |
| `BridgeConnections` | the two low-level objects as `BridgeClient` sees them: records, the outcomes one `request()` may meet, and `AfterRequest`, what each leaves behind |
| `BridgeClient` | the core: `BridgeClient` over `BridgeConnections` |
| `RecoveryContract` | the abstract promise of `BridgeClient`, without sockets or queries |
| `BridgeSystem` | `BridgeClient` with a Bridge that changes and restarts, two lossy event connections and the caller of the README |
| `BridgeRpcClient` | `request()` with frames, identifiers and the Bridge at the other end |
| `RpcOutcomes` | the abstract view of it that `BridgeClient` relies on: each request is one `AfterRequest` |
| `BridgeEventSubscriber` | `receive()` with frames and the Bridge at the other end |
| `BridgeProtocol` | the generated types as data, and what validation accepts of a value |
| `BridgeMessages` | one message through the views, `BridgeApi` and the checks of `request()` and `_decode_event()`, for any JSON decoder |
| `BridgeJson` | the decoder of `_json.py` |
| `PinnedSource` | the pin in `protocol-source.json`, which the next modules share |
| `SchemaMerge` | `combine()` and `normalize_run_icons()` |
| `GeneratedPackage` | `update_protocol.py` step by step over the package on disk |
| `IntegrationTests` | `run_integration.py` step by step over the checkout and what is built from it |
| `Distributions` | `verify_distributions.py` against what an import needs |
| `BridgeClientProofs` | theorems about `BridgeClient`: types, sessions, events, sockets, snapshots, the contract, the recovery state |
| `BridgeEventSubscriberProofs` | theorems about `BridgeEventSubscriber` |
| `BridgeMessagesProofs` | theorems about `BridgeMessages` and `BridgeProtocol` |
| `NumberLemmas` | facts about remainders and sequences, and induction up to a number, which the proofs below need |
| `BridgeRpcProofs` | theorems about `BridgeRpcClient`: identifiers, answers, the refinement of `RpcOutcomes` |
| `BridgeSystemProofs` | theorems about `BridgeSystem`: types, that it implements `BridgeClient`, sessions |
| `BridgeFreshnessProofs` | theorems about `BridgeSystem`: event numbers, losses, the caller's copy |
| `ToolProofs` | theorems about `GeneratedPackage`, `IntegrationTests` and `Distributions` |
| `MC*` | the module each configuration runs |

`BridgeClient` is composed with `BridgeRpcClient` through `BridgeConnections`: its
steps change an RPC object only by `AfterRequest`, and run `rpc_client` shows
(`OutcomeSpec`) that the detailed `BridgeRpcClient` changes its object in no other
way.  It is composed with the Bridge in `BridgeSystem`, which extends it.

`BridgeClient.tla`, state to code: the variables carry the names of the fields
without the underscore; 0 stands for `None` where the protocol excludes 0.  `phase` is
the program counter of a running constructor, `synchronize()` or `reconnect()`;
`left`, `got` and `parts` are the locals of `_synchronize_rpc()`; `newRpc` and
`newEvents` those of `reconnect()`.  `ret` is the call that ended last.  `seen`,
`feed`, `parts` and `open` are history.  One action is one whole call where the call
talks to the remote side once (`Request`, the `Receive...` actions, `Close`), and one
query where a call asks several (`SyncAnswer`, `SyncDone`, `SyncForeign`, `SyncFails`,
and the same for `reconnect()`).  The checks of `_observe_rpc_session()` and
`_handle_rpc_exception()` are part of the action that calls them.

With `Interrupts`, a `KeyboardInterrupt` may end any wait.  It is no `Exception`, so
none of the handlers runs: `InterruptCall` and `InterruptSync` skip the client's
bookkeeping (what the query did to the RPC object stays), `InterruptConstructor`
and `InterruptReconnect` close nothing: the objects under construction stay open and
are reached by the traceback of the exception only.
`orphans` counts those sockets until `DropException`, the caller letting go of the
exception; at most one such exception is kept at a time, which is a bound.

`BridgeSystem.tla`: every client action is an action of `BridgeClient` whose outcome
is the one the running Bridge gives (`Meets`), or a fault paid from `budget`; only the
running Bridge answers or denies.
`eventWire` and `newEventWire` are the far ends of the two event connections: the
runtime they lead to, what is in flight, and what was lost.  `Change` numbers and
publishes an event, `Restart` is a new runtime with an identifier not used before.  A
value is the `clock` of its change.  `collected` is the snapshot being read; `copy`
and `todo` are the caller's: `NextCall` is the exception handling of README:170-187,
and a topic whose event brings no value is asked for again, as in README:36-39.

`BridgeRpcClient.tla`: a request is `Submit` (lines 141-160 of `rpc.py`) and one of
`Accept`, `Reject`, `TransportLost` or `Interrupt`.  `Interrupt` is a
`KeyboardInterrupt` in `recv_data()`, which no `except Exception` sees.

`BridgeEventSubscriber.tla`: `receive()` is one action per way it ends.

`BridgeMessages.tla` is a function of one message: `input` is what a caller or the
socket gives, `outcome` what the code makes of it.  A value is a kind and its content.
What `json.loads()` with the hooks makes of a text is a parameter, `Loads` and `Value`,
since nothing but `NothingIgnored` depends on it; the runs give it `JsonLoads` and
`JsonValue` of `BridgeJson`, in which a text is a value whose objects are still
sequences of pairs, as `object_pairs_hook` meets them.

`BridgeProtocol` holds one definition per generated class or alias and
`Accepts`, strict validation of it, which is Pydantic's and therefore external.
`Validates` is one level of it, from a type to its parts; `Level1` to `Level8` and
`Accepts` apply it nine times instead of recursively, so that the proofs can unfold it.
`NineLevelsEnough` proves that this is the recursive validation: for every message of
the protocol one level more takes and refuses the same values.

`GeneratedPackage.tla`: `run` is the running tool with its locals, `package` the
directory it writes; one step per file operation, since `synchronize_generated()` is
not atomic.  The comparison of `--check` is one step: it reads every file once, and
the developer is assumed not to edit files while the tool runs.  A schema is a title,
a root and named definitions; a definition is the kinds of value its `type` allows and
the conditional beside it, which is all that `combine()` and `normalize_run_icons()`
look at.  `Turns` is the loop of `combine()`, the definitions after each schema.
`IntegrationTests.tla` has one step per command that `main()` runs.

`Distributions.tla`: an entry of an archive has a place and the suffix the tool looks
for, and a match ignores the place (`endswith`); a requirement is the name it begins
with.  What an import needs is read off the import statements, one operator per module,
with the three libraries outside the standard one: Pydantic, `typing_extensions`, which
Pydantic brings, and `websocket`.  `Needed` is the smallest set closed under them.

The variables of the tools have names of their own, except the pin, so that one module
can speak of all three.

Each `Fault_...` operator is a plausible mistake in the definition that follows it.
No specification uses it; it shows that a property would catch that mistake.

## Runs

| run | instance | what it shows |
| --- | --- | --- |
| `client_core` | 2 sessions, 3 sequence numbers, feeds of 4 | `TypeOK`, `OneSession`, `FeedContiguous`, `NoSocketLeak`, `SnapshotOneSession`, `UsableConnections`, `NothingWhileDegraded`, `RecoveryLadder`, and that the client implements `RecoveryContract` |
| `client_raw` | the same with feeds of 2, raw use of `client.rpc` and `client.events`, and interrupts | which of them survive both: `OneSession`, `NoSocketLeak`, `NothingWhileDegraded` and the contract |
| `system_restart` | 3 runtimes, 3 changes or restarts of 2 topics, 1 fault | `FreshUnlessLost`, `NoSpuriousReconnect`, and under fairness `CatchesUp` |
| `system_loss` | 1 runtime, 5 changes of 2 topics, 1 lost event, 3 sequence numbers | `SystemTypeOK`, `FreshUnlessLost`, `NoSpuriousResync` |
| `rpc_client` | 3 identifiers, 2 methods, 4 calls, 2 interrupts | `AnswerMatchesCall`, `ToldTheTruth`, `NoLateAnswer`, and that `BridgeRpcClient` implements `RpcOutcomes` |
| `event_subscriber` | 4 frames | `ToldInOrder`, `LossIsFinal`, and under fairness `EverythingTold` and `CloseNoticed` |
| `messages` | every data type of the protocol, valid and one mistake away from it | `OneBranch`, `ResultFitsMethod`, `EventReadable`, `SentAsCalled`, `NothingIgnored`, `IconsReadable` |
| `generated_package` | 2 commits, 109 variants of the schemas | `CheckIsHonest`, `UpdateRepairs`, `OneMeaning` |
| `integration_tests` | 2 commits | `TestedIsPinned` |
| `distributions` | archives that lack any file, have it in another place, have one too many or require other packages | `OnlyKnownGaps`: what an import of a verified wheel lacks is one of three things the tool cannot notice |

Bounds of the client.  Two sessions are enough because the code only compares sessions
for equality with at most three stored ones, and a change back to the first session is
included.  Three sequence numbers make a feed of four events wrap around, from every
starting number; `MaxFeed` bounds the feed, not the gaps, foreign events or
recoveries, which occur without bound.  Raw use and interrupts multiply the states, and
neither property of `client_raw` is about the length of a feed, so two events suffice
there.  Four calls on three request identifiers wrap around while answers of
interrupted calls are unread.  `MaxInterrupts` of `rpc_client` may be at most
`UINT32_MAX`: an identifier stands for one unread answer only while fewer requests have
been abandoned on a socket than there are identifiers, in the code 2^32.  `UINT32_MAX`
itself is a constant of the models, so that TLC reaches the wraparounds; the proofs
hold for every value of it.

Bounds of the system.  Two topics are one of each kind: `timer`, whose event carries
the state, and `run`, which has to be asked for.  `system_restart` lets the Bridge
restart twice, so also during the recovery from the first restart, with a change
before, between or after, and one timeout, denial, bad frame or failed connection
anywhere.  `system_loss` keeps one session, as a restart forgets all sequence numbers,
and publishes more events than there are numbers.  `MaxFeed` must not hold back an
event (`SystemAssumption`).

Three facts about the system the runs rely on or show.  After `synchronize()` the
caller may receive events that are older than the snapshot, since they were buffered:
its copy goes back before it comes forward again, and is current once the buffer is
drained; `UpToDate` says when that is.  An event that is lost before the first one
received after a snapshot, where the client has no baseline, is noticed by nobody, and
one that is lost behind the last one not yet; `Excused` is exactly these two.  Losing
as many events in a row as there are sequence numbers looks like losing none, hence
`MaxDrops < UINT32_MAX`.

Raw use and interrupts are a run of their own because some properties are claimed for
strict callers only: a transport lost by a request on `client.rpc` leaves
`recovery_state` at `HEALTHY` (the next request clears `transport_reset`), a denied raw
request moves `session_id` before the client has compared it, and so does an
interrupted `synchronize()`, whose next request then notices the change.

Bounds of the messages.  `INT32_MAX`, `INT64_MAX` and `UINT32_MAX` are small and
distinct, so that each range has values on both of its ends and just outside.  From
each type `Near` takes a valid text and every text with one mistake at any depth: a
field of another kind or just out of range, missing, unknown or given twice.  Two
mistakes that cancel each other are not tried.

Bounds of the tools.  Two commits, one as pinned today in miniature and one that is
any of 108 combinations of conditional, definitions, titles and a shared type that may
differ, or has no `RunIcons`; any number of updates, checks, failures, edits and moved
pins in between.  Archives are one change away from the complete one, or have every file
in another place, with any set of four requirements or one of the development
requirements besides; directories with no archive or two are among them.

Deadlock is checked in every run but two.  `messages` and `distributions` evaluate one
message or one directory and then stop.  In the others every state lets a call be
turned away, a wait go on or a tool be started.

Fairness.  `event_subscriber` assumes weak fairness of reading a readable frame and of
reading the close behind the last one.  It stands for a caller that keeps receiving
(`for event in client`), and `recv_data()` returns what has arrived before it times
out.  `system_restart` assumes weak fairness of `ClientStep`, the next step of the
client or its caller whatever it is: the caller stays in its loop and every wait ends
(`response_timeout_ms`, or the frame).  Which outcome a step has is not fair, and
neither are the Bridge, its restarts, faults and losses; they are finite, so `CatchesUp`
speaks of what follows the last of them.  The other runs state safety only.

## Proofs

`BridgeClientProofs` proves, for every `UINT32_MAX > 0`,
every set of sessions within `1..UINT32_MAX`, every `MaxFeed` and, except for
`UsableConnectionsHolds`, with and without `RawAccess` and `Interrupts`;
the other modules for every value of the constants that their assumptions allow:

| theorem | states | along |
| --- | --- | --- |
| `TypeCorrect` | `Spec => []TypeOK` | `TypeOK` is inductive; `AfterRequestType`, `ObserveType` and `CollectType` type the helpers |
| `OneSessionHolds` | `Spec => []OneSession` | `SessionInv`: all of `seen` is the pinned session, `known` and `eventSession` agree if both are set, and the collection so far is of one session |
| `FeedContiguousHolds` | `Spec => []FeedContiguous` | `FeedInv`: `lastSeq` is the last element of `feed`, or both are empty |
| `ContractHolds` | `Spec => ContractSpec` | a step lemma: every action maps to an action of `RecoveryContract` or to a stutter, using the two invariants above and `PhaseInv`, which ties `closed` and the phases |
| `NoSocketLeakHolds` | `Spec => []NoSocketLeak` | `SocketInv`, which adds which objects may be attached in which phase |
| `SnapshotOneSessionHolds` | `Spec => []SnapshotOneSession` | `CollectingInv`: `left` plus the answers collected is a query count, and all answers are of session `got` |
| `NothingWhileDegradedHolds` | `Spec => NothingWhileDegraded` | `ConstructionInv`: a client under construction is healthy; an admitted call starts from `HEALTHY` |
| `RecoveryLadderHolds` | `Spec => RecoveryLadder` | `PhaseInv` (no synchronisation runs over a lost session) and `ConstructionInv` (the candidate event connection is fresh); a completed query proves that its socket is attached |
| `UsableConnectionsHolds` | `~RawAccess /\ ~Interrupts => (Spec => []UsableConnections)` | `UsableInv`, which extends the property to the phases inside `synchronize()` and `reconnect()`, with `SessionInv` |
| `SubscriberTypeCorrect` | `Spec => []TypeOK` | `TypeOK` is inductive |
| `ToldInOrderHolds` | `Spec => []ToldInOrder` | inductive with `TypeOK`; `MoveHead`, `AppendBehind` and `FirstIsPrefix` are the facts about sequences |
| `LossIsFinalHolds` | `Spec => LossIsFinal` | `LossInv`: what a `receive()` that ended in a loss has said is what is stored |
| `RpcTypeCorrect` | `Spec => []TypeOK` | with `RpcInv`, which says of what is under way that it was sent |
| `ToldTheTruthHolds` | `Spec => []ToldTheTruth` | `FlightInv`: requests and answers stay in the order of the calls, and an answer says whether its request was executed; `AgeInv`: everything unread belongs to one of the last `interrupts + 1` calls; so an equal identifier is the same call (`SameModApart`) |
| `AnswerMatchesCallHolds` | `Spec => []AnswerMatchesCall` | follows from `RpcInv`, as the accepted answer is that of the call |
| `NoLateAnswerHolds` | `Spec => []NoLateAnswer` | a failed wait drops the socket with all that is unread; the next one is a new connection |
| `OutcomeHolds` | `Spec => OutcomeSpec` | a step lemma: the object is left alone, or changes as one `AfterRequest`; `CallInv` gives that a wait starts with clear flags |
| `SystemTypeCorrect` | `SystemSpec => []SystemTypeOK` | with the client's `TypeOK`, which the refinement brings |
| `SystemImplementsClient` | `SystemSpec => Spec` | a step lemma: each system action does what one client action does, with an outcome that `Meets` allows, or leaves the client's variables alone; `LifeInv` gives the client's guards |
| `NoSpuriousReconnectHolds` | `SystemSpec => NoSpuriousReconnect` | `RuntimeInv`: all the client knows of a session it learnt from the connection in use, whose runtime is not the running one as soon as two of these differ |
| `FreshUnlessLostHolds` | `SystemSpec => []FreshUnlessLost` | `FreshInv`, below |
| `NoSpuriousResyncHolds` | `SystemSpec => NoSpuriousResync` | `FreshInv`, below |
| `UpdateRepairsHolds` | `Spec => []UpdateRepairs` | `PackageInv`: a running tool holds the output for the pin; `FilesInv`: what is done and left to do between two file operations |
| `CheckIsHonestHolds` | `Spec => CheckIsHonest` | `PackageInv` again: at the comparison the output is the pinned one |
| `OneMeaningHolds` | `Spec => []OneMeaning` | `MeaningInv`: whatever was generated or verified came from schemas that merge; `MergeKeeps` and `NormalizeMeans`, below |
| `TestedIsPinnedHolds` | `TestsSpec => []TestedIsPinned` | `TestsInv`: which of checkout, host and samples agree at each step |
| `OnlyKnownGapsHolds` | `ArchivesSpec => []OnlyKnownGaps` | `ImportsListed`: every module of the package that an import reaches is in `RequiredSuffixes`; `WheelGaps`: a module that was found lies in the wheel, and Pydantic is lacking only where another requirement begins with its name; for any set of archives |
| `NineLevelsEnough` | `Validates(Accepts, ...) <=> Accepts(...)` for every message | `LevelsSettle`: a type of at most so many levels of parts is decided by so many levels of validation; then the depth of each type, up to `RunState` |
| `OneBranchHolds` | `Spec => []OneBranch` | `Taken`; `ResultsDiffer`: each type of result has a field that no other has (`Mark`), `OneEvent`: the types of events are disjoint, `OneRequest`: methods and parameters differ |
| `ResultFitsMethodHolds` | `Spec => []ResultFitsMethod` | `Answered`: the type that was found is the one of the method; `LevelsGrow` |
| `EventReadableHolds` | `Spec => []EventReadable` | the three branches together are equivalent to the rule of the README; a timer state is the same at every level it stands at (`TimerStateLevels`) |
| `SentAsCalledHolds` | `Spec => []SentAsCalled` | `Sent`: what leaves was validated with the identifier in it; `EmptyParams`: arguments that were refused leave nothing valid |
| `IconsReadableHolds` | `Spec => []IconsReadable` | `DecodedIcons`: what was checked decodes, null to null only, and the text of an image to that image |

None of the client's properties is inductive alone: `OneSession` speaks of what was handed
out, not of the session the next answer is compared with, and `FeedContiguous` not of the
baseline; the invariants add exactly that link.

With `SystemImplementsClient` the theorems about the client hold of the client in the
system too.

`FreshInv` is about a system in which snapshots, buffered events and losses overlap.  Of
each of the two event connections it says (`WireInv`) that what is in flight is in order,
that no change behind an event in flight lacks an event of its own, in flight or lost, and
that numbers count changes from some offset on.  Of the reader (`ReadingInv`): its last
number is that of the last clock it has read, and nothing behind that clock is missing.
Of a snapshot being collected and of the copy (`Current`): each value is the present one,
or an event that says so is still on the connection.  When the buffer is empty only a lost event
can be that one, and it lies outside the part that was read, which is `Excused`.  A gap
is an event whose number is not the next one.  If nothing between it and the last
one were lost the numbers would follow (`NextClock`); the converse, that the next
number is the next change, needs fewer losses than numbers, by counting the lost
clocks in between (`ManyClocks`).  This is where `MaxDrops < UINT32_MAX` is used,
and the property fails without it.

`OneMeaning` is about lists of schemas of any length, so its proof is an induction over
the turns of `combine()`.  The library's induction theorems take an operator as a parameter,
which the provers cannot instantiate; `CountUp` of `NumberLemmas` is induction up to a
number with a set in place of the operator: a set of numbers up to `n` that holds 0 and
with each number below `n` the next one holds `n`.  It follows from the pigeonhole
principle, as the successors would otherwise be as many numbers of the set as it has,
and 0 is not among them.  `LoopExists` uses it to show that the recursive function
`Turns` exists, and `MergeKeeps` that a definition, once merged, is never changed by a
later turn.  `NormalizeMeans` then says that rewriting `RunIcons` as a type accepts what
the conditional did.

The outcome of a message is fixed by its input (`Taken`), so the proofs of
`BridgeMessagesProofs` are about values: for every decoder, any value however deep, and
any ranges of the integers.

The assumptions are `WireAssumption`, `ClientAssumption`, `SystemAssumption` (some session
exists, topics are of the protocol's, the bounds are numbers, fewer losses than sequence
numbers, room for all events in `feed`), `RpcAssumption` (at most `UINT32_MAX` interrupts,
see Runs), `SubscriberAssumption` and, for the messages and the tools:

- `CallsAssumption`: `timer_operation()` is called without ticks, as its signature has none.
- `ObjectsAssumption`: the decoder reads an object as an object.
- `PicturesAssumption`: bytes that a caller gives are one of the two images that
  the model tells apart.
- `HistoryAssumption`: the schemas of a commit are a sequence, and `RunIcons` is the only
  definition with a conditional.  The code generator ignores conditionals and
  `normalize_run_icons()` looks at that one only, so the project relies on this of the
  Bridge's schemas; with a conditional beside another definition the generated models
  would accept more than the schema.

The runs evaluate all of them.  The integration and distribution scripts have none.

`ToolProofs` extends `GeneratedPackage`, `IntegrationTests` and `Distributions` at once;
the first two have the pin in common, and the theorems of each name its own
specification (`Spec`, `TestsSpec`, `ArchivesSpec`).

So every safety property the runs check is also a theorem, except `NothingIgnored`.  It
compares a text with the value read from it, at any depth; the decoder and the
comparison are recursive over the text, no number bounds its depth, and induction over
data is out of the prover's reach.  So is liveness under fairness (`CatchesUp`, `EverythingTold`,
`CloseNoticed`).  These four stay with TLC.

## Not modelled

- What the WebSocket library does below a frame: ping and pong, how long a partial
  message may take against `response_timeout_ms`, a peer that vanishes without closing,
  and what `timeout_ms=0` raises on a non-blocking socket.
- The encoding of text, and of icons beyond "the Base64 of a known image or not".
- A `KeyboardInterrupt` elsewhere than in a wait on the network, such as between two
  assignments of the client.
- Two steps of the developer's at once: files edited while a tool runs.  The local edits
  of a checkout that `run_integration.py --source` is given are tested as they are; the
  property is about its commit.
- Third-party tools that the scripts start (git, dotnet, datamodel-code-generator), except
  for what they leave behind, and the CI workflows, which only start these scripts, the
  linters and the tests, each job in a checkout of its own.
- What `verify_distributions.py` does not look at.  `OnlyKnownGaps` names it, and a wheel
  that is verified may therefore not be importable: its modules may lie under another path
  (line 30 compares suffixes); it may not require `websocket-client`, which `rpc.py:5` and
  `events.py:6` import and the tool never asks for; and any requirement that begins with
  `pydantic` passes for Pydantic (line 67).  `uv build` and `pyproject.toml` do not produce
  such a wheel.
- Two hazards that the models reach and no property covers (PROJECT.json notes these
  and the ones out of reach).  A request on
  `client.rpc` hides a lost transport from `recovery_state` (`rpc.py:142`), which is how raw
  use works; and a control that succeeded in a new runtime raises
  `BridgeReconnectRequiredError` (`client.py:236`), so the caller is not told of the success.
- How the Bridge works inside; it is an environment.  That a new runtime has an
  identifier not used before is assumed by `BridgeSystem`, not by `BridgeClient`.

## Plan

1. Done: `BridgeWire`, `BridgeConnections`, `BridgeClient` with raw use and interrupts,
   `RecoveryContract`, `BridgeRpcClient`, `RpcOutcomes`, `BridgeEventSubscriber`, and the
   proofs about the client and the subscriber.
2. Done: `BridgeSystem`.
3. Done: `BridgeProtocol`, `BridgeMessages`, `BridgeJson`.
4. Done: `PinnedSource`, `SchemaMerge`, `GeneratedPackage`, `IntegrationTests`, `Distributions`.
5. Done, proofs: `BridgeRpcProofs`, `BridgeSystemProofs`, `BridgeFreshnessProofs`,
   `ToolProofs`, `BridgeMessagesProofs`.  Left to TLC: what the section Proofs names.
