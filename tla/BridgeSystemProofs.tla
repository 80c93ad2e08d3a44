------------------------- MODULE BridgeSystemProofs -------------------------
(***************************************************************************)
(* Proofs about the client, its caller and a Bridge together, for every    *)
(* number of runtimes, changes, losses and faults: that the system runs    *)
(* the client as BridgeClient specifies it, and that a reconnection is     *)
(* asked for only with reason.                                             *)
(***************************************************************************)
EXTENDS BridgeSystem, BridgeClientProofs

-----------------------------------------------------------------------------
(* The system runs the client *)

\* The oldest event in flight is an event.
LEMMA FirstType ==
    ASSUME SystemTypeOK, Arrived
    PROVE  /\ First \in Events /\ First.session \in Sessions /\ First.number \in EventSequences
           /\ First.topic \in Topics /\ First.at \in 1..MaxChanges
           /\ Tail(eventWire.queue) \in Seq(Events)
<1>1. eventWire.queue \in Seq(Events) /\ eventWire.queue # <<>>
  BY DEF SystemTypeOK, Arrived
<1> HIDE DEF Events
<1>2. First \in Events /\ Tail(eventWire.queue) \in Seq(Events)
  BY <1>1 DEF First
<1> QED
  BY <1>2 DEF Events

\* Every step of the system is a step of the client, or one the client does
\* not see.
LEMMA SystemStepIsClientStep == SystemTypeOK /\ [SystemNext]_systemVars => [Next]_vars
<1> SUFFICES ASSUME SystemTypeOK, [SystemNext]_systemVars PROVE [Next]_vars
  OBVIOUS
<1>1. CASE BridgeStep
  BY <1>1 DEF BridgeStep, Change, Restart
<1>2. CASE StartEvents \/ StartRpc \/ StartFails
  BY <1>2 DEF StartEvents, StartRpc, StartFails, Next, Construct
<1>3. CASE StartSynchronize \/ StartReconnect
  BY <1>3 DEF StartSynchronize, StartReconnect, Next
<1>4. CASE SynchronizeQuery \/ ReconnectQuery
  BY <1>4 DEF SynchronizeQuery, ReconnectQuery, Next
<1>5. CASE ReconnectSecond \/ ReconnectRefused
  BY <1>5 DEF ReconnectSecond, ReconnectRefused, Next
<1>6. ASSUME NEW t \in Topics, AskAgain(t) PROVE Next
  BY <1>6 DEF AskAgain, Next
<1>7. CASE ReceiveArrived
  <2>1. First.session \in Sessions /\ First.number \in EventSequences
    BY <1>7, FirstType DEF ReceiveArrived
  <2>2. \/ ReceiveEvent(First.session, First.number)
        \/ ReceiveForeign(First.session)
        \/ ReceiveGap(First.session, First.number)
        \/ ReceiveMalformed
    BY <1>7 DEF ReceiveArrived, TakeEvent, DropEvent
  <2> QED
    BY <2>1, <2>2 DEF Next, ReceiveStep
<1>8. CASE ReceiveQuiet
  BY <1>8 DEF ReceiveQuiet, Next, ReceiveStep
<1>9. CASE UNCHANGED systemVars
  BY <1>9 DEF systemVars
<1> QED
  BY <1>1, <1>2, <1>3, <1>4, <1>5, <1>6, <1>7, <1>8, <1>9 DEF SystemNext, ClientStep

-----------------------------------------------------------------------------
(* Types *)

WireTypeOK(w) ==
    /\ w.session \in MaybeSessions
    /\ w.queue \in Seq(Events)
    /\ w.lost \subseteq Events

BudgetType == [sessions : SUBSET Sessions, drops : 0..MaxDrops, faults : 0..MaxFaults]

\* A fresh connection, a published event and an event taken keep the types.
LEMMA WireTypes ==
    ASSUME SystemTypeOK
    PROVE  /\ WireTypeOK(NoWire) /\ WireTypeOK(NewWire)
           /\ WireTypeOK(eventWire) /\ WireTypeOK(newEventWire)
<1>1. <<>> \in Seq(Events) /\ {} \subseteq Events /\ 0 \in MaybeSessions
  BY DEF MaybeSessions
<1>2. session \in MaybeSessions
  BY DEF SystemTypeOK, MaybeSessions
<1>3. WireTypeOK(NoWire)
  BY <1>1 DEF WireTypeOK, NoWire
<1>4. WireTypeOK(NewWire)
  BY <1>1, <1>2 DEF WireTypeOK, NewWire, NoWire
<1> QED
  BY <1>3, <1>4 DEF SystemTypeOK, WireTypeOK

LEMMA PublishType ==
    ASSUME NEW w, WireTypeOK(w), NEW object, NEW e \in Events, NEW kept \in BOOLEAN
    PROVE  WireTypeOK(Publish(w, object, e, kept))
<1> HIDE DEF Events
<1>1. CASE ~Listens(object) \/ w.session # session
  BY <1>1 DEF Publish
<1>2. CASE Listens(object) /\ w.session = session /\ kept
  BY <1>2 DEF Publish, WireTypeOK
<1>3. CASE Listens(object) /\ w.session = session /\ ~kept
  BY <1>3 DEF Publish, WireTypeOK
<1> QED
  BY <1>1, <1>2, <1>3

\* What TypeOK does not say of the types of the system.
RestTypeOK ==
    /\ session \in Sessions
    /\ number \in MaybeSequences
    /\ version \in [Topics -> 0..MaxChanges]
    /\ collected \in [Topics -> 0..MaxChanges]
    /\ copy \in [Topics -> 0..MaxChanges]
    /\ WireTypeOK(eventWire) /\ WireTypeOK(newEventWire)
    /\ rpcWire \in MaybeSessions /\ newRpcWire \in MaybeSessions
    /\ todo \subseteq Topics
    /\ clock \in 0..MaxChanges
    /\ span \in (0..MaxChanges) \X (0..MaxChanges)
    /\ budget \in BudgetType

LEMMA TypeParts == SystemTypeOK <=> TypeOK /\ RestTypeOK
BY Zenon DEF SystemTypeOK, RestTypeOK, WireTypeOK, BudgetType

\* The successor of a sequence number is one, also behind zero.
LEMMA NextSequenceType ==
    ASSUME NEW n \in MaybeSequences
    PROVE  NextSequence(n) \in EventSequences /\ NextSequence(n) \in MaybeSequences
<1> UINT32_MAX \in Nat \ {0} /\ n \in Nat
  BY WireAssumption DEF MaybeSequences
<1>1. n % UINT32_MAX \in 0..(UINT32_MAX - 1)
  OBVIOUS
<1> QED
  BY <1>1 DEF NextSequence, EventSequences, MaybeSequences

\* Paying for a fault keeps the type of the budget.
LEMMA SpendType ==
    ASSUME RestTypeOK, Spend \/ UNCHANGED budget
    PROVE  /\ budget' \in BudgetType
           /\ budget'.drops = budget.drops /\ budget'.sessions = budget.sessions
           /\ Spend => budget'.faults < budget.faults
<1>1. CASE Spend
  <2>1. budget.faults - 1 \in 0..MaxFaults
    BY <1>1, SystemAssumption DEF Spend, RestTypeOK, BudgetType
  <2> QED
    BY <1>1, <2>1 DEF Spend, RestTypeOK, BudgetType
<1>2. CASE UNCHANGED budget /\ ~Spend
  BY <1>2 DEF RestTypeOK
<1> QED
  BY <1>1, <1>2

\* A change that is published, and to whom, keeps the types.
LEMMA ChangeType ==
    ASSUME RestTypeOK, NEW t \in Topics, NEW kept \in BOOLEAN, NEW newKept \in BOOLEAN,
           Change(t, kept, newKept)
    PROVE  RestTypeOK'
<1> DEFINE e == [session |-> session, number |-> number', topic |-> t, at |-> clock']
<1>1. clock' \in 1..MaxChanges /\ clock' \in 0..MaxChanges
  BY SystemAssumption DEF Change, RestTypeOK
<1>2. number' \in EventSequences /\ number' \in MaybeSequences
  BY NextSequenceType DEF Change, RestTypeOK
<1>3. version' \in [Topics -> 0..MaxChanges]
  BY <1>1 DEF Change, RestTypeOK
<1>4. e \in Events
  BY <1>1, <1>2 DEF Events, RestTypeOK
<1>5. WireTypeOK(eventWire') /\ WireTypeOK(newEventWire')
  BY <1>4, PublishType, Zenon DEF Change, RestTypeOK
<1>6. budget' \in BudgetType
  <2>1. CASE kept /\ newKept
    BY <2>1 DEF Change, RestTypeOK
  <2>2. CASE ~(kept /\ newKept)
    <3>1. budget.drops > 0 /\ budget' = [budget EXCEPT !.drops = @ - 1]
      BY <2>2 DEF Change
    <3>2. budget.drops - 1 \in 0..MaxDrops
      BY <3>1, SystemAssumption DEF RestTypeOK, BudgetType
    <3> QED
      BY <3>1, <3>2 DEF RestTypeOK, BudgetType
  <2> QED
    BY <2>1, <2>2
<1>7. WireTypeOK(eventWire)' /\ WireTypeOK(newEventWire)'
  BY <1>5 DEF WireTypeOK
<1> QED
  BY <1>1, <1>2, <1>3, <1>6, <1>7 DEF Change, RestTypeOK, caller

LEMMA RestartType == RestTypeOK /\ Restart => RestTypeOK'
<1> SUFFICES ASSUME RestTypeOK, Restart PROVE RestTypeOK'
  OBVIOUS
<1>1. clock' \in 0..MaxChanges
  BY SystemAssumption DEF Restart, RestTypeOK
<1>2. version' \in [Topics -> 0..MaxChanges]
  BY <1>1 DEF Restart
<1>3. session' \in Sessions /\ budget' \in BudgetType
  BY DEF Restart, RestTypeOK, BudgetType
<1>4. number' \in MaybeSequences
  BY WireAssumption DEF Restart, MaybeSequences
<1> QED
  BY <1>1, <1>2, <1>3, <1>4 DEF Restart, RestTypeOK, wires, caller, WireTypeOK

\* Reading an answer and keeping a snapshot keep the types.
LEMMA SnapshotType ==
    ASSUME RestTypeOK, NEW o, Read(o), NEW call, Keep(call)
    PROVE  /\ collected' \in [Topics -> 0..MaxChanges]
           /\ copy' \in [Topics -> 0..MaxChanges]
           /\ todo' \subseteq Topics
           /\ span' \in (0..MaxChanges) \X (0..MaxChanges)
<1>1. collected' \in [Topics -> 0..MaxChanges]
  BY DEF Read, RestTypeOK
<1>2. NoSpan \in (0..MaxChanges) \X (0..MaxChanges)
  BY SystemAssumption DEF NoSpan
<1> QED
  BY <1>1, <1>2 DEF Keep, RestTypeOK

\* Receiving keeps the types.
LEMMA TakeEventType ==
    ASSUME SystemTypeOK, RestTypeOK, Arrived, TakeEvent
    PROVE  /\ copy' \in [Topics -> 0..MaxChanges]
           /\ todo' \subseteq Topics
           /\ span' \in (0..MaxChanges) \X (0..MaxChanges)
<1>1. First.topic \in Topics /\ First.at \in 0..MaxChanges
  BY FirstType
<1>2. copy' \in [Topics -> 0..MaxChanges] /\ todo' \subseteq Topics
  BY <1>1 DEF TakeEvent, RestTypeOK
<1>3. span[1] \in 0..MaxChanges
  BY DEF RestTypeOK
<1>4. span' \in {<<First.at, First.at>>, <<span[1], First.at>>}
  BY DEF TakeEvent
<1> QED
  BY <1>1, <1>2, <1>3, <1>4

LEMMA RestTypeStep == SystemTypeOK /\ RestTypeOK /\ [SystemNext]_systemVars => RestTypeOK'
<1> SUFFICES ASSUME SystemTypeOK, RestTypeOK, [SystemNext]_systemVars PROVE RestTypeOK'
  OBVIOUS
<1>0. session \in MaybeSessions /\ 0 \in MaybeSessions
  BY DEF RestTypeOK, MaybeSessions
<1>1. CASE BridgeStep
  BY <1>1, ChangeType, RestartType DEF BridgeStep
<1>2. ASSUME StartEvents \/ StartRpc \/ StartFails PROVE RestTypeOK'
  <2>1. budget' \in BudgetType
    BY <1>2, SpendType DEF StartEvents, StartRpc, StartFails
  <2>2. WireTypeOK(eventWire)' /\ WireTypeOK(newEventWire)'
    BY <1>2, WireTypes DEF StartEvents, StartRpc, StartFails, WireTypeOK
  <2> QED
    BY <1>0, <1>2, <2>1, <2>2 DEF StartEvents, StartRpc, StartFails, bridge, caller, RestTypeOK
<1>3. CASE StartSynchronize
  BY <1>3 DEF StartSynchronize, bridge, wires, caller, RestTypeOK, WireTypeOK
<1>4. CASE StartReconnect \/ ReconnectSecond \/ ReconnectRefused
  <2>1. budget' \in BudgetType
    BY <1>4, SpendType DEF StartReconnect, ReconnectSecond, ReconnectRefused
  <2>2. WireTypeOK(eventWire)' /\ WireTypeOK(newEventWire)'
    BY <1>4, WireTypes DEF StartReconnect, ReconnectSecond, ReconnectRefused, WireTypeOK
  <2> QED
    BY <1>0, <1>4, <2>1, <2>2
    DEF StartReconnect, ReconnectSecond, ReconnectRefused, bridge, caller, RestTypeOK
<1>5. CASE SynchronizeQuery
  <2>1. PICK o \in Outcomes : Meets(rpcWire, o) /\ Read(o) /\ Keep("synchronize")
    BY <1>5 DEF SynchronizeQuery
  <2>2. budget' \in BudgetType
    BY <2>1, SpendType DEF Meets
  <2> QED
    BY <1>5, <2>1, <2>2, SnapshotType DEF SynchronizeQuery, bridge, wires, RestTypeOK, WireTypeOK
<1>6. CASE ReconnectQuery
  <2>1. PICK o \in Outcomes : Meets(newRpcWire, o) /\ Read(o) /\ Keep("reconnect")
    BY <1>6 DEF ReconnectQuery
  <2>2. budget' \in BudgetType
    BY <2>1, SpendType DEF Meets
  <2>3. /\ eventWire' \in {eventWire, newEventWire} /\ newEventWire' \in {newEventWire, NoWire}
        /\ rpcWire' \in {rpcWire, newRpcWire} /\ newRpcWire' \in {newRpcWire, 0}
    BY <1>6 DEF ReconnectQuery, wires
  <2>4. WireTypeOK(eventWire)' /\ WireTypeOK(newEventWire)'
    BY <2>3, WireTypes DEF WireTypeOK
  <2> QED
    BY <1>0, <1>6, <2>1, <2>2, <2>3, <2>4, SnapshotType DEF ReconnectQuery, bridge, RestTypeOK
<1>7. ASSUME NEW t \in Topics, AskAgain(t) PROVE RestTypeOK'
  <2>1. budget' \in BudgetType
    BY <1>7, SpendType DEF AskAgain, Meets
  <2>2. copy' \in [Topics -> 0..MaxChanges] /\ todo' \subseteq Topics
    BY <1>7 DEF AskAgain, RestTypeOK
  <2> QED
    BY <1>7, <2>1, <2>2 DEF AskAgain, bridge, wires, RestTypeOK, WireTypeOK
<1>8. CASE ReceiveArrived
  <2>1. budget' \in BudgetType
    BY <1>8, SpendType DEF ReceiveArrived, TakeEvent, DropEvent
  <2>2. WireTypeOK(eventWire)'
    <3>1. Tail(eventWire.queue) \in Seq(Events) /\ WireTypeOK(eventWire)
      BY <1>8, FirstType DEF ReceiveArrived, RestTypeOK
    <3>2. eventWire' = [eventWire EXCEPT !.queue = Tail(@)]
      BY <1>8 DEF ReceiveArrived, Pop
    <3> QED
      BY <3>1, <3>2 DEF WireTypeOK
  <2>3. /\ collected' \in [Topics -> 0..MaxChanges]
        /\ copy' \in [Topics -> 0..MaxChanges]
        /\ todo' \subseteq Topics
        /\ span' \in (0..MaxChanges) \X (0..MaxChanges)
    BY <1>8, TakeEventType DEF ReceiveArrived, TakeEvent, DropEvent, caller, RestTypeOK
  <2> QED
    BY <1>8, <2>1, <2>2, <2>3 DEF ReceiveArrived, bridge, RestTypeOK, WireTypeOK
<1>9. CASE ReceiveQuiet
  <2>1. budget' \in BudgetType
    BY <1>9, SpendType DEF ReceiveQuiet
  <2> QED
    BY <1>9, <2>1 DEF ReceiveQuiet, bridge, wires, caller, RestTypeOK, WireTypeOK
<1>10. CASE UNCHANGED systemVars
  BY <1>10 DEF systemVars, bridge, wires, caller, RestTypeOK, WireTypeOK
<1> QED
  BY <1>1, <1>2, <1>3, <1>4, <1>5, <1>6, <1>7, <1>8, <1>9, <1>10 DEF SystemNext, ClientStep

LEMMA SystemTypeStep == SystemTypeOK /\ [SystemNext]_systemVars => SystemTypeOK'
<1> SUFFICES ASSUME SystemTypeOK, [SystemNext]_systemVars PROVE SystemTypeOK'
  OBVIOUS
<1>1. TypeOK'
  BY TypeParts, SystemStepIsClientStep, TypeStep
<1>2. RestTypeOK'
  BY TypeParts, RestTypeStep
<1> QED
  BY <1>1, <1>2 DEF SystemTypeOK, RestTypeOK, WireTypeOK, BudgetType

LEMMA SystemInitTypes == SystemInit => SystemTypeOK /\ RestTypeOK
<1> SUFFICES ASSUME SystemInit PROVE SystemTypeOK /\ RestTypeOK
  OBVIOUS
<1>1. TypeOK
  BY InitTypes DEF SystemInit
<1>2. session \in Sessions
  BY SystemAssumption DEF SystemInit
<1>3. /\ WireTypeOK(NoWire) /\ 0 \in MaybeSessions
      /\ NoSpan \in (0..MaxChanges) \X (0..MaxChanges)
  BY SystemAssumption DEF WireTypeOK, NoWire, MaybeSessions, NoSpan
<1>4. budget \in BudgetType
  BY SystemAssumption DEF SystemInit, BudgetType
<1>5. version \in [Topics -> 0..MaxChanges]
  BY SystemAssumption DEF SystemInit
<1>6. RestTypeOK
  BY <1>2, <1>3, <1>4, <1>5, SystemAssumption DEF SystemInit, RestTypeOK
<1> QED
  BY <1>1, <1>6, TypeParts

\* SystemTypeOK holds in every reachable state.
THEOREM SystemTypeCorrect == SystemSpec => []SystemTypeOK
BY SystemInitTypes, SystemTypeStep, PTL DEF SystemSpec

\* The system is an implementation of BridgeClient: every theorem about the
\* client holds of the client in the system.
THEOREM SystemImplementsClient == SystemSpec => Spec
<1>1. SystemInit => Init
  BY DEF SystemInit
<1> QED
  BY <1>1, SystemTypeCorrect, SystemStepIsClientStep, PTL DEF SystemSpec, Spec

-----------------------------------------------------------------------------
(* Which session is where *)

\* Which connections there are in which phase; nobody closes the client.
LifeInv ==
    /\ ~closed
    /\ phase = "new_events" => eventWire = NoWire
    /\ phase # "new_events" => events.socket
    /\ phase \in {"re_rpc", "re_sync"} => newEvents = FreshEvents
    /\ phase \notin {"re_rpc", "re_sync"} => newEventWire = NoWire
    /\ phase # "re_sync" => newRpcWire = 0

\* Everything published to a connection, in flight or lost.
InFlight(w) == {w.queue[i] : i \in 1..Len(w.queue)}
Sent(w) == InFlight(w) \cup w.lost

OwnEvents(w) == \A e \in Sent(w) : e.session = w.session

\* Everything the client knows of a session it learnt from the connection in
\* use, and no future runtime has the identifier of a past one.
RuntimeInv ==
    /\ \A s \in {session, eventWire.session, newEventWire.session, rpcWire, newRpcWire} :
          s \notin budget.sessions
    /\ rpc.session \in {0, rpcWire} /\ newRpc.session \in {0, newRpcWire}
    /\ known \in {0, rpcWire}
    /\ eventSession \in {0, eventWire.session}
    /\ OwnEvents(eventWire) /\ OwnEvents(newEventWire)
    /\ phase = "sync" => got \in {0, rpcWire}
    /\ phase = "re_rpc" => got = 0 /\ newRpc.session = 0
    /\ phase = "re_sync" => got \in {0, newRpcWire}

\* What a query over a connection to runtime w meets: an answer or a denial
\* is the running Bridge's own, and nothing is refused.
LEMMA MeetsCases ==
    ASSUME RestTypeOK, NEW w, NEW o, Meets(w, o)
    PROVE  /\ o.kind \in {"ok", "remote"} => o.session = session /\ w = session
           /\ o.kind \in {"ok", "remote", "lost", "protocol"}
           /\ budget'.drops = budget.drops /\ budget'.sessions = budget.sessions
           /\ w = session => o = Answer(session) \/ budget'.faults < budget.faults
           /\ o.kind = "ok" => o = Answer(session)
<1>1. CASE o = Served(w) /\ UNCHANGED budget
  BY <1>1 DEF Served, Answer, Lost
<1>2. CASE o \in {Lost, BadAnswer} /\ Spend
  BY <1>2, SpendType DEF Lost, BadAnswer
<1>3. CASE o = Denial(w) /\ w = session /\ Spend
  BY <1>3, SpendType DEF Denial
<1> QED
  BY <1>1, <1>2, <1>3 DEF Meets

\* Over a connection to runtime w no request sees a change of session.
LEMMA SameRuntime ==
    ASSUME RestTypeOK, NEW w, NEW r \in RpcObjects, r.session \in {0, w}, NEW o \in Outcomes,
           Meets(w, o), NEW q, q = AfterRequest(r, o)
    PROVE  /\ q.session \in {0, w}
           /\ q.change = NoChange
           /\ o.kind \in {"ok", "remote"} => q.session = w
           /\ q \in RpcObjects
<1>1. /\ o.kind \in {"ok", "remote", "lost", "protocol"}
      /\ o.kind \in {"ok", "remote"} => o.session = w
  BY MeetsCases
<1>2. /\ ClearFlags(r) \in RpcObjects /\ ClearFlags(r).session = r.session
      /\ ClearFlags(r).change = NoChange
  BY DEF RpcObjects, ClearFlags, SessionChanges
<1>3. q \in RpcObjects
  BY AfterRequestType
<1>4. CASE o.kind \in {"ok", "remote"}
  <2>1. q = CommitSession(ClearFlags(r), w)
    BY <1>1, <1>4 DEF AfterRequest
  <2>2. q.session = w /\ q.change = NoChange
    BY <1>2, <2>1 DEF CommitSession, RpcObjects
  <2> QED
    BY <1>3, <1>4, <2>2
<1>5. CASE o.kind \in {"lost", "protocol"}
  <2>1. q = DiscardSocket(ClearFlags(r))
    BY <1>5 DEF AfterRequest
  <2>2. q.session = r.session /\ q.change = NoChange
    BY <1>2, <2>1 DEF DiscardSocket, RpcObjects
  <2> QED
    BY <1>3, <1>5, <2>2
<1> QED
  BY <1>1, <1>4, <1>5

\* What a step of the system leaves alone where a client step says so.
SameBudget == budget'.drops = budget.drops /\ budget'.sessions = budget.sessions

\* A degradation is paid for, or one of the connections leads elsewhere.
Justified == budget'.faults < budget.faults \/ Gone \/ rpcWire # session

\* What the three kinds of query do to the copy and the session, seen from
\* outside: one query of synchronize() ...
Answered(w) ==
    /\ w = session /\ got' = session
    /\ left' = left - 1 /\ parts' = Append(parts, session)
    /\ Read(Answer(session))

Snapshot(call) ==
    /\ phase' = "idle" /\ left = 1
    /\ known' = session /\ lastSeq' = 0 /\ recovery' = "HEALTHY"
    /\ ret' = Ended(call, "ok")
    /\ copy' = collected' /\ todo' = {} /\ span' = NoSpan

SyncEffect ==
    /\ phase = "sync"
    /\ rpc'.session \in {0, rpcWire}
    /\ UNCHANGED <<closed, events, eventSession, candidate, bridge, wires>>
    /\ SameBudget
    /\ \A t \in Topics : collected'[t] \in {collected[t], version[t]}
    /\ \/ /\ phase' = "sync" /\ left > 1 /\ Answered(rpcWire)
          /\ UNCHANGED <<known, lastSeq, recovery, ret, copy, todo, span>>
       \/ Answered(rpcWire) /\ Snapshot("synchronize")
       \/ /\ phase' = "idle"
          /\ known' \in {known, rpcWire}
          /\ \/ recovery' = "RECONNECT_REQUIRED" /\ Justified
             \/ recovery' = recovery /\ ret' = Ended("synchronize", "remote")
          /\ UNCHANGED <<lastSeq, copy, todo, span>>

LEMMA SynchronizeCases ==
    ASSUME SystemTypeOK, RuntimeInv, SynchronizeQuery
    PROVE  SyncEffect
<1> USE DEF candidate, handed
<1>0. RestTypeOK /\ TypeOK
  BY TypeParts
<1>1. PICK o \in Outcomes : Meets(rpcWire, o) /\ SyncStep(o) /\ Read(o)
  BY DEF SynchronizeQuery
<1>2. PICK q : q = AfterRequest(rpc, o)
  OBVIOUS
<1>3. SyncAnswer(o, q) \/ SyncDone(o, q) \/ SyncForeign(o, q) \/ SyncFails(o, q)
  BY <1>1, <1>2 DEF SyncStep
<1>4. /\ rpc' = q /\ phase = "sync"
      /\ UNCHANGED <<closed, events, eventSession, newRpc, newEvents, orphans>>
  BY <1>3 DEF SyncAnswer, SyncDone, SyncForeign, SyncFails, SyncQuery
<1>5. /\ q.session \in {0, rpcWire} /\ q.change = NoChange /\ q \in RpcObjects
      /\ o.kind \in {"ok", "remote"} => q.session = rpcWire
  BY <1>0, <1>1, <1>2, SameRuntime DEF RuntimeInv, TypeOK
<1>6. /\ o.kind \in {"ok", "remote"} => rpcWire = session
      /\ o.kind \in {"ok", "remote", "lost", "protocol"}
      /\ rpcWire = session => o = Answer(session) \/ budget'.faults < budget.faults
      /\ o.kind = "ok" => o = Answer(session)
      /\ SameBudget
  BY <1>0, <1>1, MeetsCases DEF SameBudget
<1>7. \A t \in Topics : collected'[t] \in {collected[t], version[t]}
  BY <1>1 DEF Read
<1>8. UNCHANGED <<bridge, wires>>
  BY DEF SynchronizeQuery
<1>9. got \in {0, rpcWire} /\ known \in {0, rpcWire} /\ eventSession \in {0, eventWire.session}
  BY <1>4 DEF RuntimeInv
<1>10. o.kind = "ok" => QueryVerdict(q, o) = "ok"
  BY <1>5, <1>9 DEF QueryVerdict
<1>11. Keep("synchronize")
  BY DEF SynchronizeQuery
<1>12. CASE SyncAnswer(o, q)
  <2>1. o = Answer(session) /\ rpcWire = session /\ q.session = session
    BY <1>5, <1>6, <1>12, VerdictOk DEF SyncAnswer, Collect
  <2>2. Answered(rpcWire) /\ left > 1
    BY <1>1, <1>12, <2>1 DEF SyncAnswer, Collect, Answered, Answer
  <2>3. phase' = "sync" /\ UNCHANGED <<known, lastSeq, recovery, ret, copy, todo, span>>
    BY <1>4, <1>11, <1>12 DEF SyncAnswer, Keep
  <2> QED
    BY <1>4, <1>5, <1>6, <1>7, <1>8, <2>2, <2>3 DEF SyncEffect
<1>13. CASE SyncDone(o, q)
  <2>1. o = Answer(session) /\ rpcWire = session /\ q.session = session
    BY <1>5, <1>6, <1>13, VerdictOk DEF SyncDone, Complete
  <2>2. Answered(rpcWire) /\ left = 1
    BY <1>1, <1>13, <2>1 DEF SyncDone, Complete, Answered, Answer
  <2>3. Snapshot("synchronize")
    BY <1>11, <1>13, <2>1, <2>2 DEF SyncDone, Keep, Snapshot
  <2> QED
    BY <1>4, <1>5, <1>6, <1>7, <1>8, <2>2, <2>3 DEF SyncEffect
<1>14. CASE SyncForeign(o, q)
  <2>1. QueryVerdict(q, o) # "reconnect"
    BY <1>5, <1>6, <1>10 DEF QueryVerdict
  <2>2. QueryVerdict(q, o) = "ok" /\ ~SyncBaseline(q.session)
    BY <1>14, <2>1 DEF SyncForeign
  <2>3. rpcWire = session /\ q.session = session
    BY <1>5, <1>6, <2>2, VerdictOk
  <2>4. eventWire.session # session
    BY <1>9, <2>2, <2>3 DEF SyncBaseline
  <2>5. Justified
    BY <2>4 DEF Justified, Gone
  <2>6. /\ phase' = "idle" /\ recovery' = "RECONNECT_REQUIRED" /\ UNCHANGED <<known, lastSeq>>
        /\ ret' = Ended("synchronize", "reconnect")
    BY <1>14 DEF SyncForeign
  <2>7. UNCHANGED <<copy, todo, span>>
    BY <1>11, <2>6 DEF Keep, Ended
  <2> QED
    BY <1>4, <1>5, <1>6, <1>7, <1>8, <2>5, <2>6, <2>7 DEF SyncEffect
<1>15. CASE SyncFails(o, q)
  <2>1. o.kind \in {"remote", "lost", "protocol"}
    BY <1>6, <1>10, <1>15 DEF SyncFails
  <2>2. phase' = "idle" /\ UNCHANGED lastSeq /\ HandleRpcException("synchronize", q, o.kind)
    BY <1>15 DEF SyncFails
  <2>3. ret' \in {Ended("synchronize", o.kind), Ended("synchronize", "reconnect")}
    BY <2>2, ObserveOutcome
  <2>4. UNCHANGED <<copy, todo, span>>
    BY <1>11, <2>1, <2>3 DEF Keep, Ended
  <2>5. rpcWire = session => budget'.faults < budget.faults
    BY <1>6, <2>1 DEF Answer
  <2>6. Justified
    BY <2>5 DEF Justified
  <2>7. q.reset <=> o.kind \in {"lost", "protocol"}
    BY <1>0, <1>2, AfterRequestFlags DEF TypeOK
  <2>8. /\ known' \in {known, rpcWire}
        /\ \/ recovery' = "RECONNECT_REQUIRED"
           \/ recovery' = recovery /\ ret' = Ended("synchronize", "remote")
    <3>1. CASE q.reset
      BY <2>2, <3>1 DEF HandleRpcException
    <3>2. CASE ~q.reset
      <4>1. o.kind = "remote" /\ ObserveRpcSession("synchronize", q, o.kind)
        BY <2>1, <2>2, <2>7, <3>2 DEF HandleRpcException
      <4> QED
        BY <1>5, <4>1 DEF ObserveRpcSession
    <3> QED
      BY <3>1, <3>2
  <2> QED
    BY <1>4, <1>5, <1>6, <1>7, <1>8, <2>2, <2>4, <2>6, <2>8 DEF SyncEffect
<1> QED
  BY <1>3, <1>12, <1>13, <1>14, <1>15

\* ... one query of reconnect() ...
ReconnectEffect ==
    /\ phase = "re_sync"
    /\ newRpc'.session \in {0, newRpcWire}
    /\ UNCHANGED <<closed, bridge>>
    /\ SameBudget
    /\ \A t \in Topics : collected'[t] \in {collected[t], version[t]}
    /\ \/ /\ phase' = "re_sync" /\ left > 1 /\ Answered(newRpcWire)
          /\ UNCHANGED <<rpc, events, newEvents, continuity, recovery, ret, copy, todo, span, wires>>
       \/ /\ Answered(newRpcWire) /\ Snapshot("reconnect")
          /\ rpc'.session = session /\ events' = newEvents
          /\ newEvents' = NoEvents /\ newRpc'.session = 0
          /\ eventSession' = 0
          /\ eventWire' = newEventWire /\ rpcWire' = newRpcWire
          /\ newEventWire' = NoWire /\ newRpcWire' = 0
       \/ /\ phase' = "idle" /\ newEvents' = NoEvents /\ newEventWire' = NoWire /\ newRpcWire' = 0
          /\ newRpc'.session = 0
          /\ \E r \in {"remote", "lost", "protocol"} : ret' = Ended("reconnect", r)
          /\ UNCHANGED <<rpc, events, continuity, recovery, copy, todo, span, eventWire, rpcWire>>

LEMMA ReconnectCases ==
    ASSUME SystemTypeOK, RuntimeInv, ReconnectQuery
    PROVE  ReconnectEffect
<1> USE DEF candidate, continuity, connections, handed
<1>0. RestTypeOK /\ TypeOK
  BY TypeParts
<1>1. PICK o \in Outcomes : Meets(newRpcWire, o) /\ ReconnectStep(o) /\ Read(o)
  BY DEF ReconnectQuery
<1>2. PICK q : q = AfterRequest(newRpc, o)
  OBVIOUS
<1>3. ReconnectAnswer(o, q) \/ ReconnectDone(o, q) \/ ReconnectQueryFails(o, q)
  BY <1>1, <1>2 DEF ReconnectStep
<1>4. phase = "re_sync" /\ UNCHANGED closed
  BY <1>3 DEF ReconnectAnswer, ReconnectDone, ReconnectQueryFails, Backout
<1>5. /\ q.session \in {0, newRpcWire} /\ q.change = NoChange /\ q \in RpcObjects
      /\ o.kind \in {"ok", "remote"} => q.session = newRpcWire
  BY <1>0, <1>1, <1>2, SameRuntime DEF RuntimeInv, TypeOK
<1>6. /\ o.kind \in {"ok", "remote"} => newRpcWire = session
      /\ o.kind \in {"ok", "remote", "lost", "protocol"}
      /\ o.kind = "ok" => o = Answer(session)
      /\ SameBudget
  BY <1>0, <1>1, MeetsCases DEF SameBudget
<1>7. \A t \in Topics : collected'[t] \in {collected[t], version[t]}
  BY <1>1 DEF Read
<1>8. UNCHANGED bridge
  BY DEF ReconnectQuery
<1>9. got \in {0, newRpcWire}
  BY <1>4 DEF RuntimeInv
<1>10. o.kind = "ok" => QueryVerdict(q, o) = "ok"
  BY <1>5, <1>9 DEF QueryVerdict
<1>11. /\ Keep("reconnect")
       /\ IF phase' = "re_sync" THEN UNCHANGED wires
          ELSE /\ newEventWire' = NoWire
               /\ newRpcWire' = 0
               /\ IF ret'.result = "ok"
                  THEN eventWire' = newEventWire /\ rpcWire' = newRpcWire
                  ELSE UNCHANGED <<eventWire, rpcWire>>
  BY DEF ReconnectQuery
<1>12. CASE ReconnectAnswer(o, q)
  <2>1. o = Answer(session) /\ newRpcWire = session /\ q.session = session
    BY <1>5, <1>6, <1>12, VerdictOk DEF ReconnectAnswer, Collect
  <2>2. Answered(newRpcWire) /\ left > 1
    BY <1>1, <1>12, <2>1 DEF ReconnectAnswer, Collect, Answered, Answer
  <2>3. /\ phase' = "re_sync" /\ newRpc' = q
        /\ UNCHANGED <<rpc, events, newEvents, continuity, recovery, ret>>
    BY <1>4, <1>12 DEF ReconnectAnswer
  <2>4. UNCHANGED <<copy, todo, span, wires>>
    BY <1>11, <2>3 DEF Keep
  <2> QED
    BY <1>4, <1>5, <1>6, <1>7, <1>8, <2>2, <2>3, <2>4 DEF ReconnectEffect
<1>13. CASE ReconnectDone(o, q)
  <2>1. o = Answer(session) /\ newRpcWire = session /\ q.session = session
    BY <1>5, <1>6, <1>13, VerdictOk DEF ReconnectDone, Complete
  <2>2. Answered(newRpcWire) /\ left = 1
    BY <1>1, <1>13, <2>1 DEF ReconnectDone, Complete, Answered, Answer
  <2>3. ret' = Ended("reconnect", "ok") /\ phase' = "idle"
    BY <1>13 DEF ReconnectDone
  <2>4. Snapshot("reconnect")
    BY <1>11, <1>13, <2>1, <2>2, <2>3 DEF ReconnectDone, Keep, Snapshot
  <2>5. /\ eventWire' = newEventWire /\ rpcWire' = newRpcWire
        /\ newEventWire' = NoWire /\ newRpcWire' = 0
    BY <1>11, <2>3 DEF Ended
  <2>6. /\ rpc'.session = session /\ events' = newEvents
        /\ newEvents' = NoEvents /\ newRpc'.session = 0 /\ eventSession' = 0
    BY <1>13, <2>1 DEF ReconnectDone, NoRpc, FreshRpc
  <2> QED
    BY <1>4, <1>6, <1>7, <1>8, <2>2, <2>4, <2>5, <2>6 DEF ReconnectEffect
<1>14. CASE ReconnectQueryFails(o, q)
  <2>1. QueryVerdict(q, o) = o.kind /\ o.kind \in {"remote", "lost", "protocol"}
    BY <1>5, <1>6, <1>10, <1>14 DEF ReconnectQueryFails, QueryVerdict
  <2>2. ret' = Ended("reconnect", o.kind) /\ phase' = "idle"
    BY <1>14, <2>1 DEF ReconnectQueryFails, Backout
  <2>3. UNCHANGED <<copy, todo, span>>
    BY <1>11, <2>1, <2>2 DEF Keep, Ended
  <2>4. newEventWire' = NoWire /\ newRpcWire' = 0 /\ UNCHANGED <<eventWire, rpcWire>>
    BY <1>11, <2>1, <2>2 DEF Ended
  <2>5. /\ newEvents' = NoEvents /\ newRpc'.session = 0
        /\ UNCHANGED <<rpc, events, continuity, recovery>>
    BY <1>14 DEF ReconnectQueryFails, Backout, NoRpc, FreshRpc
  <2> QED
    BY <1>4, <1>6, <1>7, <1>8, <2>1, <2>2, <2>3, <2>4, <2>5 DEF ReconnectEffect
<1> QED
  BY <1>3, <1>12, <1>13, <1>14

\* ... and one request for a topic.
AskEffect(t) ==
    /\ phase = "idle" /\ recovery = "HEALTHY"
    /\ rpc'.session \in {0, rpcWire}
    /\ known' \in {known, rpcWire}
    /\ UNCHANGED <<closed, events, eventSession, lastSeq, phase, candidate, progress,
                   bridge, wires, collected, span>>
    /\ SameBudget
    /\ recovery' = "HEALTHY" \/ (recovery' = "RECONNECT_REQUIRED" /\ Justified)
    /\ \/ /\ copy' = [copy EXCEPT ![t] = version[t]] /\ todo' = todo \ {t}
       \/ UNCHANGED <<copy, todo>>

LEMMA AskCases ==
    ASSUME SystemTypeOK, RuntimeInv, NEW t, AskAgain(t)
    PROVE  AskEffect(t) /\ t \in todo /\ NextCall = "request"
<1> USE DEF candidate, progress
<1>0. RestTypeOK /\ TypeOK
  BY TypeParts
<1>1. PICK o \in Outcomes : Meets(rpcWire, o) /\ Request(o)
  BY DEF AskAgain
<1>2. PICK q : q = AfterRequest(rpc, o)
  OBVIOUS
<1>3. phase = "idle" /\ recovery = "HEALTHY"
  BY <1>0, <1>1, AdmittedHealthy DEF Request
<1>4. /\ rpc' = q
      /\ UNCHANGED <<closed, events, eventSession, lastSeq, phase, candidate, progress>>
      /\ o.kind = "ok" => ObserveRpcSession("request", q, "ok")
      /\ o.kind # "ok" => HandleRpcException("request", q, o.kind)
  BY <1>1, <1>2 DEF Request
<1>5. /\ q.session \in {0, rpcWire} /\ q.change = NoChange /\ q \in RpcObjects
      /\ o.kind \in {"ok", "remote"} => q.session = rpcWire
  BY <1>0, <1>1, <1>2, SameRuntime DEF RuntimeInv, TypeOK
<1>6. /\ o.kind \in {"ok", "remote"} => rpcWire = session
      /\ o.kind \in {"ok", "remote", "lost", "protocol"}
      /\ rpcWire = session => o = Answer(session) \/ budget'.faults < budget.faults
      /\ SameBudget
  BY <1>0, <1>1, MeetsCases DEF SameBudget
<1>7. /\ UNCHANGED <<bridge, wires, collected, span>>
      /\ \/ /\ copy' = [copy EXCEPT ![t] = version[t]] /\ todo' = todo \ {t}
         \/ UNCHANGED <<copy, todo>>
      /\ t \in todo /\ NextCall = "request"
  BY DEF AskAgain
<1>8. known \in {0, rpcWire} /\ eventSession \in {0, eventWire.session}
  BY DEF RuntimeInv
<1>9. known' \in {known, rpcWire}
      /\ (recovery' = recovery \/ (recovery' = "RECONNECT_REQUIRED" /\ Justified))
  <2>1. CASE o.kind = "ok" /\ SessionConflict(q)
    <3>1. eventSession \notin {0, q.session} /\ q.session = session
      BY <1>5, <1>6, <1>8, <2>1 DEF SessionConflict
    <3>2. Justified
      BY <1>8, <3>1 DEF Justified, Gone
    <3> QED
      BY <1>4, <2>1, <3>2 DEF ObserveRpcSession
  <2>2. CASE o.kind = "ok" /\ ~SessionConflict(q)
    BY <1>4, <1>5, <2>2 DEF ObserveRpcSession
  <2>3. CASE o.kind # "ok"
    <3>1. Justified
      BY <1>6, <2>3 DEF Justified, Answer
    <3>2. CASE q.reset
      BY <1>4, <2>3, <3>1, <3>2 DEF HandleRpcException
    <3>3. CASE ~q.reset
      BY <1>4, <1>5, <2>3, <3>1, <3>3 DEF HandleRpcException, ObserveRpcSession
    <3> QED
      BY <3>2, <3>3
  <2> QED
    BY <2>1, <2>2, <2>3
<1> QED
  BY <1>3, <1>4, <1>5, <1>6, <1>7, <1>9 DEF AskEffect

-----------------------------------------------------------------------------
(* The invariants about phases and runtimes *)

LEMMA LifeStep == SystemTypeOK /\ RuntimeInv /\ LifeInv /\ [SystemNext]_systemVars => LifeInv'
<1> SUFFICES ASSUME SystemTypeOK, RuntimeInv, LifeInv, [SystemNext]_systemVars PROVE LifeInv'
  OBVIOUS
<1> USE DEF connections, continuity, candidate, progress, wires
<1>0. FreshEvents.socket
  BY DEF FreshEvents
<1>1. ASSUME NEW t \in Topics, NEW kept \in BOOLEAN, NEW newKept \in BOOLEAN,
             Change(t, kept, newKept)
      PROVE  LifeInv'
  <2>1. NoWire.session = 0 /\ session # 0
    BY SessionsNonZero DEF NoWire, SystemTypeOK
  <2> QED
    BY <1>1, <2>1 DEF Change, Publish, LifeInv, vars
<1>2. CASE Restart
  BY <1>2 DEF Restart, LifeInv, vars
<1>3. CASE StartEvents \/ StartRpc \/ StartFails
  BY <1>0, <1>3 DEF StartEvents, StartRpc, StartFails, ConnectEvents, ConnectRpc, ConnectFails, LifeInv
<1>4. CASE StartSynchronize
  BY <1>4 DEF StartSynchronize, Synchronize, Admitted, LifeInv
<1>5. CASE StartReconnect \/ ReconnectSecond \/ ReconnectRefused
  BY <1>5 DEF StartReconnect, ReconnectSecond, ReconnectRefused, Reconnect, ReconnectRpc,
     ReconnectEventsFails, ReconnectRpcFails, Backout, Admitted, LifeInv
<1>6. CASE SynchronizeQuery
  <2>1. SyncEffect
    BY <1>6, SynchronizeCases
  <2> QED
    BY <2>1 DEF SyncEffect, Snapshot, LifeInv
<1>7. CASE ReconnectQuery
  <2>1. ReconnectEffect /\ newEvents.socket
    BY <1>0, <1>7, ReconnectCases DEF ReconnectEffect, LifeInv
  <2>2. CASE phase' = "re_sync"
    BY <2>1, <2>2 DEF ReconnectEffect, Snapshot, LifeInv
  <2>3. CASE phase' = "idle"
    <3>1. newEventWire' = NoWire /\ newRpcWire' = 0 /\ closed' = closed /\ events' \in {events, newEvents}
      BY <2>1, <2>3 DEF ReconnectEffect
    <3>2. events.socket
      BY <2>1 DEF ReconnectEffect, LifeInv
    <3> QED
      BY <2>1, <2>3, <3>1, <3>2 DEF LifeInv
  <2> QED
    BY <2>1, <2>2, <2>3 DEF ReconnectEffect, Snapshot
<1>8. ASSUME NEW t \in Topics, AskAgain(t) PROVE LifeInv'
  <2>1. AskEffect(t)
    BY <1>8, AskCases
  <2> QED
    BY <2>1 DEF AskEffect, LifeInv
<1>9. CASE ReceiveArrived
  BY <1>9 DEF ReceiveArrived, TakeEvent, DropEvent, ReceiveEvent, ReceiveForeign, ReceiveGap,
     ReceiveMalformed, Receive, Admitted, LifeInv
<1>10. CASE ReceiveQuiet
  <2>1. phase = "idle" /\ events.socket /\ events' \in {events, [events EXCEPT !.lost = TRUE]}
    BY <1>10 DEF ReceiveQuiet, ReceiveNothing, ReceiveLost, Receive, Admitted
  <2>2. events'.socket
    BY <2>1 DEF SystemTypeOK, TypeOK, EventObjects
  <2> QED
    BY <1>10, <2>1, <2>2 DEF ReceiveQuiet, ReceiveNothing, ReceiveLost, LifeInv
<1>11. CASE UNCHANGED systemVars
  BY <1>11 DEF systemVars, vars, LifeInv
<1> QED
  BY <1>1, <1>2, <1>3, <1>4, <1>5, <1>6, <1>7, <1>8, <1>9, <1>10, <1>11
  DEF SystemNext, BridgeStep, ClientStep

\* What publishing an event adds to a connection.
LEMMA PublishSent ==
    ASSUME NEW w, WireTypeOK(w), NEW object, NEW e \in Events, NEW kept \in BOOLEAN,
           NEW x, x = Publish(w, object, e, kept)
    PROVE  /\ x.session = w.session
           /\ \A f \in Sent(x) : f \in Sent(w) \/ (f = e /\ w.session = session)
           /\ Sent(w) \subseteq Sent(x)
           /\ Listens(object) /\ w.session = session => e \in Sent(x)
<1> HIDE DEF Events
<1>0. w.queue \in Seq(Events)
  BY DEF WireTypeOK
<1>1. CASE ~Listens(object) \/ w.session # session
  BY <1>1 DEF Publish
<1>2. CASE Listens(object) /\ w.session = session /\ kept
  <2>1. x.queue = Append(w.queue, e) /\ x.lost = w.lost /\ x.session = w.session
    BY <1>2 DEF Publish, WireTypeOK
  <2>2. Len(x.queue) = Len(w.queue) + 1 /\ Len(w.queue) \in Nat
    BY <1>0, <2>1
  <2>3. \A i \in 1..Len(x.queue) :
           \/ i \in 1..Len(w.queue) /\ x.queue[i] = w.queue[i]
           \/ i = Len(w.queue) + 1 /\ x.queue[i] = e
    BY <1>0, <2>1
  <2>4. InFlight(x) = InFlight(w) \cup {e}
    BY <2>2, <2>3 DEF InFlight
  <2> QED
    BY <1>2, <2>1, <2>4 DEF Sent
<1>3. CASE Listens(object) /\ w.session = session /\ ~kept
  <2>1. x.queue = w.queue /\ x.lost = w.lost \cup {e} /\ x.session = w.session
    BY <1>3 DEF Publish, WireTypeOK
  <2> QED
    BY <1>3, <2>1 DEF Sent, InFlight
<1> QED
  BY <1>1, <1>2, <1>3

\* What taking the oldest event leaves.
LEMMA PopSent ==
    ASSUME NEW w, WireTypeOK(w), w.queue # <<>>,
           NEW x, x = [w EXCEPT !.queue = Tail(@)]
    PROVE  /\ x.session = w.session /\ x.lost = w.lost
           /\ Head(w.queue) \in InFlight(w)
           /\ InFlight(x) \subseteq InFlight(w)
           /\ \A e \in InFlight(w) : e = Head(w.queue) \/ e \in InFlight(x)
<1> HIDE DEF Events
<1>0. w.queue \in Seq(Events)
  BY DEF WireTypeOK
<1>1. x.queue = Tail(w.queue) /\ x.lost = w.lost /\ x.session = w.session
  BY DEF WireTypeOK
<1>2. Len(w.queue) \in Nat \ {0} /\ Head(w.queue) = w.queue[1] /\ Len(x.queue) = Len(w.queue) - 1
  BY <1>0, <1>1
<1>3. \A i \in 1..Len(x.queue) : i + 1 \in 1..Len(w.queue) /\ x.queue[i] = w.queue[i + 1]
  BY <1>0, <1>1
<1>4. \A i \in 1..Len(w.queue) : i = 1 \/ (i - 1 \in 1..Len(x.queue) /\ w.queue[i] = x.queue[i - 1])
  BY <1>2, <1>3
<1> QED
  BY <1>1, <1>2, <1>3, <1>4 DEF InFlight

\* A connection nothing was published to.
LEMMA EmptyWires ==
    /\ Sent(NoWire) = {} /\ NoWire.session = 0
    /\ Sent(NewWire) = {} /\ NewWire.session = session
<1>1. NoWire.queue = <<>> /\ NoWire.lost = {} /\ NoWire.session = 0
  BY DEF NoWire
<1>2. NewWire.queue = <<>> /\ NewWire.lost = {} /\ NewWire.session = session
  BY DEF NewWire, NoWire
<1> QED
  BY <1>1, <1>2 DEF Sent, InFlight

LEMMA RuntimeStep ==
    SystemTypeOK /\ ConstructionInv /\ LifeInv /\ RuntimeInv /\ [SystemNext]_systemVars => RuntimeInv'
<1> SUFFICES ASSUME SystemTypeOK, ConstructionInv, LifeInv, RuntimeInv, [SystemNext]_systemVars
             PROVE  RuntimeInv'
  OBVIOUS
<1> USE DEF connections, continuity, candidate, progress, wires, bridge
<1>0. RestTypeOK /\ TypeOK
  BY TypeParts
<1>a. 0 \notin budget.sessions /\ NoRpc.session = 0 /\ FreshRpc.session = 0
  BY <1>0, SessionsNonZero DEF RestTypeOK, BudgetType, NoRpc, FreshRpc
<1>b. OwnEvents(NoWire) /\ OwnEvents(NewWire) /\ NoWire.session = 0 /\ NewWire.session = session
  BY EmptyWires DEF OwnEvents
<1>1. ASSUME NEW t \in Topics, NEW kept \in BOOLEAN, NEW newKept \in BOOLEAN,
             Change(t, kept, newKept)
      PROVE  RuntimeInv'
  <2> DEFINE e == [session |-> session, number |-> number', topic |-> t, at |-> clock']
  <2>1. e \in Events /\ e.session = session
    <3>1. clock' \in 1..MaxChanges /\ number' \in EventSequences
      BY <1>0, <1>1, NextSequenceType, SystemAssumption DEF Change, RestTypeOK
    <3> QED
      BY <1>0, <3>1 DEF Events, RestTypeOK
  <2>2. eventWire' = Publish(eventWire, events, e, kept)
        /\ newEventWire' = Publish(newEventWire, newEvents, e, newKept)
    BY <1>1 DEF Change
  <2> HIDE DEF e
  <2>a. /\ eventWire'.session = eventWire.session
        /\ \A f \in Sent(eventWire') : f \in Sent(eventWire) \/ (f = e /\ eventWire.session = session)
    BY <1>0, <2>1, <2>2, PublishSent DEF RestTypeOK
  <2>3. OwnEvents(eventWire')
    BY <2>1, <2>a DEF OwnEvents, RuntimeInv
  <2>b. /\ newEventWire'.session = newEventWire.session
        /\ \A f \in Sent(newEventWire') :
              f \in Sent(newEventWire) \/ (f = e /\ newEventWire.session = session)
    BY <1>0, <2>1, <2>2, PublishSent DEF RestTypeOK
  <2>4. OwnEvents(newEventWire')
    BY <2>1, <2>b DEF OwnEvents, RuntimeInv
  <2>5. OwnEvents(eventWire)' /\ OwnEvents(newEventWire)'
    BY <2>3, <2>4 DEF OwnEvents, Sent, InFlight
  <2>6. budget'.sessions = budget.sessions
    BY <1>0, <1>1 DEF Change, RestTypeOK, BudgetType
  <2> QED
    BY <1>1, <2>a, <2>b, <2>5, <2>6 DEF Change, RuntimeInv, vars
<1>2. CASE Restart
  <2>1. session' \in budget.sessions /\ budget'.sessions = budget.sessions \ {session'}
    BY <1>0, <1>2 DEF Restart, RestTypeOK, BudgetType
  <2> QED
    BY <1>2, <2>1 DEF Restart, RuntimeInv, OwnEvents, Sent, InFlight, vars
<1>3. CASE StartEvents
  <2>1. eventSession' = 0 /\ eventWire' = NewWire /\ UNCHANGED <<rpc, newRpc, known, got>>
        /\ phase' = "new_rpc"
    BY <1>3 DEF StartEvents, ConnectEvents, ConstructionInv
  <2>2. OwnEvents(eventWire)' /\ eventWire'.session = session /\ OwnEvents(newEventWire)'
    BY <1>3, <1>b, <2>1 DEF StartEvents, OwnEvents, Sent, InFlight, RuntimeInv
  <2> QED
    BY <1>3, <2>1, <2>2 DEF StartEvents, RuntimeInv
<1>4. CASE StartRpc
  <2>1. phase = "new_rpc" /\ known = 0 /\ known' = 0 /\ rpc'.session = 0 /\ phase' = "idle"
    BY <1>a, <1>4 DEF StartRpc, ConnectRpc, ConstructionInv
  <2>2. UNCHANGED <<newRpc, eventSession, got, session, eventWire, newEventWire, newRpcWire, budget>>
        /\ rpcWire' = session
    BY <1>4 DEF StartRpc, ConnectRpc
  <2> QED
    BY <2>1, <2>2 DEF RuntimeInv, OwnEvents, Sent, InFlight
<1>5. CASE StartFails
  <2>1. /\ eventSession' = 0 /\ known' = 0 /\ rpc'.session = 0 /\ eventWire' = NoWire
        /\ UNCHANGED <<newRpc, got, session, newEventWire, newRpcWire, rpcWire>>
        /\ phase' = "new_events"
    BY <1>a, <1>5 DEF StartFails, ConnectFails, ConstructionInv
  <2>2. budget'.sessions = budget.sessions
    BY <1>0, <1>5, SpendType DEF StartFails
  <2>3. OwnEvents(eventWire)' /\ eventWire'.session = 0 /\ OwnEvents(newEventWire)'
    BY <1>b, <2>1 DEF OwnEvents, Sent, InFlight, RuntimeInv
  <2> QED
    BY <1>a, <2>1, <2>2, <2>3 DEF RuntimeInv
<1>6. CASE StartSynchronize
  BY <1>6 DEF StartSynchronize, Synchronize, StartCollecting, RuntimeInv, OwnEvents, Sent, InFlight
<1>7. CASE StartReconnect
  <2>1. /\ got' = 0 /\ phase = "idle" /\ phase' = "re_rpc" /\ newEventWire' = NewWire
        /\ UNCHANGED <<rpc, newRpc, known, eventSession, session, eventWire, rpcWire, newRpcWire, budget>>
    BY <1>7 DEF StartReconnect, Reconnect, StartCollecting, Admitted
  <2>2. newRpc.session = 0
    BY <2>1 DEF LifeInv, RuntimeInv
  <2>3. OwnEvents(newEventWire)' /\ newEventWire'.session = session /\ OwnEvents(eventWire)'
    BY <1>b, <2>1 DEF OwnEvents, Sent, InFlight, RuntimeInv
  <2> QED
    BY <2>1, <2>2, <2>3 DEF RuntimeInv
<1>8. CASE ReconnectSecond
  <2>1. /\ got = 0 /\ got' = 0 /\ phase' = "re_sync" /\ newRpc'.session = 0 /\ newRpcWire' = session
        /\ UNCHANGED <<rpc, known, eventSession, session, eventWire, newEventWire, rpcWire, budget>>
    BY <1>a, <1>8 DEF ReconnectSecond, ReconnectRpc, RuntimeInv
  <2> QED
    BY <2>1 DEF RuntimeInv, OwnEvents, Sent, InFlight
<1>9. CASE ReconnectRefused
  <2>1. /\ newEventWire' = NoWire
        /\ UNCHANGED <<rpc, known, eventSession, session, eventWire, rpcWire, newRpcWire>>
        /\ phase' = "idle"
    BY <1>9 DEF ReconnectRefused, ReconnectEventsFails, ReconnectRpcFails, Backout, Admitted
  <2>2. newRpc'.session = 0
    BY <1>a, <1>9
    DEF ReconnectRefused, ReconnectEventsFails, ReconnectRpcFails, Backout, Admitted, LifeInv,
        RuntimeInv
  <2>3. budget'.sessions = budget.sessions
    BY <1>0, <1>9, SpendType DEF ReconnectRefused
  <2>4. OwnEvents(newEventWire)' /\ newEventWire'.session = 0 /\ OwnEvents(eventWire)'
    BY <1>b, <2>1 DEF OwnEvents, Sent, InFlight, RuntimeInv
  <2> QED
    BY <1>a, <2>1, <2>2, <2>3, <2>4 DEF RuntimeInv
<1>10. CASE SynchronizeQuery
  <2>1. SyncEffect
    BY <1>10, SynchronizeCases
  <2>2. phase' = "sync" => got' \in {0, rpcWire}
    BY <2>1 DEF SyncEffect, Answered, Snapshot
  <2>3. known' \in {0, rpcWire} /\ phase' \in {"sync", "idle"}
    BY <2>1 DEF SyncEffect, Answered, Snapshot, RuntimeInv
  <2>4. OwnEvents(eventWire)' /\ OwnEvents(newEventWire)'
    BY <2>1 DEF SyncEffect, RuntimeInv, OwnEvents, Sent, InFlight
  <2> QED
    BY <2>1, <2>2, <2>3, <2>4 DEF SyncEffect, SameBudget, RuntimeInv
<1>11. CASE ReconnectQuery
  <2>1. ReconnectEffect
    BY <1>11, ReconnectCases
  <2>2. OwnEvents(eventWire)' /\ OwnEvents(newEventWire)'
    BY <1>b, <2>1 DEF ReconnectEffect, RuntimeInv, OwnEvents, Sent, InFlight
  <2>3. CASE phase' = "re_sync"
    BY <2>1, <2>2, <2>3 DEF ReconnectEffect, SameBudget, RuntimeInv, Answered, Snapshot
  <2>4. CASE Answered(newRpcWire) /\ Snapshot("reconnect")
    <3>1. /\ rpc'.session = session /\ known' = session /\ newRpcWire = session
          /\ eventSession' = 0
          /\ eventWire' = newEventWire /\ rpcWire' = newRpcWire
          /\ newEventWire' = NoWire /\ newRpcWire' = 0 /\ newRpc'.session = 0
          /\ phase' = "idle" /\ session' = session /\ budget'.sessions = budget.sessions
      BY <2>1, <2>4 DEF ReconnectEffect, SameBudget, Answered, Snapshot, Ended
    <3> QED
      BY <1>a, <1>b, <2>2, <3>1 DEF RuntimeInv
  <2>5. CASE phase' = "idle" /\ UNCHANGED <<rpc, known, eventSession, eventWire, rpcWire>>
             /\ newRpc'.session = 0 /\ newEventWire' = NoWire /\ newRpcWire' = 0
    BY <1>a, <1>b, <2>1, <2>2, <2>5 DEF ReconnectEffect, SameBudget, RuntimeInv
  <2> QED
    BY <2>1, <2>3, <2>4, <2>5 DEF ReconnectEffect
<1>12. ASSUME NEW t \in Topics, AskAgain(t) PROVE RuntimeInv'
  <2>1. AskEffect(t)
    BY <1>12, AskCases
  <2> QED
    BY <2>1 DEF AskEffect, SameBudget, RuntimeInv, OwnEvents, Sent, InFlight
<1>13. CASE ReceiveArrived
  <2>1. /\ eventWire' = [eventWire EXCEPT !.queue = Tail(@)] /\ eventWire.queue # <<>>
        /\ UNCHANGED <<rpc, newRpc, known, got, phase, session, newEventWire, rpcWire, newRpcWire>>
        /\ eventSession' \in {eventSession, First.session}
    BY <1>13
    DEF ReceiveArrived, Arrived, Pop, TakeEvent, DropEvent, ReceiveEvent, ReceiveForeign,
        ReceiveGap, ReceiveMalformed
  <2>2. /\ eventWire'.session = eventWire.session /\ eventWire'.lost = eventWire.lost
        /\ First \in InFlight(eventWire) /\ InFlight(eventWire') \subseteq InFlight(eventWire)
    BY <1>0, <2>1, PopSent DEF RestTypeOK, First
  <2>3. First.session = eventWire.session /\ OwnEvents(eventWire')
    BY <2>2 DEF RuntimeInv, OwnEvents, Sent
  <2>4. OwnEvents(eventWire)' /\ OwnEvents(newEventWire)'
    BY <2>1, <2>3 DEF RuntimeInv, OwnEvents, Sent, InFlight
  <2>5. budget'.sessions = budget.sessions
    BY <1>0, <1>13, SpendType DEF ReceiveArrived, TakeEvent, DropEvent
  <2> QED
    BY <2>1, <2>2, <2>3, <2>4, <2>5 DEF RuntimeInv
<1>14. CASE ReceiveQuiet
  <2>1. budget'.sessions = budget.sessions
    BY <1>0, <1>14, SpendType DEF ReceiveQuiet
  <2> QED
    BY <1>14, <2>1
    DEF ReceiveQuiet, ReceiveNothing, ReceiveLost, caller, RuntimeInv, OwnEvents, Sent, InFlight
<1>15. CASE UNCHANGED systemVars
  BY <1>15 DEF systemVars, vars, RuntimeInv, OwnEvents, Sent, InFlight
<1> QED
  BY <1>1, <1>2, <1>3, <1>4, <1>5, <1>6, <1>7, <1>8, <1>9, <1>10, <1>11, <1>12, <1>13, <1>14, <1>15
  DEF SystemNext, BridgeStep, ClientStep

\* What holds of phases and runtimes in every reachable state.
RunInv == SystemTypeOK /\ ConstructionInv /\ LifeInv /\ RuntimeInv

LEMMA RunInvariant == SystemSpec => []RunInv
<1>1. SystemInit => RunInv
  <2> SUFFICES ASSUME SystemInit PROVE RunInv
    OBVIOUS
  <2>1. SystemTypeOK /\ RestTypeOK
    BY SystemInitTypes
  <2>2. ConstructionInv /\ LifeInv
    BY DEF SystemInit, Init, ConstructionInv, LifeInv
  <2>3. session \in Sessions /\ 0 \notin Sessions
    BY <2>1, SessionsNonZero DEF RestTypeOK
  <2>4. NoRpc.session = 0
    BY DEF NoRpc, FreshRpc
  <2>5. RuntimeInv
    BY <2>3, <2>4, EmptyWires DEF SystemInit, Init, RuntimeInv, OwnEvents
  <2> QED
    BY <2>1, <2>2, <2>5 DEF RunInv
<1>2. RunInv /\ [SystemNext]_systemVars => RunInv'
  BY SystemTypeStep, SystemStepIsClientStep, ConstructionStep, LifeStep, RuntimeStep DEF RunInv
<1> QED
  BY <1>1, <1>2, PTL DEF SystemSpec

\* Nothing but a request, a query or a receive() degrades the client, and
\* only with reason.
LEMMA BreakStep == RunInv /\ [SystemNext]_systemVars => [BreakIsReal]_systemVars
<1> SUFFICES ASSUME RunInv, SystemNext PROVE BreakIsReal
  OBVIOUS
<1> USE DEF connections, continuity, candidate, progress, wires, bridge, RunInv
<1>0. RestTypeOK /\ TypeOK
  BY TypeParts
<1>1. CASE BridgeStep
  BY <1>1 DEF BridgeStep, Change, Restart, vars, BreakIsReal
<1>2. CASE StartEvents \/ StartRpc \/ StartFails \/ StartSynchronize \/ StartReconnect
           \/ ReconnectSecond \/ ReconnectRefused
  BY <1>2 DEF StartEvents, StartRpc, StartFails, StartSynchronize, StartReconnect, ReconnectSecond,
     ReconnectRefused, ConnectEvents, ConnectRpc, ConnectFails, Synchronize, Reconnect,
     ReconnectRpc, ReconnectEventsFails, ReconnectRpcFails, Backout, BreakIsReal
<1>3. CASE SynchronizeQuery
  <2>1. SyncEffect
    BY <1>3, SynchronizeCases
  <2> QED
    BY <2>1 DEF SyncEffect, Snapshot, Justified, BreakIsReal
<1>4. CASE ReconnectQuery
  <2>1. ReconnectEffect
    BY <1>4, ReconnectCases
  <2> QED
    BY <2>1 DEF ReconnectEffect, Snapshot, BreakIsReal
<1>5. ASSUME NEW t \in Topics, AskAgain(t) PROVE BreakIsReal
  <2>1. AskEffect(t)
    BY <1>5, AskCases
  <2> QED
    BY <2>1 DEF AskEffect, Justified, BreakIsReal
<1>6. CASE ReceiveArrived
  <2>1. First.session = eventWire.session
    BY <1>0, <1>6, PopSent DEF ReceiveArrived, Arrived, First, RestTypeOK, RuntimeInv, OwnEvents, Sent
  <2>2. ReceiveForeign(First.session) => Justified
    BY <2>1 DEF ReceiveForeign, EventBelongs, Justified, Gone, RuntimeInv
  <2> QED
    BY <1>6, <2>2
    DEF ReceiveArrived, TakeEvent, DropEvent, ReceiveEvent, ReceiveForeign, ReceiveGap,
        ReceiveMalformed, Justified, BreakIsReal
<1>7. CASE ReceiveQuiet
  BY <1>0, <1>7, SpendType DEF ReceiveQuiet, ReceiveNothing, BreakIsReal
<1> QED
  BY <1>1, <1>2, <1>3, <1>4, <1>5, <1>6, <1>7 DEF SystemNext, ClientStep

\* A reconnection is asked for only when a connection does not lead to the
\* running Bridge, or a request or a connection failed.
THEOREM NoSpuriousReconnectHolds == SystemSpec => NoSpuriousReconnect
BY RunInvariant, BreakStep, PTL DEF SystemSpec, NoSpuriousReconnect
=============================================================================
