---------------------------- MODULE BridgeSystem ----------------------------
(***************************************************************************)
(* BridgeClient together with a Bridge that has a session, publishes a     *)
(* numbered event for every change of a topic and answers queries with the *)
(* topic's present version, and with the caller of the README that keeps a *)
(* copy of the topics.  Every step of the client is a step of BridgeClient *)
(* whose outcome is the one this Bridge and this network produce.          *)
(***************************************************************************)
EXTENDS BridgeClient

CONSTANTS
    Topics,         \* topics that change: a subset of what the queries ask for
    MaxChanges,     \* bound: changes, restarts included
    MaxDrops,       \* bound: events that never reach a subscriber
    MaxFaults       \* bound: timeouts, denials, bad frames, failed connections

\* Losing UINT32_MAX events in a row is a full circle of sequence numbers,
\* which no subscriber can tell from losing none; no event waits for MaxFeed.
ASSUME SystemAssumption ==
    /\ Sessions # {}
    /\ Topics \subseteq {"timer", "run", "context"}
    /\ {MaxChanges, MaxDrops, MaxFaults} \subseteq Nat
    /\ MaxDrops < UINT32_MAX
    /\ MaxFeed >= MaxChanges

VARIABLES
    session,        \* the running Bridge
    number,         \* event_sequence of its last event, 0 before the first
    version,        \* per topic, the clock of its last change
    eventWire,      \* the far end of events
    newEventWire,   \* the far end of newEvents
    rpcWire,        \* session that rpc is connected to
    newRpcWire,     \* session that newRpc is connected to
    collected,      \* versions the running collection has read
    copy,           \* the caller's copy of the topics
    todo,           \* topics the caller has to ask for again
    (* history *)
    clock,          \* changes so far
    span,           \* clocks of the first and last event since the last snapshot
    budget          \* what is left of the bounds, and of the sessions

bridge == <<session, number, version, clock>>
wires == <<eventWire, newEventWire, rpcWire, newRpcWire>>
caller == <<collected, copy, todo, span>>
systemVars == <<vars, bridge, wires, caller, budget>>

Events == [session : Sessions, number : EventSequences, topic : Topics, at : 1..MaxChanges]

\* One event connection: frames in flight, and events the Bridge published to
\* it that were dropped on the way.
NoSpan == <<0, 0>>
NoWire == [session |-> 0, queue |-> <<>>, lost |-> {}]
NewWire == [NoWire EXCEPT !.session = session]

SystemInit ==
    /\ Init
    /\ session = CHOOSE s \in Sessions : TRUE
    /\ number \in MaybeSequences
    /\ version = [t \in Topics |-> 0]
    /\ eventWire = NoWire
    /\ newEventWire = NoWire
    /\ rpcWire = 0
    /\ newRpcWire = 0
    /\ collected = version
    /\ copy = version
    /\ todo = {}
    /\ clock = 0
    /\ span = NoSpan
    /\ budget = [sessions |-> Sessions \ {session}, drops |-> MaxDrops, faults |-> MaxFaults]

-----------------------------------------------------------------------------
(* The Bridge *)

\* Seeded fault: the pair is swapped in before the new events are subscribed.
Fault_Listens(object) == object.socket /\ phase \notin {"re_rpc", "re_sync"}

\* A subscriber is told of every change from its connection on.
Listens(object) == object.socket

Publish(wire, object, e, kept) ==
    IF ~Listens(object) \/ wire.session # session THEN wire
    ELSE IF kept THEN [wire EXCEPT !.queue = Append(@, e)]
    ELSE [wire EXCEPT !.lost = @ \cup {e}]

Change(t, kept, newKept) ==
    /\ clock < MaxChanges
    /\ ~(kept /\ newKept) => budget.drops > 0
    /\ clock' = clock + 1
    /\ version' = [version EXCEPT ![t] = clock']
    /\ number' = NextSequence(number)
    /\ LET e == [session |-> session, number |-> number', topic |-> t, at |-> clock']
       IN /\ eventWire' = Publish(eventWire, events, e, kept)
          /\ newEventWire' = Publish(newEventWire, newEvents, e, newKept)
    /\ budget' = IF kept /\ newKept THEN budget ELSE [budget EXCEPT !.drops = @ - 1]
    /\ UNCHANGED <<vars, session, rpcWire, newRpcWire, caller>>

\* A new runtime with an identifier of its own: every connection to the old one
\* is closed, and any topic may differ from what it was.
Restart ==
    /\ clock < MaxChanges
    /\ session' \in budget.sessions
    /\ clock' = clock + 1
    /\ version' = [t \in Topics |-> clock']
    /\ number' = 0
    /\ budget' = [budget EXCEPT !.sessions = @ \ {session'}]
    /\ UNCHANGED <<vars, wires, caller>>

-----------------------------------------------------------------------------
(* Connections and queries *)

\* A step that ends in ordinary trouble costs one of the faults.
Spend == budget.faults > 0 /\ budget' = [budget EXCEPT !.faults = @ - 1]

\* What a query over a socket to session w meets.
Served(w) == IF w = session THEN Answer(session) ELSE Lost
Meets(w, o) ==
    \/ o = Served(w) /\ UNCHANGED budget
    \/ o \in {Lost, BadAnswer} \ {Served(w)} /\ Spend
    \/ o = Denial(w) /\ w = session /\ Spend

StartEvents ==
    /\ ConnectEvents
    /\ eventWire' = NewWire
    /\ UNCHANGED <<bridge, newEventWire, rpcWire, newRpcWire, caller, budget>>

StartRpc ==
    /\ ConnectRpc
    /\ rpcWire' = session
    /\ UNCHANGED <<bridge, eventWire, newEventWire, newRpcWire, caller, budget>>

StartFails ==
    /\ ConnectFails /\ Spend
    /\ eventWire' = NoWire
    /\ UNCHANGED <<bridge, newEventWire, rpcWire, newRpcWire, caller>>

\* The order of the queries in _synchronize_rpc().
QueryTopics == <<"timer", "attempt", "run", "context", "completed_count">>

\* An answer carries the topic as it is when the Bridge answers.
Read(o) ==
    collected' = [t \in Topics |->
        IF o.kind = "ok" /\ t = QueryTopics[Len(parts) + 1] THEN version[t] ELSE collected[t]]

\* A completed snapshot replaces the caller's copy and all it had to ask.
Keep(call) ==
    IF phase' = "idle" /\ ret' = Ended(call, "ok")
    THEN copy' = collected' /\ todo' = {} /\ span' = NoSpan
    ELSE UNCHANGED <<copy, todo, span>>

-----------------------------------------------------------------------------
(* The caller of README:18-40 and README:170-187 *)

\* What the exception handlers of the loop call next.
NextCall ==
    CASE ret.result \in {"reconnect", "lost", "refused"} -> "reconnect"
      [] ret.result = "protocol" /\ recovery = "RECONNECT_REQUIRED" -> "reconnect"
      [] ret.result = "protocol" /\ recovery # "RECONNECT_REQUIRED" -> "synchronize"
      [] ret = Ended("BridgeClient", "ok") \/ ret.result = "resync" -> "synchronize"
      [] ret.result = "remote" /\ ret.call # "request" -> ret.call
      [] OTHER -> IF todo = {} THEN "receive" ELSE "request"

StartSynchronize ==
    /\ NextCall = "synchronize"
    /\ \E n \in QueryCounts : Synchronize(n)
    /\ UNCHANGED <<bridge, wires, caller, budget>>

SynchronizeQuery ==
    /\ \E o \in Outcomes : Meets(rpcWire, o) /\ SyncStep(o) /\ Read(o)
    /\ Keep("synchronize")
    /\ UNCHANGED <<bridge, wires>>

StartReconnect ==
    /\ NextCall = "reconnect"
    /\ \E n \in QueryCounts : Reconnect(n)
    /\ newEventWire' = NewWire
    /\ UNCHANGED <<bridge, eventWire, rpcWire, newRpcWire, caller, budget>>

ReconnectSecond ==
    /\ ReconnectRpc
    /\ newRpcWire' = session
    /\ UNCHANGED <<bridge, eventWire, newEventWire, rpcWire, caller, budget>>

ReconnectRefused ==
    /\ \/ NextCall = "reconnect" /\ ReconnectEventsFails
       \/ ReconnectRpcFails
    /\ Spend
    /\ newEventWire' = NoWire
    /\ UNCHANGED <<bridge, eventWire, rpcWire, newRpcWire, caller>>

\* The wires follow the objects: into use, away, or nowhere.
ReconnectQuery ==
    /\ \E o \in Outcomes : Meets(newRpcWire, o) /\ ReconnectStep(o) /\ Read(o)
    /\ Keep("reconnect")
    /\ IF phase' = "re_sync" THEN UNCHANGED wires
       ELSE /\ newEventWire' = NoWire
            /\ newRpcWire' = 0
            /\ IF ret'.result = "ok"
               THEN eventWire' = newEventWire /\ rpcWire' = newRpcWire
               ELSE UNCHANGED <<eventWire, rpcWire>>
    /\ UNCHANGED bridge

\* get_run() or get_context_state() after an event that names no new value.
AskAgain(t) ==
    /\ NextCall = "request" /\ t \in todo
    /\ \E o \in Outcomes : Meets(rpcWire, o) /\ Request(o)
    /\ IF ret'.result = "ok"
       THEN copy' = [copy EXCEPT ![t] = version[t]] /\ todo' = todo \ {t}
       ELSE UNCHANGED <<copy, todo>>
    /\ UNCHANGED <<bridge, wires, collected, span>>

-----------------------------------------------------------------------------
(* receive() *)

Arrived == eventWire.queue # <<>>
First == Head(eventWire.queue)
Gone == eventWire.session # session
Pop == eventWire' = [eventWire EXCEPT !.queue = Tail(@)]

\* A timer event brings the timer state; the others say what to ask for.
TakeEvent ==
    /\ ReceiveEvent(First.session, First.number)
    /\ span' = IF span = NoSpan THEN <<First.at, First.at>> ELSE <<span[1], First.at>>
    /\ IF First.topic = "timer"
       THEN copy' = [copy EXCEPT !["timer"] = First.at] /\ UNCHANGED todo
       ELSE todo' = todo \cup {First.topic} /\ UNCHANGED copy
    /\ UNCHANGED <<collected, budget>>

\* An event of the wrong session or number is read and dropped; a bad frame is
\* a frame nobody can decode.
DropEvent ==
    /\ \/ ReceiveForeign(First.session) /\ UNCHANGED budget
       \/ ReceiveGap(First.session, First.number) /\ UNCHANGED budget
       \/ ReceiveMalformed /\ Spend
    /\ UNCHANGED caller

ReceiveArrived ==
    /\ NextCall = "receive" /\ Arrived
    /\ TakeEvent \/ DropEvent
    /\ Pop
    /\ UNCHANGED <<bridge, newEventWire, rpcWire, newRpcWire>>

ReceiveQuiet ==
    /\ NextCall = "receive" /\ ~Arrived
    /\ \/ ReceiveNothing /\ ~Gone /\ UNCHANGED budget
       \/ ReceiveLost /\ Gone /\ UNCHANGED budget
       \/ ReceiveLost /\ ~Gone /\ Spend
    /\ UNCHANGED <<bridge, wires, caller>>

-----------------------------------------------------------------------------
(* The specification *)

BridgeStep ==
    \/ \E t \in Topics, kept, newKept \in BOOLEAN : Change(t, kept, newKept)
    \/ Restart

ClientStep ==
    \/ StartEvents \/ StartRpc \/ StartFails
    \/ StartSynchronize \/ SynchronizeQuery
    \/ StartReconnect \/ ReconnectSecond \/ ReconnectRefused \/ ReconnectQuery
    \/ \E t \in Topics : AskAgain(t)
    \/ ReceiveArrived \/ ReceiveQuiet

SystemNext == BridgeStep \/ ClientStep

\* A caller that stays in its loop; the Bridge, its restarts and every kind of
\* trouble are unfair.
SystemSpec == SystemInit /\ [][SystemNext]_systemVars /\ WF_systemVars(ClientStep)

-----------------------------------------------------------------------------
(* Properties *)

SystemTypeOK ==
    /\ TypeOK
    /\ session \in Sessions
    /\ number \in MaybeSequences
    /\ {version, collected, copy} \subseteq [Topics -> 0..MaxChanges]
    /\ \A w \in {eventWire, newEventWire} :
          /\ w.session \in MaybeSessions
          /\ w.queue \in Seq(Events)
          /\ w.lost \subseteq Events
    /\ {rpcWire, newRpcWire} \subseteq MaybeSessions
    /\ todo \subseteq Topics
    /\ clock \in 0..MaxChanges
    /\ span \in (0..MaxChanges) \X (0..MaxChanges)
    /\ budget \in [sessions : SUBSET Sessions, drops : 0..MaxDrops, faults : 0..MaxFaults]

\* The caller has read everything that was sent to it and asked for all of it.
UpToDate ==
    /\ phase = "idle" /\ recovery = "HEALTHY" /\ NextCall = "receive"
    /\ ~Arrived /\ ~Gone

\* An event about t that this connection lost outside the events read since the
\* snapshot: before the first one, where there is no baseline to miss it, or
\* behind the last one, where the next event will show the gap.
Excused(t) ==
    \E e \in eventWire.lost :
        /\ e.topic = t /\ e.at > copy[t]
        /\ e.at \notin span[1]..span[2]

\* A caller that has read all its events holds the present version of every
\* topic, however changes, queries, buffered old events and recoveries were
\* interleaved, unless an event was lost where the client cannot know of it
\* yet (client.py reconnect: events before queries; synchronize: the baseline
\* goes, the buffered events stay).
FreshUnlessLost == UpToDate => \A t \in Topics : copy[t] = version[t] \/ Excused(t)

\* A resynchronisation is asked for only when an event between two of those
\* read since the last snapshot was lost, or a frame was bad: neither the wrap
\* of the sequence number nor an old baseline looks like a gap.
GapIsReal ==
    recovery = "HEALTHY" /\ recovery' = "RESYNC_REQUIRED"
        => \/ budget'.faults < budget.faults
           \/ /\ span # NoSpan
              /\ \E e \in eventWire.lost : span[2] < e.at /\ e.at < First.at

NoSpuriousResync == [][GapIsReal]_systemVars

\* A reconnection is asked for only when one of the two connections does not
\* lead to the running Bridge, or a request or a connection failed.
BreakIsReal ==
    recovery # "RECONNECT_REQUIRED" /\ recovery' = "RECONNECT_REQUIRED"
        => budget'.faults < budget.faults \/ Gone \/ rpcWire # session

NoSpuriousReconnect == [][BreakIsReal]_systemVars

\* Once the Bridge is quiet and the trouble is over, a caller that follows the
\* README is connected to the running Bridge, healthy, and up to date for good.
CatchesUp == <>[](UpToDate /\ rpcWire = session
                     /\ \A t \in Topics : copy[t] = version[t] \/ Excused(t))
=============================================================================
