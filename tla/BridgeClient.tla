---------------------------- MODULE BridgeClient ----------------------------
(***************************************************************************)
(* client.BridgeClient: the integrated client, its two connections and its *)
(* recovery state.  The class is single-threaded, so a call is never       *)
(* interleaved with another call; but every query inside a call is a step  *)
(* of its own, because the Bridge may answer, restart, deny or vanish      *)
(* between any two of them.  What the remote side does is an outcome       *)
(* chosen freely at each step.                                             *)
(***************************************************************************)
EXTENDS BridgeConnections, Sequences

CONSTANTS
    RawAccess,      \* TRUE: the caller also uses client.rpc and client.events
    Interrupts,     \* TRUE: a KeyboardInterrupt may end a wait
    MaxFeed         \* bound: events handed out between two snapshots

ASSUME ClientAssumption == {RawAccess, Interrupts} \subseteq BOOLEAN /\ MaxFeed \in Nat

VARIABLES
    closed,         \* _closed
    rpc,            \* _rpc
    events,         \* _events
    known,          \* _known_rpc_session_id
    eventSession,   \* _event_session_id, 0 for None
    lastSeq,        \* _last_event_sequence, 0 for None
    recovery,       \* _recovery_state
    phase,          \* where the running call stands, "idle" between calls
    newRpc,         \* new_rpc of a running reconnect()
    newEvents,      \* new_events of a running reconnect()
    orphans,        \* sockets of objects that only an exception still reaches
    left,           \* queries the running synchronisation still has to ask
    got,            \* session_id of the running _synchronize_rpc()
    ret,            \* the call that ended last and how it ended
    (* history *)
    parts,          \* sessions of the answers collected so far
    seen,           \* sessions of all the caller was told since (re)connecting
    feed,           \* sequence numbers handed out since the last snapshot
    open            \* operating-system sockets in existence

connections == <<rpc, events>>
continuity == <<known, eventSession, lastSeq>>
candidate == <<newRpc, newEvents, orphans>>
progress == <<left, got, parts>>
handed == <<seen, feed>>
vars == <<closed, connections, continuity, recovery, phase, candidate, progress,
          ret, handed, open>>

RecoveryStates == {"HEALTHY", "RESYNC_REQUIRED", "RECONNECT_REQUIRED"}
Phases == {"new_events", "new_rpc", "idle", "sync", "re_rpc", "re_sync"}
Calls == {"BridgeClient", "request", "synchronize", "receive", "reconnect", "close", "raw", "del"}
Results == {"ok", "none",               \* data, or no event in time
            "reconnect", "resync",      \* BridgeReconnect-, BridgeResyncRequiredError
            "lost", "protocol",         \* timeout or lost connection, BridgeProtocolError
            "remote",                   \* BridgeRemoteError
            "refused",                  \* closed client or bad argument
            "interrupted"}              \* KeyboardInterrupt

Ended(call, result) == [call |-> call, result |-> result]

Init ==
    /\ closed = FALSE
    /\ rpc = NoRpc
    /\ events = NoEvents
    /\ known = 0
    /\ eventSession = 0
    /\ lastSeq = 0
    /\ recovery = "HEALTHY"
    /\ phase = "new_events"
    /\ newRpc = NoRpc
    /\ newEvents = NoEvents
    /\ orphans = 0
    /\ left = 0
    /\ got = 0
    /\ ret = Ended("BridgeClient", "none")
    /\ parts = <<>>
    /\ seen = {}
    /\ feed = <<>>
    /\ open = 0

-----------------------------------------------------------------------------
(* Helpers *)

\* Sockets that exist after r has become q in one request.
AfterDiscard(r, q) == open - Held(r) + Held(q)

\* Seeded fault: only the event connection is closed.
Fault_CloseConnections(n, e, r) == n - Held(e)

\* _close_connections(): of n sockets both go, whatever their close() raises.
CloseConnections(n, e, r) == n - Held(e) - Held(r)

\* Seeded fault: the session of the events is not compared.
Fault_EventSessionForgotten(q) ==
    q.session # 0 /\ (q.change # NoChange \/ known \notin {0, q.session})

\* Seeded fault: session_change is trusted to tell every change.
Fault_KnownSessionForgotten(q) ==
    q.session # 0 /\ (q.change # NoChange \/ eventSession \notin {0, q.session})

\* _observe_rpc_session() raises BridgeReconnectRequiredError.
SessionConflict(q) ==
    /\ q.session # 0
    /\ \/ q.change # NoChange
       \/ eventSession \notin {0, q.session}
       \/ known \notin {0, q.session}

(***************************************************************************)
(* _observe_rpc_session() at the end of a call that would end in result:   *)
(* a conflict replaces the result, otherwise the session is pinned.        *)
(***************************************************************************)
ObserveRpcSession(call, q, result) ==
    IF SessionConflict(q)
    THEN /\ recovery' = "RECONNECT_REQUIRED"
         /\ ret' = Ended(call, "reconnect")
         /\ UNCHANGED <<known, seen>>
    ELSE /\ known' = IF q.session = 0 THEN known ELSE q.session
         /\ ret' = Ended(call, result)
         /\ seen' = IF result \in {"ok", "remote"} THEN seen \cup {q.session} ELSE seen
         /\ UNCHANGED recovery

\* Seeded fault: a lost transport is treated like any other exception.
Fault_HandleRpcException(call, q, result) == ObserveRpcSession(call, q, result)

HandleRpcException(call, q, result) ==
    IF q.reset
    THEN /\ recovery' = "RECONNECT_REQUIRED"
         /\ ret' = Ended(call, result)
         /\ UNCHANGED <<known, seen>>
    ELSE ObserveRpcSession(call, q, result)

-----------------------------------------------------------------------------
(* __init__: events first, then rpc *)

ConnectEvents ==
    /\ phase = "new_events"
    /\ events' = FreshEvents
    /\ open' = open + 1
    /\ phase' = "new_rpc"
    /\ UNCHANGED <<closed, rpc, continuity, recovery, candidate, progress, ret, handed>>

ConnectRpc ==
    /\ phase = "new_rpc"
    /\ rpc' = FreshRpc
    /\ open' = open + 1
    /\ phase' = "idle"
    /\ ret' = Ended("BridgeClient", "ok")
    /\ UNCHANGED <<closed, events, continuity, recovery, candidate, progress, handed>>

\* Either connection fails: the constructor raises and leaves no object; the
\* caller may construct again.
ConnectFails ==
    /\ phase \in {"new_events", "new_rpc"}
    /\ open' = CloseConnections(open, events, rpc)
    /\ events' = NoEvents
    /\ rpc' = NoRpc
    /\ phase' = "new_events"
    /\ ret' = Ended("BridgeClient", "lost")
    /\ UNCHANGED <<closed, continuity, recovery, candidate, progress, handed>>

-----------------------------------------------------------------------------
(* Calls that are turned away, and close() *)

\* Seeded fault: receive() goes on while a snapshot is due.
Fault_ReceiveWhileStale(call) ==
    CASE closed -> "refused"
      [] ~closed /\ recovery = "RECONNECT_REQUIRED" /\ call # "reconnect" -> "reconnect"
      [] ~closed /\ recovery = "RESYNC_REQUIRED" /\ call = "request" -> "resync"
      [] OTHER -> "ok"

\* Seeded fault: synchronize() is believed to heal a lost session.
Fault_SynchronizeHeals(call) ==
    CASE closed -> "refused"
      [] ~closed /\ recovery = "RECONNECT_REQUIRED" /\ call \in {"request", "receive"} -> "reconnect"
      [] ~closed /\ recovery = "RESYNC_REQUIRED" /\ call \in {"request", "receive"} -> "resync"
      [] OTHER -> "ok"

\* What _ensure_open() and _ensure_healthy() raise for a call.
Verdict(call) ==
    CASE closed -> "refused"
      [] ~closed /\ recovery = "RECONNECT_REQUIRED" /\ call # "reconnect" -> "reconnect"
      [] ~closed /\ recovery = "RESYNC_REQUIRED" /\ call \in {"request", "receive"} -> "resync"
      [] OTHER -> "ok"

Admitted(call) == phase = "idle" /\ Verdict(call) = "ok"

TurnAway(call) ==
    /\ phase = "idle"
    /\ Verdict(call) # "ok"
    /\ ret' = Ended(call, Verdict(call))
    /\ UNCHANGED <<closed, connections, continuity, recovery, phase, candidate, progress,
                   handed, open>>

Close ==
    /\ phase = "idle"
    /\ closed' = TRUE
    /\ open' = CloseConnections(open, events, rpc)
    /\ events' = NoEvents
    /\ rpc' = NoRpc
    /\ ret' = Ended("close", "none")
    /\ UNCHANGED <<continuity, recovery, phase, candidate, progress, handed>>

-----------------------------------------------------------------------------
(* request() *)

Request(o) ==
    /\ Admitted("request")
    /\ o \in OutcomesOf(rpc)
    /\ LET q == AfterRequest(rpc, o) IN
          /\ rpc' = q
          /\ open' = AfterDiscard(rpc, q)
          /\ IF o.kind = "ok"
             THEN ObserveRpcSession("request", q, "ok")
             ELSE HandleRpcException("request", q, o.kind)
    /\ UNCHANGED <<closed, events, eventSession, lastSeq, phase, candidate, progress, feed>>

-----------------------------------------------------------------------------
(* _synchronize_rpc(): the queries of synchronize() and of reconnect() *)

\* Seeded fault: a session change between two queries goes unnoticed.
Fault_QueryVerdict(q, o) == o.kind

\* Seeded fault: the first answer is compared with the session of no answer.
Fault_FirstAnswerForeign(q, o) ==
    IF q.change = NoChange /\ o.kind # "ok" THEN o.kind
    ELSE IF got # q.session THEN "reconnect" ELSE "ok"

\* The queries are typed by the client: only a detached object refuses one.
QueryOutcomesOf(r) == {o \in OutcomesOf(r) : o = Refusal => ~r.socket}

\* How one query ends for the collection, q being the object after it.
QueryVerdict(q, o) ==
    CASE q.change # NoChange -> "reconnect"
      [] q.change = NoChange /\ o.kind # "ok" -> o.kind
      [] q.change = NoChange /\ o.kind = "ok" /\ got \notin {0, q.session} -> "reconnect"
      [] OTHER -> "ok"

\* Timer, attempt, run and context; include_completed_count asks a fifth.
QueryCounts == {4, 5}

StartCollecting(n) ==
    /\ left' = n
    /\ got' = 0
    /\ parts' = <<>>

\* A consistent answer that is not the last one.
Collect(q, o) ==
    /\ left > 1
    /\ QueryVerdict(q, o) = "ok"
    /\ left' = left - 1
    /\ got' = q.session
    /\ parts' = Append(parts, o.session)

\* The answer that completes the collection.
Complete(q, o) ==
    /\ left = 1
    /\ QueryVerdict(q, o) = "ok"
    /\ left' = 0
    /\ got' = q.session
    /\ parts' = Append(parts, o.session)

Abandon ==
    /\ left' = 0
    /\ got' = 0
    /\ parts' = <<>>

-----------------------------------------------------------------------------
(* synchronize() *)

Synchronize(n) ==
    /\ Admitted("synchronize")
    /\ phase' = "sync"
    /\ StartCollecting(n)
    /\ UNCHANGED <<closed, connections, continuity, recovery, candidate, ret, handed, open>>

\* One query of synchronize() turns the connection in use into q.
SyncQuery(q) ==
    /\ phase = "sync"
    /\ rpc' = q
    /\ open' = AfterDiscard(rpc, q)
    /\ UNCHANGED <<closed, events, eventSession, candidate>>

SyncAnswer(o, q) ==
    /\ SyncQuery(q)
    /\ Collect(q, o)
    /\ UNCHANGED <<known, lastSeq, recovery, phase, ret, handed>>

\* The collection must belong to the session known before and to that of the
\* events; then it is the new baseline.
SyncBaseline(s) == known \in {0, s} /\ eventSession \in {0, s}

SyncDone(o, q) ==
    /\ SyncQuery(q)
    /\ Complete(q, o)
    /\ SyncBaseline(q.session)
    /\ known' = q.session
    /\ lastSeq' = 0
    /\ recovery' = "HEALTHY"
    /\ phase' = "idle"
    /\ ret' = Ended("synchronize", "ok")
    /\ seen' = seen \cup {q.session}
    /\ feed' = <<>>

SyncForeign(o, q) ==
    /\ SyncQuery(q)
    /\ \/ QueryVerdict(q, o) = "reconnect"
       \/ left = 1 /\ QueryVerdict(q, o) = "ok" /\ ~SyncBaseline(q.session)
    /\ Abandon
    /\ recovery' = "RECONNECT_REQUIRED"
    /\ phase' = "idle"
    /\ ret' = Ended("synchronize", "reconnect")
    /\ UNCHANGED <<known, lastSeq, handed>>

SyncFails(o, q) ==
    /\ SyncQuery(q)
    /\ QueryVerdict(q, o) \notin {"ok", "reconnect"}
    /\ Abandon
    /\ HandleRpcException("synchronize", q, o.kind)
    /\ phase' = "idle"
    /\ UNCHANGED <<lastSeq, feed>>

SyncStep(o) ==
    /\ o \in QueryOutcomesOf(rpc)
    /\ LET q == AfterRequest(rpc, o)
       IN SyncAnswer(o, q) \/ SyncDone(o, q) \/ SyncForeign(o, q) \/ SyncFails(o, q)

-----------------------------------------------------------------------------
(* receive() *)

Receive == Admitted("receive") /\ events.socket

\* The event connection is gone for good; once noticed it stays lost.
ReceiveLost ==
    /\ Receive
    /\ events' = [events EXCEPT !.lost = TRUE]
    /\ recovery' = "RECONNECT_REQUIRED"
    /\ ret' = Ended("receive", "lost")
    /\ UNCHANGED <<closed, rpc, continuity, phase, candidate, progress, handed, open>>

\* No event in time.
ReceiveNothing ==
    /\ Receive /\ ~events.lost
    /\ ret' = Ended("receive", "none")
    /\ UNCHANGED <<closed, connections, continuity, recovery, phase, candidate, progress,
                   handed, open>>

\* A negative timeout, or a subscriber the caller has closed.
ReceiveRefused ==
    /\ Admitted("receive")
    /\ ~(events.socket /\ events.lost)
    /\ ret' = Ended("receive", "refused")
    /\ UNCHANGED <<closed, connections, continuity, recovery, phase, candidate, progress,
                   handed, open>>

ReceiveMalformed ==
    /\ Receive /\ ~events.lost
    /\ recovery' = "RESYNC_REQUIRED"
    /\ ret' = Ended("receive", "protocol")
    /\ UNCHANGED <<closed, connections, continuity, phase, candidate, progress, handed, open>>

\* Seeded fault: the RPC session is not compared once the events have one.
Fault_EventBelongs(s) == IF eventSession = 0 THEN known \in {0, s} ELSE TRUE

EventBelongs(s) == known \in {0, s} /\ eventSession \in {0, s}

\* Seeded fault: a jump forward is accepted.
Fault_InSequence(n) == lastSeq # 0 => (n >= NextSequence(lastSeq))

\* Seeded fault: the number after UINT32_MAX is not 1.
Fault_NoWrap(n) == lastSeq # 0 => (n = lastSeq + 1)

InSequence(n) == lastSeq # 0 => (n = NextSequence(lastSeq))

ReceiveForeign(s) ==
    /\ Receive /\ ~events.lost
    /\ ~EventBelongs(s)
    /\ recovery' = "RECONNECT_REQUIRED"
    /\ ret' = Ended("receive", "reconnect")
    /\ UNCHANGED <<closed, connections, continuity, phase, candidate, progress, handed, open>>

ReceiveGap(s, n) ==
    /\ Receive /\ ~events.lost
    /\ EventBelongs(s)
    /\ ~InSequence(n)
    /\ recovery' = "RESYNC_REQUIRED"
    /\ ret' = Ended("receive", "resync")
    /\ UNCHANGED <<closed, connections, continuity, phase, candidate, progress, handed, open>>

ReceiveEvent(s, n) ==
    /\ Receive /\ ~events.lost
    /\ Len(feed) < MaxFeed
    /\ EventBelongs(s)
    /\ InSequence(n)
    /\ eventSession' = s
    /\ lastSeq' = n
    /\ ret' = Ended("receive", "ok")
    /\ seen' = seen \cup {s}
    /\ feed' = Append(feed, n)
    /\ UNCHANGED <<closed, connections, known, recovery, phase, candidate, progress, open>>

-----------------------------------------------------------------------------
(* reconnect(): events first, then rpc, then a collection, then the swap *)

Reconnect(n) ==
    /\ Admitted("reconnect")
    /\ newEvents' = FreshEvents
    /\ open' = open + 1
    /\ phase' = "re_rpc"
    /\ StartCollecting(n)
    /\ UNCHANGED <<closed, connections, continuity, recovery, newRpc, orphans, ret, handed>>

\* The event endpoint refuses: nothing has been touched yet.
ReconnectEventsFails ==
    /\ Admitted("reconnect")
    /\ ret' = Ended("reconnect", "lost")
    /\ UNCHANGED <<closed, connections, continuity, recovery, phase, candidate, progress,
                   handed, open>>

ReconnectRpc ==
    /\ phase = "re_rpc"
    /\ newRpc' = FreshRpc
    /\ open' = open + 1
    /\ phase' = "re_sync"
    /\ UNCHANGED <<closed, connections, continuity, recovery, newEvents, orphans, progress,
                   ret, handed>>

\* The candidate pair (newEvents, r) is closed and dropped; the pair in use and
\* the recovery state stay as they are.
Backout(n, r, result) ==
    /\ open' = CloseConnections(n, newEvents, r)
    /\ newEvents' = NoEvents
    /\ newRpc' = NoRpc
    /\ Abandon
    /\ phase' = "idle"
    /\ ret' = Ended("reconnect", result)
    /\ UNCHANGED <<closed, connections, continuity, recovery, orphans, handed>>

ReconnectRpcFails ==
    /\ phase = "re_rpc"
    /\ Backout(open, newRpc, "lost")

ReconnectAnswer(o, q) ==
    /\ phase = "re_sync"
    /\ Collect(q, o)
    /\ newRpc' = q
    /\ open' = AfterDiscard(newRpc, q)
    /\ UNCHANGED <<closed, connections, continuity, recovery, phase, newEvents, orphans, ret,
                   handed>>

\* The swap: the old pair is closed last.
ReconnectDone(o, q) ==
    /\ phase = "re_sync"
    /\ Complete(q, o)
    /\ events' = newEvents
    /\ rpc' = q
    /\ known' = q.session
    /\ eventSession' = 0
    /\ lastSeq' = 0
    /\ recovery' = "HEALTHY"
    /\ open' = CloseConnections(AfterDiscard(newRpc, q), events, rpc)
    /\ newEvents' = NoEvents
    /\ newRpc' = NoRpc
    /\ phase' = "idle"
    /\ ret' = Ended("reconnect", "ok")
    /\ seen' = {q.session}
    /\ feed' = <<>>
    /\ UNCHANGED <<closed, orphans>>

ReconnectQueryFails(o, q) ==
    /\ phase = "re_sync"
    /\ QueryVerdict(q, o) # "ok"
    /\ Backout(AfterDiscard(newRpc, q), q, QueryVerdict(q, o))

ReconnectStep(o) ==
    /\ o \in QueryOutcomesOf(newRpc)
    /\ LET q == AfterRequest(newRpc, o)
       IN ReconnectAnswer(o, q) \/ ReconnectDone(o, q) \/ ReconnectQueryFails(o, q)

-----------------------------------------------------------------------------
(* A KeyboardInterrupt during a wait: no "except Exception" sees it *)

Interrupted(call) == Interrupts /\ ret' = Ended(call, "interrupted")

\* Nothing was changed before the wait but the flags of the RPC object.
InterruptCall(call) ==
    /\ Admitted(call)
    /\ call = "request" => rpc.socket
    /\ call = "receive" => events.socket /\ ~events.lost
    /\ Interrupted(call)
    /\ rpc' = IF call = "request" THEN ClearFlags(rpc) ELSE rpc
    /\ UNCHANGED <<closed, events, continuity, recovery, phase, candidate, progress, handed, open>>

\* The answers collected so far are forgotten; their session is not observed.
InterruptSync ==
    /\ phase = "sync" /\ rpc.socket
    /\ Interrupted("synchronize")
    /\ rpc' = ClearFlags(rpc)
    /\ Abandon
    /\ phase' = "idle"
    /\ UNCHANGED <<closed, events, continuity, recovery, candidate, handed, open>>

\* Bound: the exception of an earlier interrupt has been dropped.
Dropped == orphans = 0

\* Nobody closes the objects under construction; the exception still reaches them.
InterruptConstructor ==
    /\ phase = "new_rpc" /\ Dropped
    /\ Interrupted("BridgeClient")
    /\ orphans' = Held(events)
    /\ events' = NoEvents
    /\ phase' = "new_events"
    /\ UNCHANGED <<closed, rpc, continuity, recovery, newRpc, newEvents, progress, handed, open>>

InterruptReconnect ==
    /\ phase \in {"re_rpc", "re_sync"} /\ Dropped
    /\ Interrupted("reconnect")
    /\ orphans' = Held(newEvents) + Held(newRpc)
    /\ newEvents' = NoEvents
    /\ newRpc' = NoRpc
    /\ Abandon
    /\ phase' = "idle"
    /\ UNCHANGED <<closed, connections, continuity, recovery, handed, open>>

\* The caller drops the exception: Python closes the sockets with the objects.
DropException ==
    /\ phase \in {"new_events", "idle"} /\ ~Dropped
    /\ open' = open - orphans
    /\ orphans' = 0
    /\ ret' = Ended("del", "none")
    /\ UNCHANGED <<closed, connections, continuity, recovery, phase, newRpc, newEvents, progress,
                   handed>>

-----------------------------------------------------------------------------
(* What a caller may do to client.rpc and client.events behind the client *)

Raw == RawAccess /\ phase = "idle" /\ ~closed

RawRequest(o) ==
    /\ Raw
    /\ o \in OutcomesOf(rpc)
    /\ rpc' = AfterRequest(rpc, o)
    /\ open' = AfterDiscard(rpc, rpc')
    /\ ret' = Ended("raw", o.kind)
    /\ UNCHANGED <<closed, events, continuity, recovery, phase, candidate, progress, handed>>

RawCloseRpc ==
    /\ Raw
    /\ rpc' = [rpc EXCEPT !.socket = FALSE]
    /\ open' = AfterDiscard(rpc, rpc')
    /\ ret' = Ended("raw", "none")
    /\ UNCHANGED <<closed, events, continuity, recovery, phase, candidate, progress, handed>>

\* events.receive() that finds the connection lost, or events.close().  A raw
\* receive() that takes an event shows as a gap to the client's next one.
RawEvents ==
    /\ Raw
    /\ events.socket
    /\ events' \in {[events EXCEPT !.lost = TRUE], [events EXCEPT !.socket = FALSE]}
    /\ open' = AfterDiscard(events, events')
    /\ ret' = Ended("raw", "lost")
    /\ UNCHANGED <<closed, rpc, continuity, recovery, phase, candidate, progress, handed>>

-----------------------------------------------------------------------------
(* The specification *)

Construct == ConnectEvents \/ ConnectRpc \/ ConnectFails

ReceiveStep ==
    \/ ReceiveLost \/ ReceiveNothing \/ ReceiveRefused \/ ReceiveMalformed
    \/ \E s \in Sessions :
          \/ ReceiveForeign(s)
          \/ \E n \in EventSequences : ReceiveGap(s, n) \/ ReceiveEvent(s, n)

InterruptStep ==
    \/ \E call \in {"request", "receive", "reconnect"} : InterruptCall(call)
    \/ InterruptSync \/ InterruptConstructor \/ InterruptReconnect
    \/ DropException

Next ==
    \/ Construct
    \/ \E call \in {"request", "synchronize", "receive", "reconnect"} : TurnAway(call)
    \/ Close
    \/ \E o \in Outcomes : Request(o) \/ SyncStep(o) \/ ReconnectStep(o) \/ RawRequest(o)
    \/ \E n \in QueryCounts : Synchronize(n) \/ Reconnect(n)
    \/ ReceiveStep
    \/ ReconnectEventsFails \/ ReconnectRpc \/ ReconnectRpcFails
    \/ RawCloseRpc \/ RawEvents
    \/ InterruptStep

Spec == Init /\ [][Next]_vars

-----------------------------------------------------------------------------
(* Properties *)

\* Every variable keeps its type; the sockets of absent objects are detached.
TypeOK ==
    /\ closed \in BOOLEAN
    /\ rpc \in RpcObjects
    /\ events \in EventObjects
    /\ known \in MaybeSessions
    /\ eventSession \in MaybeSessions
    /\ lastSeq \in MaybeSequences
    /\ recovery \in RecoveryStates
    /\ phase \in Phases
    /\ newRpc \in RpcObjects
    /\ newEvents \in EventObjects
    /\ orphans \in Nat
    /\ left \in 0..5
    /\ got \in MaybeSessions
    /\ ret \in [call : Calls, result : Results]
    /\ parts \in Seq(Sessions)
    /\ seen \subseteq Sessions
    /\ feed \in Seq(EventSequences)
    /\ open \in Int

\* Between two successful (re)connections the caller is never handed answers,
\* remote errors, snapshots or events of two different sessions: every path
\* out of the client compares the RPC session, the session of the events and
\* the one known before (client.py _observe_rpc_session, synchronize, receive).
OneSession == \A s, t \in seen : s = t

\* The events handed out since the last snapshot are consecutive, the number
\* after UINT32_MAX being 1: neither a gap, nor a duplicate, nor a reordering
\* reaches the caller, not even after a failed call (client.py receive).
Follows(a, b) == (a < UINT32_MAX /\ b = a + 1) \/ (a = UINT32_MAX /\ b = 1)

FeedContiguous == \A i \in 1..Len(feed) - 1 : Follows(feed[i], feed[i + 1])

\* Every socket in existence is owned by the pair in use, by the candidate pair
\* of a running reconnect(), or by an exception that interrupted one; none
\* survives close(), a failed constructor or a failed reconnect().
NoSocketLeak ==
    /\ open = Held(rpc) + Held(events) + Held(newRpc) + Held(newEvents) + orphans
    /\ closed => open = orphans
    /\ phase = "new_events" => open = orphans
    /\ ~Interrupts => orphans = 0
    /\ phase \in {"idle", "sync"} => Held(newRpc) + Held(newEvents) = 0

\* A snapshot that synchronize() or reconnect() returned is complete and of one
\* session, the one that session_id reports and that the client holds
\* everything else against from then on.
Returned(call) == phase = "idle" /\ ret = Ended(call, "ok")

SnapshotOneSession ==
    Returned("synchronize") \/ Returned("reconnect")
        => /\ Len(parts) \in QueryCounts
           /\ \A i \in 1..Len(parts) : parts[i] = known
           /\ ~closed => rpc.session = known

\* A caller who leaves the low-level objects alone and interrupts no call can
\* rely on the recovery state: as long as it does not ask for a reconnection,
\* both connections are up, session_id is the session the client checks against
\* (test_integration: event.session_id == client.session_id) and the events
\* agree with it.
UsableConnections ==
    phase = "idle" /\ ~closed /\ recovery # "RECONNECT_REQUIRED"
        => /\ rpc.socket /\ events.socket /\ ~events.lost
           /\ rpc.session = known
           /\ known # 0 => eventSession \in {0, known}

\* Nothing is handed out while a recovery is due: the call that returns data
\* leaves the client healthy, and from a degraded client only a snapshot comes.
\* Every step that ends idle ends a call.
HandsOut == ret'.result = "ok" /\ ret'.call # "raw" /\ phase' = "idle"

HandsOutHealthy ==
    HandsOut => /\ recovery' = "HEALTHY"
                /\ recovery # "HEALTHY" => ret'.call \in {"synchronize", "reconnect"}

NothingWhileDegraded == [][HandsOutHealthy]_vars

\* RECONNECT_REQUIRED is left only by a reconnect() that ends with two live,
\* new connections and a pinned session; RESYNC_REQUIRED turns into HEALTHY
\* only by a snapshot that also drops the old sequence baseline.
LeavesReconnect ==
    recovery = "RECONNECT_REQUIRED" /\ recovery' # recovery
        => /\ phase = "re_sync" /\ ret' = Ended("reconnect", "ok")
           /\ rpc'.socket /\ events'.socket /\ ~events'.lost
           /\ known' = rpc'.session /\ eventSession' = 0 /\ lastSeq' = 0

LeavesResync ==
    recovery = "RESYNC_REQUIRED" /\ recovery' = "HEALTHY"
        => /\ ret' \in {Ended("synchronize", "ok"), Ended("reconnect", "ok")}
           /\ lastSeq' = 0

RecoveryLadder == [][LeavesReconnect /\ LeavesResync]_vars

\* The client implements RecoveryContract: a caller who knows no sockets and no
\* queries sees only sessions pinned, consecutive events, and recoveries.
Contract == INSTANCE RecoveryContract WITH
    ContractSessions <- Sessions,
    LastSequence <- UINT32_MAX,
    mode <- IF closed THEN "CLOSED" ELSE recovery,
    pinned <- IF known # 0 THEN known ELSE eventSession,
    told <- seen,
    stream <- feed

ContractSpec == Contract!Spec
=============================================================================
