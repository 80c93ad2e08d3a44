------------------------- MODULE BridgeClientProofs -------------------------
(***************************************************************************)
(* Proofs about BridgeClient for every set of sessions, every UINT32_MAX,  *)
(* every bound on the feed, with and without raw access and interrupts.    *)
(* The last sections are about recovery_state: nothing is handed out below *)
(* HEALTHY, a lost session is left only by a complete reconnect(), and a   *)
(* client that does not ask for one has two live connections of a session. *)
(***************************************************************************)
EXTENDS BridgeClient, TLAPS

-----------------------------------------------------------------------------
(* Facts about the connection objects *)

Kinds == {"ok", "remote", "lost", "protocol", "refused"}

\* An outcome is an answer or a denial of a proper session, or has none.
LEMMA OutcomeCases ==
    ASSUME NEW o \in Outcomes
    PROVE  /\ o.kind \in Kinds
           /\ o.kind \in {"ok", "remote"} => o.session \in Sessions
BY DEF Outcomes, Answer, Denial, Lost, BadAnswer, Refusal, Kinds

\* Zero is not a session.
LEMMA SessionsNonZero == Sessions \subseteq Nat /\ 0 \notin Sessions
BY WireAssumption

\* Whatever a request meets, the object stays well-formed; an answer or a
\* denial leaves its session behind.
LEMMA AfterRequestType ==
    ASSUME NEW r \in RpcObjects, NEW o \in Outcomes
    PROVE  /\ AfterRequest(r, o) \in RpcObjects
           /\ o.kind \in {"ok", "remote"} => AfterRequest(r, o).session = o.session
<1>1. o.kind \in Kinds /\ (o.kind \in {"ok", "remote"} => o.session \in Sessions)
  BY OutcomeCases
<1>2. ClearFlags(r) \in RpcObjects /\ ClearFlags(r).session = r.session
  BY DEF RpcObjects, ClearFlags, SessionChanges
<1>3. CASE o.kind \in {"ok", "remote"}
  <2> DEFINE c == ClearFlags(r)
             pair == IF c.session \notin {0, o.session} THEN <<c.session, o.session>> ELSE NoChange
  <2>1. AfterRequest(r, o) = [c EXCEPT !.change = pair, !.session = o.session]
    BY <1>3 DEF AfterRequest, CommitSession
  <2>2. c \in RpcObjects /\ o.session \in Sessions
    BY <1>1, <1>2, <1>3
  <2>3. pair \in SessionChanges
    BY <2>2 DEF RpcObjects, SessionChanges, MaybeSessions
  <2> HIDE DEF c, pair
  <2> QED
    BY <2>1, <2>2, <2>3 DEF RpcObjects, MaybeSessions
<1>4. CASE o.kind \in {"lost", "protocol"}
  BY <1>2, <1>4 DEF AfterRequest, DiscardSocket, RpcObjects
<1>5. CASE o.kind = "refused"
  BY <1>2, <1>5 DEF AfterRequest
<1> QED
  BY <1>1, <1>3, <1>4, <1>5 DEF Kinds

\* The outcomes of a connection are outcomes.
LEMMA OutcomesOfType == ASSUME NEW r, NEW o \in OutcomesOf(r) PROVE o \in Outcomes
BY DEF OutcomesOf, Outcomes

\* The successor of a sequence number is the one that follows it.
LEMMA NextSequenceFollows ==
    ASSUME NEW n \in EventSequences
    PROVE  NextSequence(n) \in EventSequences /\ Follows(n, NextSequence(n))
<1> UINT32_MAX \in Nat \ {0} /\ n \in 1..UINT32_MAX
  BY WireAssumption DEF EventSequences
<1>1. CASE n < UINT32_MAX
  BY <1>1 DEF NextSequence, Follows, EventSequences
<1>2. CASE n = UINT32_MAX
  BY <1>2 DEF NextSequence, Follows, EventSequences
<1> QED
  BY <1>1, <1>2

\* The constants that stand for objects are objects.
LEMMA ObjectsType ==
    /\ NoRpc \in RpcObjects /\ FreshRpc \in RpcObjects
    /\ NoEvents \in EventObjects /\ FreshEvents \in EventObjects
    /\ \A r \in RpcObjects : Held(r) \in {0, 1}
    /\ \A e \in EventObjects : Held(e) \in {0, 1}
BY DEF NoRpc, FreshRpc, NoEvents, FreshEvents, RpcObjects, EventObjects, Held,
       MaybeSessions, SessionChanges

-----------------------------------------------------------------------------
(* Type correctness *)

\* Observing the RPC session keeps the types of what it may assign.
LEMMA ObserveType ==
    ASSUME TypeOK,
           NEW q \in RpcObjects, NEW call \in Calls, NEW result \in Results,
           result \in {"ok", "remote"} => q.session \in Sessions,
           ObserveRpcSession(call, q, result) \/ HandleRpcException(call, q, result)
    PROVE  /\ recovery' \in RecoveryStates
           /\ ret' \in [call : Calls, result : Results]
           /\ known' \in MaybeSessions
           /\ seen' \subseteq Sessions
<1>1. q.session \in MaybeSessions
  BY DEF RpcObjects
<1>2. "reconnect" \in Results /\ "RECONNECT_REQUIRED" \in RecoveryStates
  BY DEF Results, RecoveryStates
<1>3. CASE ObserveRpcSession(call, q, result)
  <2>1. CASE SessionConflict(q)
    BY <1>2, <1>3, <2>1 DEF ObserveRpcSession, Ended, TypeOK
  <2>2. CASE ~SessionConflict(q)
    BY <1>1, <1>3, <2>2 DEF ObserveRpcSession, Ended, TypeOK
  <2> QED
    BY <2>1, <2>2
<1>4. CASE q.reset /\ HandleRpcException(call, q, result)
  BY <1>2, <1>4 DEF HandleRpcException, Ended, TypeOK
<1> QED
  BY <1>3, <1>4 DEF HandleRpcException

\* Only a consistent answer lets a collection go on.
LEMMA VerdictOk ==
    ASSUME NEW q, NEW o, QueryVerdict(q, o) = "ok"
    PROVE  o.kind = "ok" /\ q.change = NoChange /\ got \in {0, q.session}
<1>1. q.change = NoChange
  BY DEF QueryVerdict
<1>2. o.kind = "ok"
  BY <1>1 DEF QueryVerdict
<1>3. got \in {0, q.session}
  BY <1>1, <1>2 DEF QueryVerdict
<1> QED
  BY <1>1, <1>2, <1>3

\* What a query of a collection may leave in its counters.
LEMMA CollectType ==
    ASSUME TypeOK, NEW q \in RpcObjects, NEW o \in Outcomes,
           \/ Collect(q, o)
           \/ Complete(q, o)
           \/ Abandon
    PROVE  left' \in 0..5 /\ got' \in MaybeSessions /\ parts' \in Seq(Sessions)
<1>1. q.session \in MaybeSessions
  BY DEF RpcObjects
<1>2. CASE Abandon
  BY <1>2 DEF Abandon, MaybeSessions
<1>3. CASE Collect(q, o) \/ Complete(q, o)
  <2>1. o.session \in Sessions
    BY <1>3, VerdictOk, OutcomeCases DEF Collect, Complete
  <2>2. parts' = Append(parts, o.session) /\ got' = q.session
    BY <1>3 DEF Collect, Complete
  <2>3. left' \in 0..5
    BY <1>3 DEF Collect, Complete, TypeOK
  <2> QED
    BY <1>1, <2>1, <2>2, <2>3 DEF TypeOK
<1> QED
  BY <1>2, <1>3

\* Socket counts are integers.
LEMMA SocketsType ==
    ASSUME TypeOK, NEW n \in Int, NEW e \in EventObjects, NEW r \in RpcObjects, NEW q \in RpcObjects
    PROVE  /\ CloseConnections(n, e, r) \in Int
           /\ AfterDiscard(r, q) \in Int
           /\ AfterDiscard(events, e) \in Int
<1>1. Held(e) \in Int /\ Held(r) \in Int /\ Held(q) \in Int /\ Held(events) \in Int
  BY DEF Held
<1> QED
  BY <1>1 DEF CloseConnections, AfterDiscard, TypeOK

\* Every step keeps the types.
LEMMA TypeStep == TypeOK /\ [Next]_vars => TypeOK'
<1> SUFFICES ASSUME TypeOK, [Next]_vars PROVE TypeOK'
  OBVIOUS
<1> USE DEF connections, continuity, candidate, progress, handed
<1> DEFINE Ret == [call : Calls, result : Results]
<1>1. \A call \in Calls, result \in Results : Ended(call, result) \in Ret
  BY DEF Ended
<1>2. CASE ConnectEvents
  BY <1>2, ObjectsType, SocketsType DEF ConnectEvents, TypeOK, Phases
<1>3. CASE ConnectRpc
  <2>1. Ended("BridgeClient", "ok") \in Ret
    BY <1>1 DEF Calls, Results
  <2> QED
    BY <1>3, <2>1, ObjectsType, SocketsType DEF ConnectRpc, TypeOK, Phases
<1>4. CASE ConnectFails
  <2>1. Ended("BridgeClient", "lost") \in Ret
    BY <1>1 DEF Calls, Results
  <2>2. open' \in Int
    BY <1>4, SocketsType DEF ConnectFails, TypeOK
  <2> QED
    BY <1>4, <2>1, <2>2, ObjectsType DEF ConnectFails, TypeOK, Phases
<1>5. ASSUME NEW call \in {"request", "synchronize", "receive", "reconnect"}, TurnAway(call)
      PROVE  TypeOK'
  <2>1. Verdict(call) \in Results /\ call \in Calls
    BY <1>5 DEF TurnAway, Verdict, Results, Calls
  <2> QED
    BY <1>1, <1>5, <2>1 DEF TurnAway, TypeOK
<1>6. CASE Close
  <2>1. Ended("close", "none") \in Ret
    BY <1>1 DEF Calls, Results
  <2>2. open' \in Int
    BY <1>6, SocketsType DEF Close, TypeOK
  <2> QED
    BY <1>6, <2>1, <2>2, ObjectsType DEF Close, TypeOK
<1>7. ASSUME NEW o \in Outcomes, Request(o) PROVE TypeOK'
  <2> DEFINE q == AfterRequest(rpc, o)
  <2>1. q \in RpcObjects /\ (o.kind \in {"ok", "remote"} => q.session \in Sessions)
    BY AfterRequestType, OutcomeCases DEF TypeOK
  <2>2. open' \in Int
    BY <1>7, <2>1, SocketsType DEF Request, TypeOK
  <2>3. o.kind \in Results /\ "ok" \in Results /\ "request" \in Calls
    BY OutcomeCases DEF Kinds, Results, Calls
  <2>4. \/ o.kind = "ok" /\ ObserveRpcSession("request", q, o.kind)
        \/ HandleRpcException("request", q, o.kind)
    BY <1>7 DEF Request
  <2>5. /\ recovery' \in RecoveryStates /\ ret' \in Ret
        /\ known' \in MaybeSessions /\ seen' \subseteq Sessions
    BY <2>1, <2>3, <2>4, ObserveType
  <2> HIDE DEF q
  <2> QED
    BY <1>7, <2>1, <2>2, <2>5 DEF Request, TypeOK, q
<1>8. ASSUME NEW o \in Outcomes, SyncStep(o) PROVE TypeOK'
  <2> DEFINE q == AfterRequest(rpc, o)
  <2>1. q \in RpcObjects /\ (o.kind \in {"ok", "remote"} => q.session \in Sessions)
    BY AfterRequestType, OutcomeCases DEF TypeOK
  <2>2. SyncAnswer(o, q) \/ SyncDone(o, q) \/ SyncForeign(o, q) \/ SyncFails(o, q)
    BY <1>8 DEF SyncStep
  <2> HIDE DEF q
  <2>3. SyncQuery(q) /\ open' \in Int
    BY <2>1, <2>2, SocketsType DEF SyncAnswer, SyncDone, SyncForeign, SyncFails, SyncQuery, TypeOK
  <2>4. left' \in 0..5 /\ got' \in MaybeSessions /\ parts' \in Seq(Sessions)
    BY <2>1, <2>2, CollectType DEF SyncAnswer, SyncDone, SyncForeign, SyncFails
  <2>5. CASE SyncAnswer(o, q)
    BY <2>1, <2>3, <2>4, <2>5 DEF SyncAnswer, SyncQuery, TypeOK
  <2>6. CASE SyncDone(o, q)
    <3>1. q.session \in Sessions
      BY <2>1, <2>6, VerdictOk DEF SyncDone, Complete
    <3>2. Ended("synchronize", "ok") \in Ret
      BY <1>1 DEF Calls, Results
    <3>3. lastSeq' = 0 /\ 0 \in MaybeSequences /\ feed' = <<>> /\ <<>> \in Seq(EventSequences)
      BY <2>6, WireAssumption DEF SyncDone, MaybeSequences
    <3> QED
      BY <2>1, <2>3, <2>4, <2>6, <3>1, <3>2, <3>3
      DEF SyncDone, SyncQuery, TypeOK, MaybeSessions, RecoveryStates, Phases
  <2>7. CASE SyncForeign(o, q)
    <3>1. Ended("synchronize", "reconnect") \in Ret
      BY <1>1 DEF Calls, Results
    <3> QED
      BY <2>1, <2>3, <2>4, <2>7, <3>1 DEF SyncForeign, SyncQuery, TypeOK, RecoveryStates, Phases
  <2>8. CASE SyncFails(o, q)
    <3>1. o.kind \in Results /\ "synchronize" \in Calls
      BY OutcomeCases DEF Kinds, Results, Calls
    <3>2. /\ recovery' \in RecoveryStates /\ ret' \in Ret
          /\ known' \in MaybeSessions /\ seen' \subseteq Sessions
      BY <2>1, <2>8, <3>1, ObserveType DEF SyncFails
    <3> QED
      BY <2>1, <2>3, <2>4, <2>8, <3>2 DEF SyncFails, SyncQuery, TypeOK, Phases
  <2> QED
    BY <2>2, <2>5, <2>6, <2>7, <2>8
<1>9. ASSUME NEW o \in Outcomes, ReconnectStep(o) PROVE TypeOK'
  <2> DEFINE q == AfterRequest(newRpc, o)
  <2>1. q \in RpcObjects /\ (o.kind \in {"ok", "remote"} => q.session \in Sessions)
    BY AfterRequestType, OutcomeCases DEF TypeOK
  <2>2. ReconnectAnswer(o, q) \/ ReconnectDone(o, q) \/ ReconnectQueryFails(o, q)
    BY <1>9 DEF ReconnectStep
  <2> HIDE DEF q
  <2>3. AfterDiscard(newRpc, q) \in Int
    BY <2>1, SocketsType DEF TypeOK
  <2>4. left' \in 0..5 /\ got' \in MaybeSessions /\ parts' \in Seq(Sessions)
    BY <2>1, <2>2, CollectType DEF ReconnectAnswer, ReconnectDone, ReconnectQueryFails, Backout
  <2>5. CASE ReconnectAnswer(o, q)
    BY <2>1, <2>3, <2>4, <2>5 DEF ReconnectAnswer, TypeOK
  <2>6. CASE ReconnectDone(o, q)
    <3>1. q.session \in Sessions
      BY <2>1, <2>6, VerdictOk DEF ReconnectDone, Complete
    <3>2. Ended("reconnect", "ok") \in Ret
      BY <1>1 DEF Calls, Results
    <3>3. lastSeq' = 0 /\ 0 \in MaybeSequences /\ feed' = <<>> /\ <<>> \in Seq(EventSequences)
      BY <2>6, WireAssumption DEF ReconnectDone, MaybeSequences
    <3>4. open' \in Int
      BY <2>3, <2>6, SocketsType DEF ReconnectDone, TypeOK
    <3> QED
      BY <2>1, <2>4, <2>6, <3>1, <3>2, <3>3, <3>4, ObjectsType
      DEF ReconnectDone, TypeOK, MaybeSessions, RecoveryStates, Phases
  <2>7. CASE ReconnectQueryFails(o, q)
    <3>1. QueryVerdict(q, o) \in Results
      BY OutcomeCases DEF QueryVerdict, Kinds, Results
    <3>2. Ended("reconnect", QueryVerdict(q, o)) \in Ret
      BY <1>1, <3>1 DEF Calls
    <3>3. open' \in Int
      BY <2>1, <2>3, <2>7, SocketsType DEF ReconnectQueryFails, Backout, TypeOK
    <3> QED
      BY <2>4, <2>7, <3>2, <3>3, ObjectsType DEF ReconnectQueryFails, Backout, TypeOK, Phases
  <2> QED
    BY <2>2, <2>5, <2>6, <2>7
<1>10. ASSUME NEW o \in Outcomes, RawRequest(o) PROVE TypeOK'
  <2>1. AfterRequest(rpc, o) \in RpcObjects
    BY AfterRequestType DEF TypeOK
  <2>2. open' \in Int
    BY <1>10, <2>1, SocketsType DEF RawRequest, TypeOK
  <2>3. Ended("raw", o.kind) \in Ret
    BY <1>1, OutcomeCases DEF Kinds, Calls, Results
  <2> QED
    BY <1>10, <2>1, <2>2, <2>3 DEF RawRequest, TypeOK
<1>11. ASSUME NEW n \in QueryCounts, Synchronize(n) PROVE TypeOK'
  BY <1>11 DEF Synchronize, StartCollecting, QueryCounts, TypeOK, Phases, MaybeSessions
<1>12. ASSUME NEW n \in QueryCounts, Reconnect(n) PROVE TypeOK'
  <2>1. n \in 0..5 /\ 0 \in MaybeSessions /\ <<>> \in Seq(Sessions)
    BY DEF QueryCounts, MaybeSessions
  <2>2. open' \in Int
    BY <1>12 DEF Reconnect, TypeOK
  <2> QED
    BY <1>12, <2>1, <2>2, ObjectsType DEF Reconnect, StartCollecting, TypeOK, Phases
<1>13. CASE ReceiveStep
  <2>1. /\ Ended("receive", "lost") \in Ret /\ Ended("receive", "none") \in Ret
        /\ Ended("receive", "refused") \in Ret /\ Ended("receive", "protocol") \in Ret
        /\ Ended("receive", "reconnect") \in Ret /\ Ended("receive", "resync") \in Ret
        /\ Ended("receive", "ok") \in Ret
    BY <1>1 DEF Calls, Results
  <2>2. CASE ReceiveLost
    BY <2>1, <2>2 DEF ReceiveLost, TypeOK, EventObjects, RecoveryStates
  <2>3. CASE ReceiveNothing \/ ReceiveRefused \/ ReceiveMalformed
    BY <2>1, <2>3 DEF ReceiveNothing, ReceiveRefused, ReceiveMalformed, TypeOK, RecoveryStates
  <2>4. ASSUME NEW s \in Sessions, ReceiveForeign(s) PROVE TypeOK'
    BY <2>1, <2>4 DEF ReceiveForeign, TypeOK, RecoveryStates
  <2>5. ASSUME NEW s \in Sessions, NEW n \in EventSequences, ReceiveGap(s, n) PROVE TypeOK'
    BY <2>1, <2>5 DEF ReceiveGap, TypeOK, RecoveryStates
  <2>6. ASSUME NEW s \in Sessions, NEW n \in EventSequences, ReceiveEvent(s, n) PROVE TypeOK'
    <3>1. n \in MaybeSequences
      BY WireAssumption DEF EventSequences, MaybeSequences
    <3>2. Append(feed, n) \in Seq(EventSequences)
      BY DEF TypeOK
    <3> QED
      BY <2>1, <2>6, <3>1, <3>2 DEF ReceiveEvent, TypeOK, MaybeSessions
  <2> QED
    BY <1>13, <2>2, <2>3, <2>4, <2>5, <2>6 DEF ReceiveStep
<1>14. CASE ReconnectEventsFails
  <2>1. Ended("reconnect", "lost") \in Ret
    BY <1>1 DEF Calls, Results
  <2> QED
    BY <1>14, <2>1 DEF ReconnectEventsFails, TypeOK
<1>15. CASE ReconnectRpc
  BY <1>15, ObjectsType, SocketsType DEF ReconnectRpc, TypeOK, Phases
<1>16. CASE ReconnectRpcFails
  <2>1. Ended("reconnect", "lost") \in Ret
    BY <1>1 DEF Calls, Results
  <2>2. open' \in Int
    BY <1>16, SocketsType DEF ReconnectRpcFails, Backout, TypeOK
  <2> QED
    BY <1>16, <2>1, <2>2, ObjectsType
    DEF ReconnectRpcFails, Backout, Abandon, TypeOK, Phases, MaybeSessions
<1>17. CASE RawCloseRpc
  <2>1. Ended("raw", "none") \in Ret
    BY <1>1 DEF Calls, Results
  <2>2. rpc' \in RpcObjects
    BY <1>17 DEF RawCloseRpc, TypeOK, RpcObjects
  <2>3. open' \in Int
    BY <1>17, <2>2, SocketsType DEF RawCloseRpc, TypeOK
  <2> QED
    BY <1>17, <2>1, <2>2, <2>3 DEF RawCloseRpc, TypeOK
<1>18. CASE RawEvents
  <2>1. Ended("raw", "lost") \in Ret
    BY <1>1 DEF Calls, Results
  <2>2. events' \in EventObjects
    BY <1>18 DEF RawEvents, TypeOK, EventObjects
  <2>3. open' \in Int
    BY <1>18, <2>2, ObjectsType, SocketsType DEF RawEvents, TypeOK
  <2> QED
    BY <1>18, <2>1, <2>2, <2>3 DEF RawEvents, TypeOK
<1>19. ASSUME NEW call \in {"request", "receive", "reconnect"}, InterruptCall(call) PROVE TypeOK'
  <2>1. Ended(call, "interrupted") \in Ret
    BY <1>1 DEF Calls, Results
  <2>2. rpc' \in RpcObjects
    BY <1>19 DEF InterruptCall, ClearFlags, TypeOK, RpcObjects, SessionChanges
  <2> QED
    BY <1>19, <2>1, <2>2 DEF InterruptCall, Interrupted, TypeOK
<1>20. CASE InterruptSync
  <2>1. Ended("synchronize", "interrupted") \in Ret
    BY <1>1 DEF Calls, Results
  <2>2. rpc' \in RpcObjects
    BY <1>20 DEF InterruptSync, ClearFlags, TypeOK, RpcObjects, SessionChanges
  <2> QED
    BY <1>20, <2>1, <2>2
    DEF InterruptSync, Interrupted, Abandon, TypeOK, Phases, MaybeSessions
<1>21. CASE InterruptConstructor \/ InterruptReconnect
  <2>1. Ended("BridgeClient", "interrupted") \in Ret /\ Ended("reconnect", "interrupted") \in Ret
    BY <1>1 DEF Calls, Results
  <2>2. orphans' \in Nat
    BY <1>21 DEF InterruptConstructor, InterruptReconnect, Held
  <2>3. CASE InterruptConstructor
    BY <2>1, <2>2, <2>3, ObjectsType DEF InterruptConstructor, Interrupted, TypeOK, Phases
  <2>4. CASE InterruptReconnect
    BY <2>1, <2>2, <2>4, ObjectsType
    DEF InterruptReconnect, Interrupted, Abandon, TypeOK, Phases, MaybeSessions
  <2> QED
    BY <1>21, <2>3, <2>4
<1>22. CASE DropException
  <2>1. Ended("del", "none") \in Ret
    BY <1>1 DEF Calls, Results
  <2>2. open' \in Int
    BY <1>22 DEF DropException, TypeOK
  <2> QED
    BY <1>22, <2>1, <2>2 DEF DropException, TypeOK
<1>23. CASE UNCHANGED vars
  BY <1>23 DEF TypeOK, vars
<1> QED
  BY <1>2, <1>3, <1>4, <1>5, <1>6, <1>7, <1>8, <1>9, <1>10, <1>11, <1>12, <1>13, <1>14, <1>15,
     <1>16, <1>17, <1>18, <1>19, <1>20, <1>21, <1>22, <1>23 DEF Next, Construct, InterruptStep

\* They hold at first.
LEMMA InitTypes == Init => TypeOK
<1> SUFFICES ASSUME Init PROVE TypeOK
  OBVIOUS
<1>1. ret \in [call : Calls, result : Results]
  BY DEF Init, Ended, Calls, Results
<1>2. 0 \in MaybeSessions /\ 0 \in MaybeSequences
  BY WireAssumption DEF MaybeSessions, MaybeSequences
<1>3. parts \in Seq(Sessions) /\ feed \in Seq(EventSequences)
  BY DEF Init
<1>4. /\ rpc = NoRpc /\ newRpc = NoRpc
      /\ events = NoEvents /\ newEvents = NoEvents
  BY DEF Init
<1>5. left \in 0..5 /\ open \in Int
  BY DEF Init
<1>6. orphans \in Nat
  BY DEF Init
<1>7. closed \in BOOLEAN /\ seen \subseteq Sessions
  BY Zenon DEF Init
<1>8. recovery \in RecoveryStates /\ phase \in Phases
  BY DEF Init, RecoveryStates, Phases
<1> QED
  BY <1>1, <1>2, <1>3, <1>4, <1>5, <1>6, <1>7, <1>8, ObjectsType DEF Init, TypeOK

\* The types hold in every reachable state.
THEOREM TypeCorrect == Spec => []TypeOK
BY InitTypes, TypeStep, PTL DEF Spec

-----------------------------------------------------------------------------
(* Sessions and sequence numbers *)

\* The session everything is held against.
Pinned == IF known # 0 THEN known ELSE eventSession

\* The two session variables agree once both are set, and nothing but the
\* pinned session has been told: this is what makes OneSession inductive.
SessionInv ==
    /\ known # 0 /\ eventSession # 0 => known = eventSession
    /\ \A s \in seen : s = Pinned

\* The sequence baseline is the last number handed out.
FeedInv ==
    /\ lastSeq = IF feed = <<>> THEN 0 ELSE feed[Len(feed)]
    /\ FeedContiguous

\* A closed client runs no call, and a lost session is not synchronised.
PhaseInv ==
    /\ closed => phase = "idle"
    /\ phase = "sync" => recovery # "RECONNECT_REQUIRED"

baseline == <<known, eventSession, lastSeq, seen, feed>>

\* Only a request, a query of a synchronisation and an event touch the baseline.
LEMMA BaselineSteps ==
    ASSUME [Next]_vars
    PROVE  \/ UNCHANGED baseline
           \/ \E o \in Outcomes : Request(o) \/ SyncStep(o) \/ ReconnectStep(o)
           \/ \E s \in Sessions, n \in EventSequences : ReceiveEvent(s, n)
<1> USE DEF baseline, continuity, handed
<1>1. CASE Construct
  BY <1>1 DEF Construct, ConnectEvents, ConnectRpc, ConnectFails
<1>2. ASSUME NEW call \in {"request", "synchronize", "receive", "reconnect"}, TurnAway(call)
      PROVE  UNCHANGED baseline
  BY <1>2 DEF TurnAway
<1>3. CASE Close
  BY <1>3 DEF Close
<1>4. ASSUME NEW o \in Outcomes, RawRequest(o) PROVE UNCHANGED baseline
  BY <1>4 DEF RawRequest
<1>5. ASSUME NEW n \in QueryCounts, Synchronize(n) \/ Reconnect(n) PROVE UNCHANGED baseline
  BY <1>5 DEF Synchronize, Reconnect
<1>6. CASE ReceiveStep
  BY <1>6 DEF ReceiveStep, ReceiveLost, ReceiveNothing, ReceiveRefused, ReceiveMalformed,
     ReceiveForeign, ReceiveGap
<1>7. CASE ReconnectEventsFails \/ ReconnectRpc \/ ReconnectRpcFails
  BY <1>7 DEF ReconnectEventsFails, ReconnectRpc, ReconnectRpcFails, Backout
<1>8. CASE RawCloseRpc \/ RawEvents
  BY <1>8 DEF RawCloseRpc, RawEvents
<1>9. CASE InterruptStep
  BY <1>9 DEF InterruptStep, InterruptCall, InterruptSync, InterruptConstructor,
     InterruptReconnect, DropException
<1>10. CASE UNCHANGED vars
  BY <1>10 DEF vars
<1> QED
  BY <1>1, <1>2, <1>3, <1>4, <1>5, <1>6, <1>7, <1>8, <1>9, <1>10 DEF Next

\* What an observation of the RPC session does to the session variables: it
\* leaves them alone, or it pins a session that agrees with both.
LEMMA ObserveCases ==
    ASSUME TypeOK, NEW q \in RpcObjects, NEW call, NEW result,
           result \in {"ok", "remote"} => q.session \in Sessions,
           ObserveRpcSession(call, q, result) \/ HandleRpcException(call, q, result)
    PROVE  \/ /\ UNCHANGED <<known, seen>>
              /\ recovery' \in {recovery, "RECONNECT_REQUIRED"}
           \/ /\ q.session \in Sessions
              /\ known \in {0, q.session} /\ eventSession \in {0, q.session}
              /\ known' = q.session
              /\ seen' \in {seen, seen \cup {q.session}}
              /\ UNCHANGED recovery
<1>1. CASE ObserveRpcSession(call, q, result) /\ SessionConflict(q)
  BY <1>1 DEF ObserveRpcSession
<1>2. CASE ObserveRpcSession(call, q, result) /\ ~SessionConflict(q) /\ q.session = 0
  <2>1. result \notin {"ok", "remote"}
    BY <1>2, SessionsNonZero
  <2> QED
    BY <1>2, <2>1 DEF ObserveRpcSession
<1>3. CASE ObserveRpcSession(call, q, result) /\ ~SessionConflict(q) /\ q.session # 0
  <2>1. q.session \in Sessions
    BY <1>3 DEF RpcObjects, MaybeSessions
  <2>2. known \in {0, q.session} /\ eventSession \in {0, q.session}
    BY <1>3 DEF SessionConflict
  <2> QED
    BY <1>3, <2>1, <2>2 DEF ObserveRpcSession
<1>4. CASE HandleRpcException(call, q, result) /\ q.reset
  BY <1>4 DEF HandleRpcException
<1> QED
  BY <1>1, <1>2, <1>3, <1>4 DEF HandleRpcException

\* Pinning a session that agrees with both variables keeps the invariant.
LEMMA PinSession ==
    ASSUME TypeOK, SessionInv, NEW s \in Sessions,
           known \in {0, s}, eventSession \in {0, s},
           \/ known' = s /\ eventSession' = eventSession
           \/ known' = known /\ eventSession' = s,
           seen' \in {seen, seen \cup {s}}
    PROVE  SessionInv' /\ Pinned \in {0, s} /\ Pinned' = s
<1>1. s # 0 /\ seen \subseteq Sessions
  BY SessionsNonZero DEF TypeOK
<1>2. Pinned \in {0, s} /\ Pinned' = s
  BY <1>1 DEF Pinned
<1>3. \A t \in seen : t = s
  BY <1>1, <1>2, SessionsNonZero DEF SessionInv
<1> QED
  BY <1>1, <1>2, <1>3 DEF SessionInv

\* A query of a collection that ends well leaves a proper session behind.
LEMMA CompleteSession ==
    ASSUME NEW r \in RpcObjects, NEW o \in Outcomes,
           QueryVerdict(AfterRequest(r, o), o) = "ok"
    PROVE  AfterRequest(r, o).session \in Sessions
BY VerdictOk, AfterRequestType, OutcomeCases

LEMMA SessionStep == TypeOK /\ SessionInv /\ [Next]_vars => SessionInv'
<1> SUFFICES ASSUME TypeOK, SessionInv, [Next]_vars PROVE SessionInv'
  OBVIOUS
<1>1. CASE UNCHANGED baseline
  BY <1>1 DEF baseline, SessionInv, Pinned
<1>2. ASSUME NEW o \in Outcomes, Request(o) PROVE SessionInv'
  <2> DEFINE q == AfterRequest(rpc, o)
  <2>1. q \in RpcObjects /\ (o.kind \in {"ok", "remote"} => q.session \in Sessions)
    BY AfterRequestType, OutcomeCases DEF TypeOK
  <2>2. /\ ObserveRpcSession("request", q, o.kind) \/ HandleRpcException("request", q, o.kind)
        /\ eventSession' = eventSession
    BY <1>2 DEF Request
  <2> HIDE DEF q
  <2>3. CASE UNCHANGED <<known, seen>>
    BY <2>2, <2>3 DEF SessionInv, Pinned
  <2> QED
    BY <2>1, <2>2, <2>3, ObserveCases, PinSession
<1>3. ASSUME NEW o \in Outcomes, SyncStep(o) PROVE SessionInv'
  <2> DEFINE q == AfterRequest(rpc, o)
  <2>1. q \in RpcObjects /\ (o.kind \in {"ok", "remote"} => q.session \in Sessions)
    BY AfterRequestType, OutcomeCases DEF TypeOK
  <2>2. SyncAnswer(o, q) \/ SyncDone(o, q) \/ SyncForeign(o, q) \/ SyncFails(o, q)
    BY <1>3 DEF SyncStep
  <2>3. QueryVerdict(q, o) = "ok" => q.session \in Sessions
    BY CompleteSession DEF TypeOK
  <2> HIDE DEF q
  <2>4. eventSession' = eventSession
    BY <2>2 DEF SyncAnswer, SyncDone, SyncForeign, SyncFails, SyncQuery
  <2>5. CASE UNCHANGED <<known, seen>>
    BY <2>4, <2>5 DEF SessionInv, Pinned
  <2>6. CASE SyncDone(o, q)
    <3>1. q.session \in Sessions /\ known \in {0, q.session} /\ eventSession \in {0, q.session}
      BY <2>3, <2>6 DEF SyncDone, Complete, SyncBaseline
    <3> QED
      BY <2>4, <2>6, <3>1, PinSession DEF SyncDone
  <2>7. CASE SyncFails(o, q)
    <3>1. HandleRpcException("synchronize", q, o.kind)
      BY <2>7 DEF SyncFails
    <3> QED
      BY <2>1, <2>4, <2>5, <3>1, ObserveCases, PinSession
  <2>8. CASE SyncAnswer(o, q) \/ SyncForeign(o, q)
    BY <2>5, <2>8 DEF SyncAnswer, SyncForeign, handed
  <2> QED
    BY <2>2, <2>6, <2>7, <2>8
<1>4. ASSUME NEW o \in Outcomes, ReconnectStep(o) PROVE SessionInv'
  <2> DEFINE q == AfterRequest(newRpc, o)
  <2>1. ReconnectAnswer(o, q) \/ ReconnectDone(o, q) \/ ReconnectQueryFails(o, q)
    BY <1>4 DEF ReconnectStep
  <2>2. QueryVerdict(q, o) = "ok" => q.session \in Sessions
    BY CompleteSession DEF TypeOK
  <2> HIDE DEF q
  <2>3. CASE ReconnectDone(o, q)
    <3>1. q.session # 0
      BY <2>2, <2>3, SessionsNonZero DEF ReconnectDone, Complete
    <3>2. known' = q.session /\ eventSession' = 0 /\ seen' = {q.session}
      BY <2>3 DEF ReconnectDone
    <3> QED
      BY <3>1, <3>2 DEF SessionInv, Pinned
  <2>4. CASE ReconnectAnswer(o, q) \/ ReconnectQueryFails(o, q)
    BY <2>4 DEF ReconnectAnswer, ReconnectQueryFails, Backout, continuity, handed, SessionInv, Pinned
  <2> QED
    BY <2>1, <2>3, <2>4
<1>5. ASSUME NEW s \in Sessions, NEW n \in EventSequences, ReceiveEvent(s, n) PROVE SessionInv'
  <2>1. /\ known \in {0, s} /\ eventSession \in {0, s}
        /\ known' = known /\ eventSession' = s /\ seen' = seen \cup {s}
    BY <1>5 DEF ReceiveEvent, EventBelongs
  <2> QED
    BY <2>1, PinSession
<1> QED
  BY <1>1, <1>2, <1>3, <1>4, <1>5, BaselineSteps

\* Everything the caller is told between two reconnections is of one session.
THEOREM OneSessionHolds == Spec => []OneSession
<1>1. Init => SessionInv
  BY DEF Init, SessionInv
<1>2. SessionInv => OneSession
  BY DEF SessionInv, OneSession
<1> QED
  BY <1>1, <1>2, TypeCorrect, SessionStep, PTL DEF Spec

\* Appending the number that follows the last one keeps a feed contiguous.
LEMMA FeedAppend ==
    ASSUME TypeOK, FeedInv, NEW n \in EventSequences, InSequence(n),
           NEW f, f = Append(feed, n)
    PROVE  /\ f # <<>> /\ f[Len(f)] = n
           /\ \A i \in 1..Len(f) - 1 : Follows(f[i], f[i + 1])
<1>1. feed \in Seq(EventSequences) /\ f \in Seq(EventSequences) /\ Len(f) = Len(feed) + 1
  BY DEF TypeOK
<1>2. f[Len(f)] = n /\ \A i \in 1..Len(feed) : f[i] = feed[i]
  BY <1>1
<1>3. ASSUME NEW i \in 1..Len(f) - 1 PROVE Follows(f[i], f[i + 1])
  <2>1. Len(feed) \in Nat /\ i \in 1..Len(feed)
    BY <1>1, <1>3
  <2>2. CASE i < Len(feed)
    <3>1. i \in 1..Len(feed) - 1 /\ i + 1 \in 1..Len(feed)
      BY <2>1, <2>2
    <3>2. f[i] = feed[i] /\ f[i + 1] = feed[i + 1]
      BY <1>2, <2>1, <3>1
    <3> QED
      BY <3>1, <3>2 DEF FeedInv, FeedContiguous
  <2>3. CASE i = Len(feed)
    <3>1. feed # <<>> /\ feed[i] \in EventSequences
      BY <1>1, <2>1, <2>3
    <3>2. lastSeq = feed[i] /\ lastSeq # 0
      BY <2>3, <3>1, WireAssumption DEF FeedInv, EventSequences
    <3>3. n = NextSequence(feed[i])
      BY <3>2 DEF InSequence
    <3>4. f[i] = feed[i] /\ f[i + 1] = n
      BY <1>1, <1>2, <2>1, <2>3
    <3> QED
      BY <3>1, <3>3, <3>4, NextSequenceFollows
  <2> QED
    BY <2>1, <2>2, <2>3
<1>4. f # <<>>
  BY <1>1
<1> QED
  BY <1>2, <1>3, <1>4

LEMMA FeedStep == TypeOK /\ FeedInv /\ [Next]_vars => FeedInv'
<1> SUFFICES ASSUME TypeOK, FeedInv, [Next]_vars PROVE FeedInv'
  OBVIOUS
<1>1. CASE UNCHANGED <<lastSeq, feed>>
  BY <1>1 DEF FeedInv, FeedContiguous
<1>2. CASE lastSeq' = 0 /\ feed' = <<>>
  BY <1>2 DEF FeedInv, FeedContiguous
<1>3. ASSUME NEW o \in Outcomes, Request(o) PROVE FeedInv'
  BY <1>1, <1>3 DEF Request
<1>4. ASSUME NEW o \in Outcomes, SyncStep(o) PROVE FeedInv'
  BY <1>1, <1>2, <1>4 DEF SyncStep, SyncAnswer, SyncDone, SyncForeign, SyncFails, handed
<1>5. ASSUME NEW o \in Outcomes, ReconnectStep(o) PROVE FeedInv'
  BY <1>1, <1>2, <1>5
  DEF ReconnectStep, ReconnectAnswer, ReconnectDone, ReconnectQueryFails, Backout, continuity, handed
<1>6. ASSUME NEW s \in Sessions, NEW n \in EventSequences, ReceiveEvent(s, n) PROVE FeedInv'
  <2>1. InSequence(n) /\ lastSeq' = n /\ feed' = Append(feed, n)
    BY <1>6 DEF ReceiveEvent
  <2> QED
    BY <2>1, FeedAppend DEF FeedInv, FeedContiguous
<1>7. CASE UNCHANGED baseline
  BY <1>1, <1>7 DEF baseline
<1> QED
  BY <1>3, <1>4, <1>5, <1>6, <1>7, BaselineSteps

\* No gap, duplicate or reordering reaches the caller.
THEOREM FeedContiguousHolds == Spec => []FeedContiguous
<1>1. Init => FeedInv
  <2> SUFFICES ASSUME feed = <<>>, lastSeq = 0 PROVE FeedInv
    BY DEF Init
  <2> QED
    BY DEF FeedInv, FeedContiguous
<1>2. FeedInv => FeedContiguous
  BY DEF FeedInv
<1> QED
  BY <1>1, <1>2, TypeCorrect, FeedStep, PTL DEF Spec

-----------------------------------------------------------------------------
(* BridgeClient implements RecoveryContract *)

LEMMA PhaseStep == PhaseInv /\ [Next]_vars => PhaseInv'
<1> SUFFICES ASSUME PhaseInv, [Next]_vars PROVE PhaseInv'
  OBVIOUS
<1>1. CASE Construct
  BY <1>1 DEF Construct, ConnectEvents, ConnectRpc, ConnectFails, PhaseInv
<1>2. ASSUME NEW call \in {"request", "synchronize", "receive", "reconnect"}, TurnAway(call)
      PROVE  PhaseInv'
  BY <1>2 DEF TurnAway, PhaseInv
<1>3. CASE Close
  BY <1>3 DEF Close, PhaseInv
<1>4. ASSUME NEW o \in Outcomes, Request(o) \/ RawRequest(o) PROVE PhaseInv'
  BY <1>4 DEF Request, Admitted, Raw, RawRequest, PhaseInv
<1>5. ASSUME NEW o \in Outcomes, SyncStep(o) PROVE PhaseInv'
  BY <1>5 DEF SyncStep, SyncAnswer, SyncDone, SyncForeign, SyncFails, SyncQuery, PhaseInv
<1>6. ASSUME NEW o \in Outcomes, ReconnectStep(o) PROVE PhaseInv'
  BY <1>6 DEF ReconnectStep, ReconnectAnswer, ReconnectDone, ReconnectQueryFails, Backout, PhaseInv
<1>7. ASSUME NEW n \in QueryCounts, Synchronize(n) \/ Reconnect(n) PROVE PhaseInv'
  <2>1. ~closed
    BY <1>7 DEF Synchronize, Reconnect, Admitted, Verdict
  <2>2. Synchronize(n) => recovery # "RECONNECT_REQUIRED"
    BY <2>1 DEF Synchronize, Admitted, Verdict
  <2> QED
    BY <1>7, <2>1, <2>2 DEF Synchronize, Reconnect, PhaseInv
<1>8. CASE ReceiveStep
  BY <1>8 DEF ReceiveStep, ReceiveLost, ReceiveNothing, ReceiveRefused, ReceiveMalformed,
     ReceiveForeign, ReceiveGap, ReceiveEvent, Receive, Admitted, PhaseInv
<1>9. CASE ReconnectEventsFails \/ ReconnectRpc \/ ReconnectRpcFails
  BY <1>9 DEF ReconnectEventsFails, ReconnectRpc, ReconnectRpcFails, Backout, PhaseInv
<1>10. CASE RawCloseRpc \/ RawEvents
  BY <1>10 DEF RawCloseRpc, RawEvents, Raw, PhaseInv
<1>11. CASE InterruptStep
  BY <1>11 DEF InterruptStep, InterruptCall, InterruptSync, InterruptConstructor,
     InterruptReconnect, DropException, PhaseInv
<1>12. CASE UNCHANGED vars
  BY <1>12 DEF vars, PhaseInv
<1> QED
  BY <1>1, <1>2, <1>3, <1>4, <1>5, <1>6, <1>7, <1>8, <1>9, <1>10, <1>11, <1>12 DEF Next

\* The abstract state does not move when these variables do not.
LEMMA ContractStutters ==
    ASSUME UNCHANGED <<closed, recovery, known, eventSession, seen, feed>>
    PROVE  UNCHANGED Contract!contract
BY DEF Contract!contract

\* Only worsening the recovery state of an open client is an abstract Degrade,
\* or nothing at all.
LEMMA ContractDegrades ==
    ASSUME TypeOK, ~closed, UNCHANGED <<closed, known, eventSession, seen, feed>>,
           \/ recovery' = "RECONNECT_REQUIRED"
           \/ recovery = "HEALTHY" /\ recovery' = "RESYNC_REQUIRED"
           \/ recovery' = recovery
    PROVE  [Contract!Next]_Contract!contract
<1>1. CASE recovery' = recovery
  BY <1>1, ContractStutters
<1>2. CASE recovery' # recovery
  <2>1. recovery \in {"HEALTHY", "RESYNC_REQUIRED"} /\ (recovery = "RESYNC_REQUIRED" => recovery' = "RECONNECT_REQUIRED")
    BY <1>2 DEF TypeOK, RecoveryStates
  <2>2. Contract!Degrade
    BY <1>2, <2>1 DEF Contract!Degrade
  <2> QED
    BY <2>2 DEF Contract!Next
<1> QED
  BY <1>1, <1>2

\* Observing the RPC session while no reconnection is due is Tell or Degrade.
LEMMA ObserveRefines ==
    ASSUME TypeOK, SessionInv, ~closed, recovery # "RECONNECT_REQUIRED",
           NEW q \in RpcObjects, NEW call, NEW result,
           result \in {"ok", "remote"} => q.session \in Sessions,
           ObserveRpcSession(call, q, result) \/ HandleRpcException(call, q, result),
           UNCHANGED <<closed, eventSession, feed>>
    PROVE  [Contract!Next]_Contract!contract
<1>1. CASE UNCHANGED <<known, seen>> /\ recovery' \in {recovery, "RECONNECT_REQUIRED"}
  BY <1>1, ContractDegrades
<1>2. CASE /\ q.session \in Sessions
           /\ known \in {0, q.session} /\ eventSession \in {0, q.session}
           /\ known' = q.session
           /\ seen' \in {seen, seen \cup {q.session}}
           /\ UNCHANGED recovery
  <2>1. Pinned \in {0, q.session} /\ Pinned' = q.session
    BY <1>2, PinSession
  <2>2. Contract!Tell(q.session)
    BY <1>2, <2>1 DEF Contract!Tell, Contract!Fits, TypeOK, RecoveryStates, Pinned
  <2> QED
    BY <1>2, <2>2 DEF Contract!Next
<1> QED
  BY <1>1, <1>2, ObserveCases

\* Every step of the client is a step of the contract or leaves it alone.
LEMMA ContractStep ==
    TypeOK /\ SessionInv /\ FeedInv /\ PhaseInv /\ [Next]_vars => [Contract!Next]_Contract!contract
<1> SUFFICES ASSUME TypeOK, SessionInv, FeedInv, PhaseInv, [Next]_vars
             PROVE  [Contract!Next]_Contract!contract
  OBVIOUS
<1> USE DEF continuity, handed
<1>1. CASE Construct
  BY <1>1, ContractStutters DEF Construct, ConnectEvents, ConnectRpc, ConnectFails
<1>2. ASSUME NEW call \in {"request", "synchronize", "receive", "reconnect"}, TurnAway(call)
      PROVE  UNCHANGED Contract!contract
  BY <1>2, ContractStutters DEF TurnAway
<1>3. CASE Close
  <2>1. UNCHANGED <<recovery, known, eventSession, seen, feed>> /\ closed' = TRUE
    BY <1>3 DEF Close
  <2>2. CASE closed
    <3>1. closed' = closed
      BY <2>1, <2>2 DEF TypeOK
    <3> QED
      BY <2>1, <3>1, ContractStutters
  <2>3. CASE ~closed
    <3>1. Contract!Shut
      BY <2>1, <2>3 DEF Contract!Shut, TypeOK, RecoveryStates
    <3> QED
      BY <3>1 DEF Contract!Next
  <2> QED
    BY <2>2, <2>3
<1>4. ASSUME NEW o \in Outcomes, Request(o) PROVE [Contract!Next]_Contract!contract
  <2> DEFINE q == AfterRequest(rpc, o)
  <2>1. q \in RpcObjects /\ (o.kind \in {"ok", "remote"} => q.session \in Sessions)
    BY AfterRequestType, OutcomeCases DEF TypeOK
  <2>2. ~closed /\ recovery # "RECONNECT_REQUIRED"
    BY <1>4 DEF Request, Admitted, Verdict
  <2>3. ObserveRpcSession("request", q, o.kind) \/ HandleRpcException("request", q, o.kind)
    BY <1>4 DEF Request
  <2>4. UNCHANGED <<closed, eventSession, feed>>
    BY <1>4 DEF Request
  <2> HIDE DEF q
  <2> QED
    BY <2>1, <2>2, <2>3, <2>4, ObserveRefines
<1>5. ASSUME NEW o \in Outcomes, SyncStep(o) PROVE [Contract!Next]_Contract!contract
  <2> DEFINE q == AfterRequest(rpc, o)
  <2>1. q \in RpcObjects /\ (o.kind \in {"ok", "remote"} => q.session \in Sessions)
    BY AfterRequestType, OutcomeCases DEF TypeOK
  <2>2. SyncAnswer(o, q) \/ SyncDone(o, q) \/ SyncForeign(o, q) \/ SyncFails(o, q)
    BY <1>5 DEF SyncStep
  <2>3. QueryVerdict(q, o) = "ok" => q.session \in Sessions
    BY CompleteSession DEF TypeOK
  <2> HIDE DEF q
  <2>4. phase = "sync" /\ UNCHANGED <<closed, eventSession>>
    BY <2>2 DEF SyncAnswer, SyncDone, SyncForeign, SyncFails, SyncQuery
  <2>5. ~closed /\ recovery \in {"HEALTHY", "RESYNC_REQUIRED"}
    BY <2>4 DEF PhaseInv, TypeOK, RecoveryStates
  <2>6. CASE SyncAnswer(o, q)
    BY <2>4, <2>6, ContractStutters DEF SyncAnswer
  <2>7. CASE SyncDone(o, q)
    <3> DEFINE s == q.session
    <3>1. s \in Sessions /\ known \in {0, s} /\ eventSession \in {0, s}
      BY <2>3, <2>7 DEF SyncDone, Complete, SyncBaseline
    <3>2. known' = s /\ seen' = seen \cup {s} /\ feed' = <<>> /\ recovery' = "HEALTHY"
      BY <2>7 DEF SyncDone
    <3> HIDE DEF s
    <3>3. Pinned \in {0, s} /\ Pinned' = s
      BY <2>4, <3>1, <3>2, PinSession
    <3>4. Contract!Snapshot(s)
      BY <2>4, <2>5, <3>2, <3>3 DEF Contract!Snapshot, Contract!Fits, Pinned
    <3> QED
      BY <3>1, <3>4 DEF Contract!Next
  <2>8. CASE SyncForeign(o, q)
    BY <2>4, <2>5, <2>8, ContractDegrades DEF SyncForeign
  <2>9. CASE SyncFails(o, q)
    BY <2>1, <2>4, <2>5, <2>9, ObserveRefines DEF SyncFails
  <2> QED
    BY <2>2, <2>6, <2>7, <2>8, <2>9
<1>6. ASSUME NEW o \in Outcomes, ReconnectStep(o) PROVE [Contract!Next]_Contract!contract
  <2> DEFINE q == AfterRequest(newRpc, o)
  <2>1. ReconnectAnswer(o, q) \/ ReconnectDone(o, q) \/ ReconnectQueryFails(o, q)
    BY <1>6 DEF ReconnectStep
  <2>2. QueryVerdict(q, o) = "ok" => q.session \in Sessions
    BY CompleteSession DEF TypeOK
  <2> HIDE DEF q
  <2>3. CASE ReconnectAnswer(o, q) \/ ReconnectQueryFails(o, q)
    BY <2>3, ContractStutters DEF ReconnectAnswer, ReconnectQueryFails, Backout
  <2>4. CASE ReconnectDone(o, q)
    <3> DEFINE s == q.session
    <3>1. s \in Sessions /\ s # 0
      BY <2>2, <2>4, SessionsNonZero DEF ReconnectDone, Complete
    <3>2. /\ known' = s /\ seen' = {s} /\ feed' = <<>> /\ recovery' = "HEALTHY"
          /\ closed' = closed /\ phase = "re_sync"
      BY <2>4 DEF ReconnectDone
    <3>3. ~closed
      BY <3>2 DEF PhaseInv
    <3> HIDE DEF s
    <3>4. Contract!Replace(s)
      BY <3>1, <3>2, <3>3 DEF Contract!Replace, TypeOK, RecoveryStates
    <3> QED
      BY <3>1, <3>4 DEF Contract!Next
  <2> QED
    BY <2>1, <2>3, <2>4
<1>7. ASSUME NEW o \in Outcomes, RawRequest(o) PROVE UNCHANGED Contract!contract
  BY <1>7, ContractStutters DEF RawRequest
<1>8. ASSUME NEW n \in QueryCounts, Synchronize(n) \/ Reconnect(n)
      PROVE  UNCHANGED Contract!contract
  BY <1>8, ContractStutters DEF Synchronize, Reconnect
<1>9. CASE ReceiveStep
  <2>1. CASE ReceiveNothing \/ ReceiveRefused
    BY <2>1, ContractStutters DEF ReceiveNothing, ReceiveRefused
  <2>2. Admitted("receive") => ~closed /\ recovery = "HEALTHY"
    BY DEF Admitted, Verdict, TypeOK, RecoveryStates
  <2>3. CASE ReceiveLost \/ ReceiveMalformed
    BY <2>2, <2>3, ContractDegrades DEF ReceiveLost, ReceiveMalformed, Receive
  <2>4. ASSUME NEW s \in Sessions, ReceiveForeign(s) PROVE [Contract!Next]_Contract!contract
    BY <2>2, <2>4, ContractDegrades DEF ReceiveForeign, Receive
  <2>5. ASSUME NEW s \in Sessions, NEW n \in EventSequences, ReceiveGap(s, n)
        PROVE  [Contract!Next]_Contract!contract
    BY <2>2, <2>5, ContractDegrades DEF ReceiveGap, Receive
  <2>6. ASSUME NEW s \in Sessions, NEW n \in EventSequences, ReceiveEvent(s, n)
        PROVE  [Contract!Next]_Contract!contract
    <3>1. /\ ~closed /\ recovery = "HEALTHY" /\ InSequence(n)
          /\ known \in {0, s} /\ eventSession \in {0, s}
          /\ UNCHANGED <<closed, recovery, known>>
          /\ eventSession' = s /\ seen' = seen \cup {s} /\ feed' = Append(feed, n)
      BY <2>2, <2>6 DEF ReceiveEvent, Receive, EventBelongs
    <3>2. Pinned \in {0, s} /\ Pinned' = s
      BY <3>1, PinSession
    <3>3. feed # <<>> => Contract!Consecutive(feed[Len(feed)], n)
      <4> SUFFICES ASSUME feed # <<>> PROVE Contract!Consecutive(feed[Len(feed)], n)
        OBVIOUS
      <4>1. feed[Len(feed)] \in EventSequences
        BY DEF TypeOK
      <4>2. n = NextSequence(feed[Len(feed)])
        BY <3>1, <4>1, WireAssumption DEF FeedInv, InSequence, EventSequences
      <4>3. Follows(feed[Len(feed)], n)
        BY <4>1, <4>2, NextSequenceFollows
      <4> QED
        BY <4>1, <4>3, WireAssumption DEF Follows, Contract!Consecutive, EventSequences
    <3>4. Contract!DeliverEvent(s, n)
      BY <3>1, <3>2, <3>3 DEF Contract!DeliverEvent, Contract!Fits, Pinned
    <3> QED
      BY <3>4 DEF Contract!Next, EventSequences
  <2> QED
    BY <1>9, <2>1, <2>3, <2>4, <2>5, <2>6 DEF ReceiveStep
<1>10. CASE ReconnectEventsFails \/ ReconnectRpc \/ ReconnectRpcFails
  BY <1>10, ContractStutters DEF ReconnectEventsFails, ReconnectRpc, ReconnectRpcFails, Backout
<1>11. CASE RawCloseRpc \/ RawEvents
  BY <1>11, ContractStutters DEF RawCloseRpc, RawEvents
<1>12. CASE InterruptStep
  BY <1>12, ContractStutters DEF InterruptStep, InterruptCall, InterruptSync, InterruptConstructor,
     InterruptReconnect, DropException
<1>13. CASE UNCHANGED vars
  BY <1>13, ContractStutters DEF vars
<1> QED
  BY <1>1, <1>2, <1>3, <1>4, <1>5, <1>6, <1>7, <1>8, <1>9, <1>10, <1>11, <1>12, <1>13 DEF Next

\* The client keeps the contract: refinement, for every caller.
THEOREM ContractHolds == Spec => ContractSpec
<1>1. Init => Contract!Init /\ SessionInv /\ FeedInv /\ PhaseInv
  <2> SUFFICES ASSUME Init PROVE Contract!Init /\ SessionInv /\ FeedInv /\ PhaseInv
    OBVIOUS
  <2>1. feed = <<>> /\ lastSeq = 0 /\ ~closed /\ known = 0 /\ eventSession = 0 /\ seen = {}
    BY DEF Init
  <2>2. recovery = "HEALTHY" /\ phase = "new_events"
    BY DEF Init
  <2>3. FeedInv
    BY <2>1 DEF FeedInv, FeedContiguous
  <2> QED
    BY <2>1, <2>2, <2>3 DEF Contract!Init, SessionInv, PhaseInv
<1> QED
  BY <1>1, TypeCorrect, SessionStep, FeedStep, PhaseStep, ContractStep, PTL
  DEF Spec, ContractSpec, Contract!Spec

-----------------------------------------------------------------------------
(* Sockets *)

\* Which objects may hold a socket in which phase; with the sum it is what a
\* failed call needs in order to give back exactly what it opened.
SocketInv ==
    /\ open = Held(rpc) + Held(events) + Held(newRpc) + Held(newEvents) + orphans
    /\ ~Interrupts => orphans = 0
    /\ closed \/ phase = "new_events" => Held(rpc) = 0 /\ Held(events) = 0
    /\ phase = "new_rpc" => Held(rpc) = 0
    /\ phase \notin {"re_rpc", "re_sync"} => Held(newRpc) = 0 /\ Held(newEvents) = 0
    /\ phase = "re_rpc" => Held(newRpc) = 0

LEMMA HeldFacts ==
    /\ \A x : Held(x) \in {0, 1}
    /\ Held(NoRpc) = 0 /\ Held(NoEvents) = 0
    /\ Held(FreshRpc) = 1 /\ Held(FreshEvents) = 1
BY DEF Held, NoRpc, NoEvents, FreshRpc, FreshEvents

LEMMA SocketStep == TypeOK /\ PhaseInv /\ SocketInv /\ [Next]_vars => SocketInv'
<1> SUFFICES ASSUME TypeOK, PhaseInv, SocketInv, [Next]_vars PROVE SocketInv'
  OBVIOUS
<1>0. orphans \in Nat
  BY DEF TypeOK
<1> USE <1>0, HeldFacts DEF connections, candidate, CloseConnections, AfterDiscard
<1>1. CASE ConnectEvents
  BY <1>1 DEF ConnectEvents, SocketInv, PhaseInv
<1>2. CASE ConnectRpc
  BY <1>2 DEF ConnectRpc, SocketInv, PhaseInv
<1>3. CASE ConnectFails
  BY <1>3 DEF ConnectFails, SocketInv
<1>4. ASSUME NEW call \in {"request", "synchronize", "receive", "reconnect"}, TurnAway(call)
      PROVE  SocketInv'
  BY <1>4 DEF TurnAway, SocketInv
<1>5. CASE Close
  BY <1>5 DEF Close, SocketInv
<1>6. ASSUME NEW o \in Outcomes, Request(o) PROVE SocketInv'
  <2>1. ~closed /\ phase = "idle" /\ phase' = phase /\ closed' = closed
    BY <1>6 DEF Request, Admitted, Verdict
  <2>2. open' = open - Held(rpc) + Held(rpc') /\ events' = events /\ UNCHANGED candidate
    BY <1>6 DEF Request
  <2> QED
    BY <2>1, <2>2 DEF SocketInv
<1>7. ASSUME NEW o \in Outcomes, SyncStep(o) PROVE SocketInv'
  <2>1. phase = "sync" /\ phase' \in {"sync", "idle"} /\ closed' = closed
    BY <1>7 DEF SyncStep, SyncAnswer, SyncDone, SyncForeign, SyncFails, SyncQuery
  <2>2. ~closed
    BY <2>1 DEF PhaseInv
  <2>3. open' = open - Held(rpc) + Held(rpc') /\ events' = events /\ UNCHANGED candidate
    BY <1>7 DEF SyncStep, SyncAnswer, SyncDone, SyncForeign, SyncFails, SyncQuery
  <2> QED
    BY <2>1, <2>2, <2>3 DEF SocketInv
<1>8. ASSUME NEW o \in Outcomes, ReconnectStep(o) PROVE SocketInv'
  <2> DEFINE q == AfterRequest(newRpc, o)
  <2>1. ReconnectAnswer(o, q) \/ ReconnectDone(o, q) \/ ReconnectQueryFails(o, q)
    BY <1>8 DEF ReconnectStep
  <2> HIDE DEF q
  <2>2. phase = "re_sync" /\ closed' = closed /\ ~closed
    BY <2>1 DEF ReconnectAnswer, ReconnectDone, ReconnectQueryFails, Backout, PhaseInv
  <2>3. CASE ReconnectAnswer(o, q)
    BY <2>2, <2>3 DEF ReconnectAnswer, SocketInv
  <2>4. CASE ReconnectDone(o, q)
    <3>1. events' = newEvents /\ rpc' = q /\ newEvents' = NoEvents /\ newRpc' = NoRpc
      BY <2>4 DEF ReconnectDone
    <3>2. /\ open' = (open - Held(newRpc)) + Held(q) - Held(events) - Held(rpc)
          /\ phase' = "idle"
      BY <2>4 DEF ReconnectDone, TypeOK
    <3>3. open' = Held(rpc') + Held(events') + Held(newRpc') + Held(newEvents') + orphans
      BY <3>1, <3>2 DEF SocketInv, TypeOK
    <3>4. orphans' = orphans
      BY <2>4 DEF ReconnectDone
    <3> QED
      BY <2>2, <3>1, <3>2, <3>3, <3>4 DEF SocketInv
  <2>5. CASE ReconnectQueryFails(o, q)
    BY <2>2, <2>5 DEF ReconnectQueryFails, Backout, SocketInv
  <2> QED
    BY <2>1, <2>3, <2>4, <2>5
<1>9. ASSUME NEW o \in Outcomes, RawRequest(o) PROVE SocketInv'
  BY <1>9 DEF RawRequest, Raw, SocketInv
<1>10. ASSUME NEW n \in QueryCounts, Synchronize(n) PROVE SocketInv'
  BY <1>10 DEF Synchronize, Admitted, SocketInv
<1>11. ASSUME NEW n \in QueryCounts, Reconnect(n) PROVE SocketInv'
  BY <1>11 DEF Reconnect, Admitted, SocketInv
<1>12. CASE ReceiveStep
  <2>1. UNCHANGED <<closed, rpc, candidate, phase, open>>
    BY <1>12 DEF ReceiveStep, ReceiveLost, ReceiveNothing, ReceiveRefused, ReceiveMalformed,
       ReceiveForeign, ReceiveGap, ReceiveEvent
  <2>2. Held(events') = Held(events)
    <3>1. CASE ReceiveLost
      BY <3>1 DEF ReceiveLost, Held, TypeOK, EventObjects
    <3>2. CASE events' = events
      BY <3>2
    <3> QED
      BY <1>12, <3>1, <3>2 DEF ReceiveStep, ReceiveNothing, ReceiveRefused, ReceiveMalformed,
         ReceiveForeign, ReceiveGap, ReceiveEvent
  <2> QED
    BY <2>1, <2>2 DEF SocketInv
<1>13. CASE ReconnectEventsFails
  BY <1>13 DEF ReconnectEventsFails, SocketInv
<1>14. CASE ReconnectRpc
  BY <1>14 DEF ReconnectRpc, SocketInv
<1>15. CASE ReconnectRpcFails
  BY <1>15 DEF ReconnectRpcFails, Backout, SocketInv
<1>16. CASE RawCloseRpc \/ RawEvents
  <2>1. ~closed /\ phase = "idle" /\ UNCHANGED <<closed, phase, candidate>>
    BY <1>16 DEF RawCloseRpc, RawEvents, Raw
  <2>2. open' = open - Held(rpc) - Held(events) + Held(rpc') + Held(events')
    <3>1. CASE RawCloseRpc
      BY <3>1 DEF RawCloseRpc, TypeOK
    <3>2. CASE RawEvents
      <4>1. open' = open - Held(events) + Held(events') /\ rpc' = rpc /\ open \in Int
        BY <3>2 DEF RawEvents, TypeOK
      <4> QED
        BY <4>1
    <3> QED
      BY <1>16, <3>1, <3>2
  <2> QED
    BY <2>1, <2>2 DEF SocketInv
<1>17. ASSUME NEW call \in {"request", "receive", "reconnect"}, InterruptCall(call) \/ InterruptSync
       PROVE  SocketInv'
  <2>1. Held(rpc') = Held(rpc)
    BY <1>17 DEF InterruptCall, InterruptSync, ClearFlags, Held, TypeOK, RpcObjects
  <2>2. UNCHANGED <<closed, events, candidate, open>>
    BY <1>17 DEF InterruptCall, InterruptSync
  <2>3. phase \in {"idle", "sync"} /\ phase' = "idle"
    BY <1>17 DEF InterruptCall, InterruptSync, Admitted
  <2> QED
    BY <2>1, <2>2, <2>3 DEF SocketInv
<1>18. CASE InterruptConstructor
  BY <1>18 DEF InterruptConstructor, Interrupted, Dropped, SocketInv, PhaseInv
<1>19. CASE InterruptReconnect
  BY <1>19 DEF InterruptReconnect, Interrupted, Dropped, SocketInv, PhaseInv
<1>20. CASE DropException
  BY <1>20 DEF DropException, SocketInv, TypeOK
<1>21. CASE UNCHANGED vars
  BY <1>21 DEF vars, SocketInv
<1> QED
  BY <1>1, <1>2, <1>3, <1>4, <1>5, <1>6, <1>7, <1>8, <1>9, <1>10, <1>11, <1>12, <1>13, <1>14, <1>15,
     <1>16, <1>17, <1>18, <1>19, <1>20, <1>21 DEF Next, Construct, InterruptStep

\* No path through the client, failed calls included, leaks a socket.
THEOREM NoSocketLeakHolds == Spec => []NoSocketLeak
<1>1. Init => SocketInv /\ PhaseInv
  <2> SUFFICES ASSUME Init PROVE SocketInv /\ PhaseInv
    OBVIOUS
  <2>1. /\ open = 0 /\ orphans = 0 /\ phase = "new_events" /\ ~closed
        /\ rpc = NoRpc /\ events = NoEvents /\ newRpc = NoRpc /\ newEvents = NoEvents
    BY DEF Init
  <2> QED
    BY <2>1, HeldFacts DEF SocketInv, PhaseInv
<1>2. TypeOK /\ SocketInv /\ PhaseInv => NoSocketLeak
  BY HeldFacts DEF TypeOK, SocketInv, PhaseInv, NoSocketLeak
<1> QED
  BY <1>1, <1>2, TypeCorrect, PhaseStep, SocketStep, PTL DEF Spec

-----------------------------------------------------------------------------
(* Snapshots *)

\* While a collection runs, its answers are all of the session got, and with
\* the queries still to ask they make up a whole snapshot.
CollectingInv ==
    phase \in {"sync", "re_rpc", "re_sync"}
        => /\ left + Len(parts) \in QueryCounts
           /\ \A i \in 1..Len(parts) : parts[i] = got
           /\ parts # <<>> => got # 0

SnapshotInv == CollectingInv /\ SnapshotOneSession

\* One more answer of a consistent session.
LEMMA CollectAppend ==
    ASSUME TypeOK, CollectingInv, phase \in {"sync", "re_sync"},
           NEW r \in RpcObjects, NEW o \in Outcomes, NEW q, q = AfterRequest(r, o),
           Collect(q, o) \/ Complete(q, o)
    PROVE  /\ left' + Len(parts') \in QueryCounts
           /\ parts' # <<>> /\ got' = q.session /\ q.session # 0
           /\ \A i \in 1..Len(parts') : parts'[i] = q.session
<1>1. o.kind = "ok" /\ got \in {0, q.session} /\ got' = q.session /\ parts' = Append(parts, o.session)
  BY VerdictOk DEF Collect, Complete
<1>2. q.session = o.session /\ o.session \in Sessions /\ q.session # 0
  BY <1>1, AfterRequestType, OutcomeCases, SessionsNonZero
<1>3. parts \in Seq(Sessions) /\ Len(parts') = Len(parts) + 1 /\ left' = left - 1 /\ left \in 0..5
  BY <1>1, <1>2 DEF Collect, Complete, TypeOK
<1>4. left' + Len(parts') \in QueryCounts
  <2>1. left' + Len(parts') = left + Len(parts)
    BY <1>3
  <2> QED
    BY <2>1 DEF CollectingInv
<1>5. ASSUME NEW i \in 1..Len(parts') PROVE parts'[i] = q.session
  <2>1. CASE i = Len(parts')
    BY <1>1, <1>2, <1>3, <2>1
  <2>2. CASE i # Len(parts')
    <3>1. i \in 1..Len(parts) /\ parts'[i] = parts[i] /\ parts # <<>>
      BY <1>1, <1>2, <1>3, <2>2
    <3> QED
      BY <1>1, <3>1 DEF CollectingInv
  <2> QED
    BY <2>1, <2>2
<1> QED
  BY <1>1, <1>2, <1>3, <1>4, <1>5

\* A call other than a successful synchronisation ends no collection.
LEMMA NothingReturned ==
    ASSUME phase' = "idle", NEW call, NEW result, ret' = Ended(call, result),
           call \notin {"synchronize", "reconnect"} \/ result # "ok"
    PROVE  SnapshotInv'
BY DEF Ended, SnapshotInv, CollectingInv, SnapshotOneSession, Returned

LEMMA SnapshotStep == TypeOK /\ SnapshotInv /\ [Next]_vars => SnapshotInv'
<1> SUFFICES ASSUME TypeOK, SnapshotInv, [Next]_vars PROVE SnapshotInv'
  OBVIOUS
<1> USE DEF connections, continuity, candidate, progress, handed
<1>1. CASE Construct
  BY <1>1 DEF Construct, ConnectEvents, ConnectRpc, ConnectFails, Ended, SnapshotInv, CollectingInv,
     SnapshotOneSession, Returned
<1>2. ASSUME NEW call \in {"request", "synchronize", "receive", "reconnect"}, TurnAway(call)
      PROVE  SnapshotInv'
  BY <1>2, NothingReturned DEF TurnAway
<1>3. CASE Close
  BY <1>3, NothingReturned DEF Close
<1>4. ASSUME NEW o \in Outcomes, Request(o) PROVE SnapshotInv'
  <2>1. phase' = "idle"
    BY <1>4 DEF Request, Admitted
  <2>2. \E result : ret' = Ended("request", result)
    BY <1>4 DEF Request, HandleRpcException, ObserveRpcSession
  <2> QED
    BY <2>1, <2>2, NothingReturned
<1>5. ASSUME NEW o \in Outcomes, SyncStep(o) PROVE SnapshotInv'
  <2> DEFINE q == AfterRequest(rpc, o)
  <2>1. SyncAnswer(o, q) \/ SyncDone(o, q) \/ SyncForeign(o, q) \/ SyncFails(o, q)
    BY <1>5 DEF SyncStep
  <2>2. rpc \in RpcObjects /\ q = AfterRequest(rpc, o) /\ CollectingInv
    BY DEF TypeOK, SnapshotInv
  <2> HIDE DEF q
  <2>3. phase = "sync" /\ rpc' = q
    BY <2>1 DEF SyncAnswer, SyncDone, SyncForeign, SyncFails, SyncQuery
  <2>4. CASE SyncAnswer(o, q)
    <3>1. Collect(q, o) /\ phase' = phase
      BY <2>4 DEF SyncAnswer
    <3>2. CollectingInv'
      BY <2>2, <2>3, <3>1, CollectAppend DEF CollectingInv
    <3> QED
      BY <2>3, <3>1, <3>2 DEF SnapshotInv, SnapshotOneSession, Returned
  <2>5. CASE SyncDone(o, q)
    <3>1. Complete(q, o) /\ phase' = "idle" /\ known' = q.session /\ left' = 0
      BY <2>5 DEF SyncDone, Complete
    <3>2. /\ Len(parts') \in QueryCounts
          /\ \A i \in 1..Len(parts') : parts'[i] = q.session
      <4>1. left' + Len(parts') \in QueryCounts /\ \A i \in 1..Len(parts') : parts'[i] = q.session
        BY <2>2, <2>3, <3>1, CollectAppend
      <4>2. parts' \in Seq(Sessions)
        BY <3>1, <2>2, AfterRequestType, CollectType
      <4> QED
        BY <3>1, <4>1, <4>2
    <3> QED
      BY <2>3, <3>1, <3>2 DEF SnapshotInv, CollectingInv, SnapshotOneSession
  <2>6. CASE SyncForeign(o, q)
    BY <2>6, NothingReturned DEF SyncForeign
  <2>7. CASE SyncFails(o, q)
    <3>1. o.kind # "ok" /\ phase' = "idle"
      BY <2>7 DEF SyncFails, QueryVerdict
    <3>2. \E result : result # "ok" /\ ret' = Ended("synchronize", result)
      BY <2>7, <3>1 DEF SyncFails, HandleRpcException, ObserveRpcSession
    <3> QED
      BY <3>1, <3>2, NothingReturned
  <2> QED
    BY <2>1, <2>4, <2>5, <2>6, <2>7
<1>6. ASSUME NEW o \in Outcomes, ReconnectStep(o) PROVE SnapshotInv'
  <2> DEFINE q == AfterRequest(newRpc, o)
  <2>1. ReconnectAnswer(o, q) \/ ReconnectDone(o, q) \/ ReconnectQueryFails(o, q)
    BY <1>6 DEF ReconnectStep
  <2>2. newRpc \in RpcObjects /\ q = AfterRequest(newRpc, o) /\ CollectingInv
    BY DEF TypeOK, SnapshotInv
  <2> HIDE DEF q
  <2>3. phase = "re_sync"
    BY <2>1 DEF ReconnectAnswer, ReconnectDone, ReconnectQueryFails
  <2>4. CASE ReconnectAnswer(o, q)
    <3>1. Collect(q, o) /\ phase' = phase
      BY <2>4 DEF ReconnectAnswer
    <3>2. CollectingInv'
      BY <2>2, <2>3, <3>1, CollectAppend DEF CollectingInv
    <3> QED
      BY <2>3, <3>1, <3>2 DEF SnapshotInv, SnapshotOneSession, Returned
  <2>5. CASE ReconnectDone(o, q)
    <3>1. Complete(q, o) /\ phase' = "idle" /\ known' = q.session /\ left' = 0 /\ rpc' = q
      BY <2>5 DEF ReconnectDone, Complete
    <3>2. /\ Len(parts') \in QueryCounts
          /\ \A i \in 1..Len(parts') : parts'[i] = q.session
      <4>1. left' + Len(parts') \in QueryCounts /\ \A i \in 1..Len(parts') : parts'[i] = q.session
        BY <2>2, <2>3, <3>1, CollectAppend
      <4>2. parts' \in Seq(Sessions)
        BY <3>1, <2>2, AfterRequestType, CollectType
      <4> QED
        BY <3>1, <4>1, <4>2
    <3> QED
      BY <3>1, <3>2 DEF SnapshotInv, CollectingInv, SnapshotOneSession
  <2>6. CASE ReconnectQueryFails(o, q)
    BY <2>6, NothingReturned DEF ReconnectQueryFails, Backout
  <2> QED
    BY <2>1, <2>4, <2>5, <2>6
<1>7. ASSUME NEW o \in Outcomes, RawRequest(o) PROVE SnapshotInv'
  BY <1>7, NothingReturned DEF RawRequest, Raw
<1>8. ASSUME NEW n \in QueryCounts, Synchronize(n) \/ Reconnect(n) PROVE SnapshotInv'
  <2>1. left' = n /\ parts' = <<>> /\ phase' \in {"sync", "re_rpc"}
    BY <1>8 DEF Synchronize, Reconnect, StartCollecting
  <2>2. left' + Len(parts') = n
    BY <2>1 DEF QueryCounts
  <2> QED
    BY <2>1, <2>2 DEF SnapshotInv, CollectingInv, SnapshotOneSession, Returned
<1>9. CASE ReceiveStep
  <2>1. phase' = "idle" /\ \E result : ret' = Ended("receive", result)
    BY <1>9 DEF ReceiveStep, ReceiveLost, ReceiveNothing, ReceiveRefused, ReceiveMalformed,
       ReceiveForeign, ReceiveGap, ReceiveEvent, Receive, Admitted
  <2> QED
    BY <2>1, NothingReturned
<1>10. CASE ReconnectEventsFails
  BY <1>10, NothingReturned DEF ReconnectEventsFails, Admitted
<1>11. CASE ReconnectRpc
  BY <1>11 DEF ReconnectRpc, SnapshotInv, CollectingInv, SnapshotOneSession, Returned
<1>12. CASE ReconnectRpcFails
  BY <1>12, NothingReturned DEF ReconnectRpcFails, Backout
<1>13. CASE RawCloseRpc \/ RawEvents
  BY <1>13, NothingReturned DEF RawCloseRpc, RawEvents, Raw
<1>14. ASSUME NEW call \in {"request", "receive", "reconnect"},
              InterruptCall(call) \/ InterruptSync \/ InterruptReconnect
       PROVE  SnapshotInv'
  BY <1>14, NothingReturned DEF InterruptCall, InterruptSync, InterruptReconnect, Interrupted, Admitted
<1>15. CASE InterruptConstructor \/ DropException
  BY <1>15 DEF InterruptConstructor, Interrupted, DropException, Ended, SnapshotInv, CollectingInv,
     SnapshotOneSession, Returned
<1>16. CASE UNCHANGED vars
  BY <1>16 DEF vars, SnapshotInv, CollectingInv, SnapshotOneSession, Returned
<1> QED
  BY <1>1, <1>2, <1>3, <1>4, <1>5, <1>6, <1>7, <1>8, <1>9, <1>10, <1>11, <1>12, <1>13, <1>14,
     <1>15, <1>16 DEF Next, InterruptStep

\* Every snapshot returned is whole and of one session.
THEOREM SnapshotOneSessionHolds == Spec => []SnapshotOneSession
<1>1. Init => SnapshotInv
  BY DEF Init, Ended, SnapshotInv, CollectingInv, SnapshotOneSession, Returned
<1>2. SnapshotInv => SnapshotOneSession
  BY DEF SnapshotInv
<1> QED
  BY <1>1, <1>2, TypeCorrect, SnapshotStep, PTL DEF Spec

-----------------------------------------------------------------------------
(* Facts about one request *)

\* A request flags a reset exactly when it drops the socket; without an answer
\* and without a reset it leaves the session as it was.
LEMMA AfterRequestFlags ==
    ASSUME NEW r \in RpcObjects, NEW o \in Outcomes, NEW q, q = AfterRequest(r, o)
    PROVE  /\ q.reset <=> o.kind \in {"lost", "protocol"}
           /\ ~q.reset => q.socket = r.socket
           /\ o.kind = "refused" => q.session = r.session
<1>1. o.kind \in Kinds /\ (o.kind \in {"ok", "remote"} => o.session \in Sessions)
  BY OutcomeCases
<1>2. /\ ClearFlags(r) \in RpcObjects /\ ClearFlags(r).session = r.session
      /\ ClearFlags(r).socket = r.socket /\ ClearFlags(r).reset = FALSE
  BY DEF RpcObjects, ClearFlags, SessionChanges
<1>3. CASE o.kind \in {"ok", "remote"}
  <2>1. q = CommitSession(ClearFlags(r), o.session)
    BY <1>3 DEF AfterRequest
  <2>2. q.reset = FALSE /\ q.socket = r.socket
    BY <1>2, <2>1 DEF CommitSession, RpcObjects
  <2> QED
    BY <1>3, <2>2
<1>4. CASE o.kind \in {"lost", "protocol"}
  <2>1. q = DiscardSocket(ClearFlags(r))
    BY <1>4 DEF AfterRequest
  <2>2. q.reset = TRUE
    BY <1>2, <2>1 DEF DiscardSocket, RpcObjects
  <2> QED
    BY <1>4, <2>2
<1>5. CASE o.kind = "refused"
  <2>1. q = ClearFlags(r)
    BY <1>5 DEF AfterRequest
  <2> QED
    BY <1>2, <1>5, <2>1
<1> QED
  BY <1>1, <1>3, <1>4, <1>5 DEF Kinds

\* An answer needs a socket, and a query that is not refused has one.
LEMMA AnswersNeedSockets ==
    ASSUME NEW r, NEW o \in QueryOutcomesOf(r)
    PROVE  /\ o \in Outcomes
           /\ o.kind = "ok" => r.socket
           /\ r.socket => o.kind # "refused"
BY DEF QueryOutcomesOf, OutcomesOf, Outcomes, Answer, Denial, Lost, BadAnswer, Refusal

-----------------------------------------------------------------------------
(* Nothing below HEALTHY *)

\* A client under construction is healthy and knows no session; the event
\* connections that wait to be used are fresh.
ConstructionInv ==
    /\ phase \in {"new_events", "new_rpc"}
           => recovery = "HEALTHY" /\ known = 0 /\ eventSession = 0
    /\ phase = "new_rpc" => events = FreshEvents
    /\ phase \in {"re_rpc", "re_sync"} => newEvents = FreshEvents

\* Every step keeps it.
LEMMA ConstructionStep == ConstructionInv /\ [Next]_vars => ConstructionInv'
<1> SUFFICES ASSUME ConstructionInv, [Next]_vars PROVE ConstructionInv'
  OBVIOUS
<1> USE DEF connections, continuity, candidate
<1>1. CASE Construct
  BY <1>1 DEF Construct, ConnectEvents, ConnectRpc, ConnectFails, ConstructionInv
<1>2. ASSUME NEW call \in {"request", "synchronize", "receive", "reconnect"}, TurnAway(call)
      PROVE  ConstructionInv'
  BY <1>2 DEF TurnAway, ConstructionInv
<1>3. CASE Close
  BY <1>3 DEF Close, ConstructionInv
<1>4. ASSUME NEW o \in Outcomes, Request(o) \/ RawRequest(o) PROVE ConstructionInv'
  BY <1>4 DEF Request, Admitted, Raw, RawRequest, ConstructionInv
<1>5. ASSUME NEW o \in Outcomes, SyncStep(o) PROVE ConstructionInv'
  BY <1>5 DEF SyncStep, SyncAnswer, SyncDone, SyncForeign, SyncFails, SyncQuery, ConstructionInv
<1>6. ASSUME NEW o \in Outcomes, ReconnectStep(o) PROVE ConstructionInv'
  BY <1>6 DEF ReconnectStep, ReconnectAnswer, ReconnectDone, ReconnectQueryFails, Backout,
     ConstructionInv
<1>7. ASSUME NEW n \in QueryCounts, Synchronize(n) \/ Reconnect(n) PROVE ConstructionInv'
  BY <1>7 DEF Synchronize, Reconnect, ConstructionInv
<1>8. CASE ReceiveStep
  BY <1>8 DEF ReceiveStep, ReceiveLost, ReceiveNothing, ReceiveRefused, ReceiveMalformed,
     ReceiveForeign, ReceiveGap, ReceiveEvent, Receive, Admitted, ConstructionInv
<1>9. CASE ReconnectEventsFails \/ ReconnectRpc \/ ReconnectRpcFails
  BY <1>9 DEF ReconnectEventsFails, ReconnectRpc, ReconnectRpcFails, Backout, Admitted,
     ConstructionInv
<1>10. CASE RawCloseRpc \/ RawEvents
  BY <1>10 DEF RawCloseRpc, RawEvents, Raw, ConstructionInv
<1>11. CASE InterruptStep
  BY <1>11 DEF InterruptStep, InterruptCall, InterruptSync, InterruptConstructor,
     InterruptReconnect, DropException, Admitted, ConstructionInv
<1>12. CASE UNCHANGED vars
  BY <1>12 DEF vars, ConstructionInv
<1> QED
  BY <1>1, <1>2, <1>3, <1>4, <1>5, <1>6, <1>7, <1>8, <1>9, <1>10, <1>11, <1>12 DEF Next

\* A client that admits a request or a receive() is open and healthy.
LEMMA AdmittedHealthy ==
    ASSUME TypeOK, NEW call \in {"request", "receive"}, Admitted(call)
    PROVE  phase = "idle" /\ ~closed /\ recovery = "HEALTHY"
BY DEF Admitted, Verdict, TypeOK, RecoveryStates

\* How an observation or a handled exception ends, and that an untroubled end
\* leaves the recovery state alone.
LEMMA ObserveOutcome ==
    ASSUME NEW q, NEW call, NEW result,
           ObserveRpcSession(call, q, result) \/ HandleRpcException(call, q, result)
    PROVE  /\ ret' \in {Ended(call, result), Ended(call, "reconnect")}
           /\ recovery' \in {recovery, "RECONNECT_REQUIRED"}
BY DEF ObserveRpcSession, HandleRpcException

\* A request that ends well after its session was observed degrades nothing.
LEMMA ObserveQuiet ==
    ASSUME NEW q, NEW call, ObserveRpcSession(call, q, "ok"), ret'.result = "ok"
    PROVE  recovery' = recovery
<1>1. CASE SessionConflict(q)
  BY <1>1 DEF ObserveRpcSession, Ended
<1>2. CASE ~SessionConflict(q)
  BY <1>2 DEF ObserveRpcSession
<1> QED
  BY <1>1, <1>2

\* A query that fails without a foreign session was not answered.
LEMMA FailedQuery ==
    ASSUME NEW q, NEW o, QueryVerdict(q, o) \notin {"ok", "reconnect"}
    PROVE  o.kind # "ok" /\ q.change = NoChange
<1>1. q.change = NoChange
  BY DEF QueryVerdict
<1>2. CASE o.kind = "ok" /\ got \notin {0, q.session}
  BY <1>1, <1>2 DEF QueryVerdict
<1>3. CASE o.kind = "ok" /\ got \in {0, q.session}
  BY <1>1, <1>3 DEF QueryVerdict
<1> QED
  BY <1>1, <1>2, <1>3

\* No step hands out data below HEALTHY, except a snapshot.
LEMMA HandsOutStep == TypeOK /\ ConstructionInv /\ [Next]_vars => [HandsOutHealthy]_vars
<1> SUFFICES ASSUME TypeOK, ConstructionInv, Next PROVE HandsOutHealthy
  BY DEF HandsOutHealthy
<1> USE DEF continuity, Ended, HandsOut
<1>1. CASE Construct
  BY <1>1 DEF Construct, ConnectEvents, ConnectRpc, ConnectFails, ConstructionInv, HandsOutHealthy
<1>2. ASSUME NEW call \in {"request", "synchronize", "receive", "reconnect"}, TurnAway(call)
      PROVE  ~HandsOut
  BY <1>2 DEF TurnAway
<1>3. CASE Close
  BY <1>3 DEF Close, HandsOutHealthy
<1>4. ASSUME NEW o \in Outcomes, Request(o) PROVE HandsOutHealthy
  <2> DEFINE q == AfterRequest(rpc, o)
  <2>1. recovery = "HEALTHY"
    BY <1>4, AdmittedHealthy DEF Request
  <2>2. CASE o.kind = "ok"
    <3>1. ObserveRpcSession("request", q, "ok")
      BY <1>4, <2>2 DEF Request
    <3> QED
      BY <2>1, <3>1, ObserveQuiet DEF HandsOutHealthy
  <2>3. CASE o.kind # "ok"
    <3>1. HandleRpcException("request", q, o.kind)
      BY <1>4, <2>3 DEF Request
    <3>2. ret' \in {Ended("request", o.kind), Ended("request", "reconnect")}
      BY <3>1, ObserveOutcome
    <3> QED
      BY <2>3, <3>2 DEF HandsOutHealthy
  <2> QED
    BY <2>2, <2>3
<1>5. ASSUME NEW o \in Outcomes, SyncStep(o) PROVE HandsOutHealthy
  <2> DEFINE q == AfterRequest(rpc, o)
  <2>1. SyncAnswer(o, q) \/ SyncDone(o, q) \/ SyncForeign(o, q) \/ SyncFails(o, q)
    BY <1>5 DEF SyncStep
  <2> HIDE DEF q
  <2>2. CASE SyncAnswer(o, q) \/ SyncDone(o, q) \/ SyncForeign(o, q)
    BY <2>2 DEF SyncAnswer, SyncDone, SyncForeign, SyncQuery, HandsOutHealthy
  <2>3. CASE SyncFails(o, q)
    <3>1. o.kind # "ok"
      BY <2>3, FailedQuery DEF SyncFails
    <3>2. ret' \in {Ended("synchronize", o.kind), Ended("synchronize", "reconnect")}
      BY <2>3, ObserveOutcome DEF SyncFails
    <3> QED
      BY <3>1, <3>2 DEF HandsOutHealthy
  <2> QED
    BY <2>1, <2>2, <2>3
<1>6. ASSUME NEW o \in Outcomes, ReconnectStep(o) PROVE HandsOutHealthy
  BY <1>6 DEF ReconnectStep, ReconnectAnswer, ReconnectDone, ReconnectQueryFails, Backout,
     HandsOutHealthy
<1>7. ASSUME NEW o \in Outcomes, RawRequest(o) PROVE ~HandsOut
  BY <1>7 DEF RawRequest
<1>8. ASSUME NEW n \in QueryCounts, Synchronize(n) \/ Reconnect(n) PROVE ~HandsOut
  BY <1>8 DEF Synchronize, Reconnect
<1>9. CASE ReceiveStep
  <2>1. CASE ReceiveLost \/ ReceiveNothing \/ ReceiveRefused \/ ReceiveMalformed
    BY <2>1 DEF ReceiveLost, ReceiveNothing, ReceiveRefused, ReceiveMalformed, HandsOutHealthy
  <2>2. ASSUME NEW s \in Sessions, ReceiveForeign(s) PROVE HandsOutHealthy
    BY <2>2 DEF ReceiveForeign, HandsOutHealthy
  <2>3. ASSUME NEW s \in Sessions, NEW n \in EventSequences, ReceiveGap(s, n)
        PROVE  HandsOutHealthy
    BY <2>3 DEF ReceiveGap, HandsOutHealthy
  <2>4. ASSUME NEW s \in Sessions, NEW n \in EventSequences, ReceiveEvent(s, n)
        PROVE  HandsOutHealthy
    BY <2>4, AdmittedHealthy DEF ReceiveEvent, Receive, HandsOutHealthy
  <2> QED
    BY <1>9, <2>1, <2>2, <2>3, <2>4 DEF ReceiveStep
<1>10. CASE ReconnectEventsFails \/ ReconnectRpc \/ ReconnectRpcFails
  BY <1>10 DEF ReconnectEventsFails, ReconnectRpc, ReconnectRpcFails, Backout, HandsOutHealthy
<1>11. CASE RawCloseRpc \/ RawEvents
  BY <1>11 DEF RawCloseRpc, RawEvents, HandsOutHealthy
<1>12. CASE InterruptStep
  BY <1>12 DEF InterruptStep, InterruptCall, InterruptSync, InterruptConstructor,
     InterruptReconnect, DropException, Interrupted, HandsOutHealthy
<1> QED
  BY <1>1, <1>2, <1>3, <1>4, <1>5, <1>6, <1>7, <1>8, <1>9, <1>10, <1>11, <1>12
  DEF Next, HandsOutHealthy

\* Initially the client is under construction, and stays healthy until it is.
LEMMA ConstructionHolds == Spec => []ConstructionInv
<1>1. Init => ConstructionInv
  BY DEF Init, ConstructionInv
<1> QED
  BY <1>1, ConstructionStep, PTL DEF Spec

\* No data reaches the caller of a client that is not healthy, except the
\* snapshot that makes it so.
THEOREM NothingWhileDegradedHolds == Spec => NothingWhileDegraded
BY TypeCorrect, ConstructionHolds, HandsOutStep, PTL DEF Spec, NothingWhileDegraded

-----------------------------------------------------------------------------
(* The ladder of recoveries *)

\* Steps that end neither in a degradation nor in a snapshot leave the recovery
\* state alone.
LEMMA RecoverySteps ==
    ASSUME TypeOK, Next
    PROVE  \/ UNCHANGED recovery
           \/ recovery = "HEALTHY"
           \/ \E o \in Outcomes : SyncStep(o) \/ ReconnectStep(o)
<1>1. CASE Construct
  BY <1>1 DEF Construct, ConnectEvents, ConnectRpc, ConnectFails
<1>2. ASSUME NEW call \in {"request", "synchronize", "receive", "reconnect"}, TurnAway(call)
      PROVE  UNCHANGED recovery
  BY <1>2 DEF TurnAway
<1>3. CASE Close
  BY <1>3 DEF Close
<1>4. ASSUME NEW o \in Outcomes, Request(o) PROVE recovery = "HEALTHY"
  BY <1>4, AdmittedHealthy DEF Request
<1>5. ASSUME NEW o \in Outcomes, RawRequest(o) PROVE UNCHANGED recovery
  BY <1>5 DEF RawRequest
<1>6. ASSUME NEW n \in QueryCounts, Synchronize(n) \/ Reconnect(n) PROVE UNCHANGED recovery
  BY <1>6 DEF Synchronize, Reconnect
<1>7. CASE ReceiveStep
  BY <1>7, AdmittedHealthy DEF ReceiveStep, ReceiveLost, ReceiveNothing, ReceiveRefused,
     ReceiveMalformed, ReceiveForeign, ReceiveGap, ReceiveEvent, Receive
<1>8. CASE ReconnectEventsFails \/ ReconnectRpc \/ ReconnectRpcFails
  BY <1>8 DEF ReconnectEventsFails, ReconnectRpc, ReconnectRpcFails, Backout
<1>9. CASE RawCloseRpc \/ RawEvents
  BY <1>9 DEF RawCloseRpc, RawEvents
<1>10. CASE InterruptStep
  BY <1>10 DEF InterruptStep, InterruptCall, InterruptSync, InterruptConstructor,
     InterruptReconnect, DropException
<1> QED
  BY <1>1, <1>2, <1>3, <1>4, <1>5, <1>6, <1>7, <1>8, <1>9, <1>10 DEF Next

\* The pair that a completed reconnect() swaps in is alive and of one session.
LEMMA SwappedPair ==
    ASSUME TypeOK, ConstructionInv, NEW o \in QueryOutcomesOf(newRpc), NEW q,
           q = AfterRequest(newRpc, o), ReconnectDone(o, q)
    PROVE  /\ phase = "re_sync" /\ ret' = Ended("reconnect", "ok")
           /\ rpc'.socket /\ events'.socket /\ ~events'.lost
           /\ known' = rpc'.session /\ eventSession' = 0 /\ lastSeq' = 0
<1>1. /\ phase = "re_sync" /\ ret' = Ended("reconnect", "ok") /\ rpc' = q /\ events' = newEvents
      /\ known' = q.session /\ eventSession' = 0 /\ lastSeq' = 0
  BY DEF ReconnectDone
<1>2. o.kind = "ok"
  BY VerdictOk DEF ReconnectDone, Complete
<1>3. q.socket
  BY <1>2, AnswersNeedSockets, AfterRequestFlags DEF TypeOK
<1>4. events'.socket /\ ~events'.lost
  BY <1>1 DEF ConstructionInv, FreshEvents
<1> QED
  BY <1>1, <1>3, <1>4

\* Every step climbs the ladder by the rungs.
LEMMA LadderStep ==
    TypeOK /\ PhaseInv /\ ConstructionInv /\ [Next]_vars => [LeavesReconnect /\ LeavesResync]_vars
<1> SUFFICES ASSUME TypeOK, PhaseInv, ConstructionInv, Next
             PROVE  LeavesReconnect /\ LeavesResync
  OBVIOUS
<1>1. CASE UNCHANGED recovery \/ recovery = "HEALTHY"
  BY <1>1 DEF LeavesReconnect, LeavesResync
<1>2. ASSUME NEW o \in Outcomes, SyncStep(o) PROVE LeavesReconnect /\ LeavesResync
  <2> DEFINE q == AfterRequest(rpc, o)
  <2>1. SyncAnswer(o, q) \/ SyncDone(o, q) \/ SyncForeign(o, q) \/ SyncFails(o, q)
    BY <1>2 DEF SyncStep
  <2> HIDE DEF q
  <2>2. recovery # "RECONNECT_REQUIRED"
    BY <2>1 DEF SyncAnswer, SyncDone, SyncForeign, SyncFails, SyncQuery, PhaseInv
  <2>3. CASE SyncAnswer(o, q) \/ SyncForeign(o, q)
    BY <2>2, <2>3 DEF SyncAnswer, SyncForeign, LeavesReconnect, LeavesResync
  <2>4. CASE SyncDone(o, q)
    BY <2>2, <2>4 DEF SyncDone, LeavesReconnect, LeavesResync
  <2>5. CASE SyncFails(o, q)
    <3>1. recovery' \in {recovery, "RECONNECT_REQUIRED"}
      BY <2>5, ObserveOutcome DEF SyncFails
    <3> QED
      BY <2>2, <3>1 DEF LeavesReconnect, LeavesResync
  <2> QED
    BY <2>1, <2>3, <2>4, <2>5
<1>3. ASSUME NEW o \in Outcomes, ReconnectStep(o) PROVE LeavesReconnect /\ LeavesResync
  <2> DEFINE q == AfterRequest(newRpc, o)
  <2>1. /\ o \in QueryOutcomesOf(newRpc)
        /\ ReconnectAnswer(o, q) \/ ReconnectDone(o, q) \/ ReconnectQueryFails(o, q)
    BY <1>3 DEF ReconnectStep
  <2>2. CASE ReconnectAnswer(o, q) \/ ReconnectQueryFails(o, q)
    BY <2>2 DEF ReconnectAnswer, ReconnectQueryFails, Backout, LeavesReconnect, LeavesResync
  <2>3. CASE ReconnectDone(o, q)
    BY <2>1, <2>3, SwappedPair DEF LeavesReconnect, LeavesResync
  <2> QED
    BY <2>1, <2>2, <2>3
<1> QED
  BY <1>1, <1>2, <1>3, RecoverySteps

\* The phases tie down a closed client and a running synchronisation.
LEMMA PhaseHolds == Spec => []PhaseInv
<1>1. Init => PhaseInv
  BY DEF Init, PhaseInv
<1> QED
  BY <1>1, PhaseStep, PTL DEF Spec

\* A lost session is left only by a completed reconnect(), a stale one only by
\* a snapshot that drops the sequence baseline.
THEOREM RecoveryLadderHolds == Spec => RecoveryLadder
BY TypeCorrect, PhaseHolds, ConstructionHolds, LadderStep, PTL DEF Spec, RecoveryLadder

-----------------------------------------------------------------------------
(* Usable connections *)

\* The caller may expect the connections to work.
Ready == ~closed /\ phase \in {"idle", "sync", "re_rpc", "re_sync"}
             /\ recovery # "RECONNECT_REQUIRED"

\* Without raw access and interrupts the connections in use stay alive until a reconnection is
\* due, and their session is the known one except inside a collection.
UsableInv ==
    Ready => /\ rpc.socket /\ events.socket /\ ~events.lost
             /\ phase # "sync" => rpc.session = known

\* When a query or a request has been observed and no reconnection is due, its
\* connection is alive and its session is known.
LEMMA ObserveUsable ==
    ASSUME TypeOK, NEW o \in Outcomes, NEW q, q = AfterRequest(rpc, o), NEW call,
           rpc.socket,
           ObserveRpcSession(call, q, o.kind) \/ HandleRpcException(call, q, o.kind),
           o.kind = "ok" => ObserveRpcSession(call, q, o.kind),
           o.kind # "ok" => HandleRpcException(call, q, o.kind),
           o.kind = "refused" => rpc.session = known,
           recovery' # "RECONNECT_REQUIRED"
    PROVE  q.socket /\ q.session = known'
<1>1. q \in RpcObjects /\ (o.kind \in {"ok", "remote"} => q.session \in Sessions)
  BY AfterRequestType, OutcomeCases DEF TypeOK
<1>2. ~q.reset
  <2>1. CASE o.kind = "ok"
    BY <2>1, AfterRequestFlags DEF TypeOK
  <2>2. CASE o.kind # "ok"
    BY <2>2 DEF HandleRpcException
  <2> QED
    BY <2>1, <2>2
<1>3. q.socket
  BY <1>2, AfterRequestFlags DEF TypeOK
<1>4. ObserveRpcSession(call, q, o.kind) /\ ~SessionConflict(q)
  BY <1>2 DEF HandleRpcException, ObserveRpcSession
<1>5. known' = IF q.session = 0 THEN known ELSE q.session
  BY <1>4 DEF ObserveRpcSession
<1>6. CASE o.kind \in {"ok", "remote"}
  BY <1>1, <1>3, <1>5, <1>6, SessionsNonZero
<1>7. CASE o.kind = "refused"
  <2>1. q.session = known
    BY <1>7, AfterRequestFlags DEF TypeOK
  <2> QED
    BY <1>3, <1>5, <2>1
<1>8. o.kind \in {"ok", "remote", "refused"}
  <2>1. o.kind \notin {"lost", "protocol"}
    BY <1>2, AfterRequestFlags DEF TypeOK
  <2> QED
    BY <2>1, OutcomeCases DEF Kinds
<1> QED
  BY <1>6, <1>7, <1>8

\* Every step keeps the connections usable.
LEMMA UsableStep ==
    /\ ~RawAccess /\ ~Interrupts /\ orphans = 0
    /\ TypeOK /\ PhaseInv /\ ConstructionInv /\ UsableInv /\ [Next]_vars
    => UsableInv'
<1> SUFFICES ASSUME ~RawAccess, ~Interrupts, orphans = 0, TypeOK, PhaseInv, ConstructionInv, UsableInv, [Next]_vars, Ready'
             PROVE  /\ rpc'.socket /\ events'.socket /\ ~events'.lost
                    /\ phase' # "sync" => rpc'.session = known'
  BY DEF UsableInv
<1> USE DEF connections, continuity, candidate
<1>1. CASE Construct
  BY <1>1 DEF Construct, ConnectEvents, ConnectRpc, ConnectFails, ConstructionInv, Ready,
     FreshRpc, FreshEvents
<1>2. ASSUME UNCHANGED <<closed, rpc, events, known, recovery>>,
             phase \in {"idle", "re_rpc", "re_sync"}
      PROVE  /\ rpc'.socket /\ events'.socket /\ ~events'.lost
             /\ phase' # "sync" => rpc'.session = known'
  BY <1>2 DEF UsableInv, Ready
<1>3. ASSUME NEW call \in {"request", "synchronize", "receive", "reconnect"}, TurnAway(call)
      PROVE  UNCHANGED <<closed, rpc, events, known, recovery>> /\ phase = "idle"
  BY <1>3 DEF TurnAway
<1>4. ~Close
  BY DEF Close, Ready
<1>5. ASSUME NEW o \in Outcomes, Request(o)
      PROVE  rpc'.socket /\ events'.socket /\ ~events'.lost /\ rpc'.session = known'
  <2>1. phase = "idle" /\ ~closed /\ recovery = "HEALTHY"
    BY <1>5, AdmittedHealthy DEF Request
  <2>2. rpc.socket /\ events.socket /\ ~events.lost /\ rpc.session = known
    BY <2>1 DEF UsableInv, Ready
  <2>3. rpc' = AfterRequest(rpc, o) /\ events' = events
    BY <1>5 DEF Request
  <2>4. IF o.kind = "ok" THEN ObserveRpcSession("request", rpc', "ok")
                         ELSE HandleRpcException("request", rpc', o.kind)
    BY <1>5 DEF Request
  <2>5. recovery' # "RECONNECT_REQUIRED"
    BY DEF Ready
  <2> QED
    BY <2>2, <2>3, <2>4, <2>5, ObserveUsable
<1>6. ASSUME NEW o \in Outcomes, SyncStep(o)
      PROVE  /\ rpc'.socket /\ events'.socket /\ ~events'.lost
             /\ phase' # "sync" => rpc'.session = known'
  <2> DEFINE q == AfterRequest(rpc, o)
  <2>1. /\ o \in QueryOutcomesOf(rpc)
        /\ SyncAnswer(o, q) \/ SyncDone(o, q) \/ SyncForeign(o, q) \/ SyncFails(o, q)
    BY <1>6 DEF SyncStep
  <2>2. /\ phase = "sync" /\ rpc' = q /\ events' = events /\ closed' = closed
        /\ recovery' # "RECONNECT_REQUIRED"
    BY <2>1 DEF SyncAnswer, SyncDone, SyncForeign, SyncFails, SyncQuery, Ready
  <2> HIDE DEF q
  <2>3. rpc.socket /\ events.socket /\ ~events.lost
    BY <2>2 DEF UsableInv, Ready, PhaseInv
  <2>4. CASE SyncAnswer(o, q) \/ SyncDone(o, q)
    <3>1. o.kind = "ok"
      BY <2>4, VerdictOk DEF SyncAnswer, SyncDone, Collect, Complete
    <3>2. q.socket
      BY <2>3, <3>1, AfterRequestFlags DEF TypeOK, q
    <3>3. phase' # "sync" => known' = q.session
      BY <2>2, <2>4 DEF SyncAnswer, SyncDone
    <3> QED
      BY <2>2, <2>3, <3>2, <3>3
  <2>5. CASE SyncFails(o, q)
    <3>1. o.kind # "ok" /\ HandleRpcException("synchronize", q, o.kind)
      BY <2>5, FailedQuery DEF SyncFails
    <3>2. o.kind # "refused"
      BY <2>1, <2>3, AnswersNeedSockets
    <3>3. q.socket /\ q.session = known'
      BY <2>2, <2>3, <3>1, <3>2, ObserveUsable DEF q
    <3> QED
      BY <2>2, <2>3, <3>3
  <2> QED
    BY <2>1, <2>2, <2>4, <2>5 DEF SyncForeign
<1>7. ASSUME NEW o \in Outcomes, ReconnectStep(o)
      PROVE  /\ rpc'.socket /\ events'.socket /\ ~events'.lost
             /\ phase' # "sync" => rpc'.session = known'
  <2> DEFINE q == AfterRequest(newRpc, o)
  <2>1. /\ o \in QueryOutcomesOf(newRpc)
        /\ ReconnectAnswer(o, q) \/ ReconnectDone(o, q) \/ ReconnectQueryFails(o, q)
    BY <1>7 DEF ReconnectStep
  <2>2. CASE ReconnectAnswer(o, q) \/ ReconnectQueryFails(o, q)
    BY <1>2, <2>2 DEF ReconnectAnswer, ReconnectQueryFails, Backout
  <2>3. CASE ReconnectDone(o, q)
    BY <2>1, <2>3, SwappedPair
  <2> QED
    BY <2>1, <2>2, <2>3
<1>8. ASSUME NEW n \in QueryCounts, Synchronize(n) \/ Reconnect(n)
      PROVE  UNCHANGED <<closed, rpc, events, known, recovery>> /\ phase = "idle"
  BY <1>8 DEF Synchronize, Reconnect, Admitted
<1>9. CASE ReceiveStep
  <2>1. phase = "idle" /\ ~closed /\ recovery = "HEALTHY"
    BY <1>9, AdmittedHealthy DEF ReceiveStep, ReceiveLost, ReceiveNothing, ReceiveRefused,
       ReceiveMalformed, ReceiveForeign, ReceiveGap, ReceiveEvent, Receive
  <2>2. ~ReceiveLost
    BY DEF ReceiveLost, Ready
  <2>3. UNCHANGED <<rpc, events, known>>
    BY <1>9, <2>2 DEF ReceiveStep, ReceiveNothing, ReceiveRefused, ReceiveMalformed,
       ReceiveForeign, ReceiveGap, ReceiveEvent
  <2> QED
    BY <2>1, <2>3 DEF UsableInv, Ready
<1>10. ASSUME ReconnectEventsFails \/ ReconnectRpc \/ ReconnectRpcFails
       PROVE  UNCHANGED <<closed, rpc, events, known, recovery>> /\ phase \in {"idle", "re_rpc"}
  BY <1>10 DEF ReconnectEventsFails, ReconnectRpc, ReconnectRpcFails, Backout, Admitted
<1>11. ~RawCloseRpc /\ ~RawEvents /\ \A o \in Outcomes : ~RawRequest(o)
  BY DEF RawCloseRpc, RawEvents, RawRequest, Raw
<1>12. ~InterruptStep
  BY DEF InterruptStep, InterruptCall, InterruptSync, InterruptConstructor,
     InterruptReconnect, DropException, Interrupted, Dropped
<1>13. CASE UNCHANGED vars
  BY <1>13 DEF vars, UsableInv, Ready
<1> QED
  BY <1>1, <1>2, <1>3, <1>4, <1>5, <1>6, <1>7, <1>8, <1>9, <1>10, <1>11, <1>12, <1>13 DEF Next

\* A caller that leaves the low-level objects alone and interrupts no call can
\* rely on recovery_state: unless it asks for a reconnection, both connections
\* are up and of one session.
THEOREM UsableConnectionsHolds == ~RawAccess /\ ~Interrupts => (Spec => []UsableConnections)
<1> SUFFICES ASSUME ~RawAccess, ~Interrupts PROVE Spec => []UsableConnections
  OBVIOUS
<1>1. Init => UsableInv /\ SessionInv
  BY DEF Init, UsableInv, Ready, SessionInv
<1>2. UsableInv /\ SessionInv => UsableConnections
  BY DEF UsableInv, Ready, SessionInv, UsableConnections
<1>3. NoSocketLeak => orphans = 0
  BY DEF NoSocketLeak
<1>4. /\ TypeOK /\ PhaseInv /\ ConstructionInv /\ orphans = 0
      /\ UsableInv /\ [Next]_vars
      => UsableInv'
  BY UsableStep
<1> QED
  BY <1>1, <1>2, <1>3, <1>4, TypeCorrect, NoSocketLeakHolds, PhaseHolds, ConstructionHolds,
     SessionStep, PTL DEF Spec
=============================================================================
