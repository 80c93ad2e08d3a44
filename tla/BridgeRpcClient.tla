--------------------------- MODULE BridgeRpcClient ---------------------------
(***************************************************************************)
(* rpc.BridgeRpcClient on one WebSocket, with the Bridge at the other end. *)
(* A request is sent and then waited for; while it is waited for the       *)
(* Bridge may answer, deny, answer nonsense, move to another session, stop *)
(* or stay silent, and the caller's process may be interrupted (a          *)
(* KeyboardInterrupt leaves request() without running any handler).        *)
(***************************************************************************)
EXTENDS BridgeConnections, Sequences

CONSTANTS
    Methods,        \* the methods the caller uses
    MaxCalls,       \* bound: requests sent in a behaviour
    MaxInterrupts   \* bound: interrupts in a behaviour

QueryResults ==
    [ GET_TIMER_STATE     |-> "TimerState",
      GET_RUN             |-> "RunState",
      GET_RUN_ICONS       |-> "RunIcons",
      GET_ATTEMPT         |-> "AttemptState",
      GET_CONTEXT_STATE   |-> "ContextState",
      GET_COMPLETED_COUNT |-> "CompletedCount" ]

Controls == {"TIMER", "GAME_TIME"}

ResultTypes == {"None", "TimerState", "RunState", "RunIcons", "AttemptState", "ContextState",
                "CompletedCount"}

\* The type of result a method asks for; a control is answered with None.
ExpectedResult(m) == IF m \in Controls THEN "None" ELSE QueryResults[m]

\* An identifier stands for one unread answer only as long as fewer requests
\* are abandoned on a socket than there are identifiers.
ASSUME RpcAssumption ==
    /\ Methods \subseteq DOMAIN QueryResults \cup Controls
    /\ MaxCalls \in Nat
    /\ MaxInterrupts \in 0..UINT32_MAX

VARIABLES
    object,         \* socket, session_id, session_change, transport_reset
    nextId,         \* _next_request_id
    pending,        \* the request being waited for
    ret,            \* the request that ended last and how
    wire,           \* requests on their way to the Bridge
    inbox,          \* frames on their way to the client
    bridge,         \* the Bridge's session
    up,             \* the Bridge keeps its end of the connection
    (* history *)
    executed,       \* how often each call was executed
    interrupts

client == <<object, nextId, pending, ret>>
vars == <<client, wire, inbox, bridge, up, executed, interrupts>>

CallIds == 1..MaxCalls

Request(c, id, m) == [call |-> c, id |-> id, method |-> m]
NoRequest == Request(0, 0, "none")

\* A response; "bad" is a binary frame or text that is no valid response.
Frame(kind, c, id, result, s) ==
    [kind |-> kind, call |-> c, id |-> id, result |-> result, session |-> s]
NoFrame == Frame("bad", 0, 0, "None", 0)

Requests == [call : 0..MaxCalls, id : RequestIds, method : Methods \cup {"none"}]
Frames == [kind : {"ok", "remote", "bad"}, call : 0..MaxCalls, id : RequestIds,
           result : ResultTypes, session : MaybeSessions]

\* How a request ended: with an accepted response, or without one.
Ended(kind, request, frame) == [kind |-> kind, request |-> request, frame |-> frame]

Init ==
    /\ object = FreshRpc
    /\ nextId = 1
    /\ pending = NoRequest
    /\ ret = Ended("none", NoRequest, NoFrame)
    /\ wire = <<>>
    /\ inbox = <<>>
    /\ bridge \in Sessions
    /\ up = TRUE
    /\ executed = [c \in CallIds |-> 0]
    /\ interrupts = 0

-----------------------------------------------------------------------------
(* request() up to the wait *)

Idle == pending = NoRequest
LastCall == IF Idle THEN ret.request.call ELSE pending.call

\* A closed client, or a request that fails its revalidation: nothing is sent,
\* ret keeps the call that was sent last.
Refuse ==
    /\ Idle
    /\ object' = ClearFlags(object)
    /\ ret' = [ret EXCEPT !.kind = "refused", !.frame = NoFrame]
    /\ UNCHANGED <<nextId, pending, wire, inbox, bridge, up, executed, interrupts>>

Submit(m) ==
    /\ Idle
    /\ object.socket
    /\ LastCall < MaxCalls
    /\ object' = ClearFlags(object)
    /\ pending' = Request(LastCall + 1, nextId, m)
    /\ nextId' = NextRequestId(nextId)
    /\ wire' = IF up THEN Append(wire, pending') ELSE wire
    /\ UNCHANGED <<ret, inbox, bridge, up, executed, interrupts>>

-----------------------------------------------------------------------------
(* The wait *)

\* Seeded fault: the socket survives, only the flag is set.
Fault_Discard(kind) ==
    /\ object' = [object EXCEPT !.reset = TRUE]
    /\ pending' = NoRequest
    /\ ret' = Ended(kind, pending, NoFrame)
    /\ UNCHANGED <<nextId, inbox, bridge, up, executed, interrupts>>

\* The socket goes, and with it every frame that was still to be read.
Discard(kind) ==
    /\ object' = DiscardSocket(object)
    /\ inbox' = <<>>
    /\ pending' = NoRequest
    /\ ret' = Ended(kind, pending, NoFrame)
    /\ UNCHANGED <<nextId, bridge, up, executed, interrupts>>

\* Seeded fault: a timed out request is sent once more.
Fault_TransportLost ==
    /\ ~Idle
    /\ wire' = Append(wire, pending)
    /\ UNCHANGED <<client, inbox, bridge, up, executed, interrupts>>

\* The timeout passes, whether or not an answer is on its way, or the
\* connection turns out to be gone.
TransportLost ==
    /\ ~Idle
    /\ Discard("lost")
    /\ UNCHANGED wire

\* Seeded fault: any answer of the right type is taken for the answer.
Fault_Matches(frame, request) ==
    /\ frame.kind # "bad"
    /\ frame.kind = "ok" => frame.result = ExpectedResult(request.method)

\* The checks a frame must pass to be the response to the pending request.
Matches(frame, request) ==
    /\ frame.kind # "bad"
    /\ frame.id = request.id
    /\ frame.kind = "ok" => frame.result = ExpectedResult(request.method)

Accept ==
    /\ ~Idle
    /\ inbox # <<>>
    /\ Matches(Head(inbox), pending)
    /\ object' = CommitSession(object, Head(inbox).session)
    /\ inbox' = Tail(inbox)
    /\ pending' = NoRequest
    /\ ret' = Ended(Head(inbox).kind, pending, Head(inbox))
    /\ UNCHANGED <<nextId, wire, bridge, up, executed, interrupts>>

\* Seeded fault: the session is committed before the response is checked.
Fault_Reject ==
    /\ ~Idle
    /\ inbox # <<>>
    /\ ~Matches(Head(inbox), pending)
    /\ object' = DiscardSocket(CommitSession(object, Head(inbox).session))
    /\ inbox' = <<>>
    /\ pending' = NoRequest
    /\ ret' = Ended("protocol", pending, NoFrame)
    /\ UNCHANGED <<nextId, wire, bridge, up, executed, interrupts>>

Reject ==
    /\ ~Idle
    /\ inbox # <<>>
    /\ ~Matches(Head(inbox), pending)
    /\ Discard("protocol")
    /\ UNCHANGED wire

\* The wait ends without a handler: the answer stays unread.
Interrupt ==
    /\ ~Idle
    /\ interrupts < MaxInterrupts
    /\ interrupts' = interrupts + 1
    /\ pending' = NoRequest
    /\ ret' = Ended("interrupted", pending, NoFrame)
    /\ UNCHANGED <<object, nextId, wire, inbox, bridge, up, executed>>

Close ==
    /\ Idle
    /\ object.socket
    /\ object' = [object EXCEPT !.socket = FALSE]
    /\ inbox' = <<>>
    /\ UNCHANGED <<nextId, pending, ret, wire, bridge, up, executed, interrupts>>

-----------------------------------------------------------------------------
(* The Bridge *)

Reply(frame) == inbox' = IF object.socket THEN Append(inbox, frame) ELSE inbox

\* The Bridge takes the next request from the wire.
Take ==
    /\ up
    /\ wire # <<>>
    /\ wire' = Tail(wire)
    /\ UNCHANGED <<client, bridge, up, interrupts>>

Execute(request) == executed' = [executed EXCEPT ![request.call] = @ + 1]

Serve ==
    /\ Take
    /\ Execute(Head(wire))
    /\ Reply(Frame("ok", Head(wire).call, Head(wire).id, ExpectedResult(Head(wire).method), bridge))

Deny ==
    /\ Take
    /\ Reply(Frame("remote", Head(wire).call, Head(wire).id, "None", bridge))
    /\ UNCHANGED executed

\* The Bridge answers something else than it was asked for.
Garble ==
    /\ Take
    /\ Execute(Head(wire))
    /\ \E kind \in {"ok", "bad"}, result \in ResultTypes :
          Reply(Frame(kind, Head(wire).call, Head(wire).id, result, bridge))

\* The request is executed, or not, and no answer is sent.
Silence ==
    /\ Take
    /\ Execute(Head(wire)) \/ UNCHANGED executed
    /\ UNCHANGED inbox

ChangeSession ==
    /\ up
    /\ bridge' \in Sessions \ {bridge}
    /\ UNCHANGED <<client, wire, inbox, up, executed, interrupts>>

Stop ==
    /\ up
    /\ up' = FALSE
    /\ wire' = <<>>
    /\ UNCHANGED <<client, inbox, bridge, executed, interrupts>>

-----------------------------------------------------------------------------
(* The specification *)

Next ==
    \/ Refuse
    \/ \E m \in Methods : Submit(m)
    \/ TransportLost \/ Accept \/ Reject \/ Interrupt \/ Close
    \/ Serve \/ Deny \/ Garble \/ Silence \/ ChangeSession \/ Stop

Spec == Init /\ [][Next]_vars

-----------------------------------------------------------------------------
(* Properties *)

TypeOK ==
    /\ object \in RpcObjects
    /\ nextId \in RequestIds
    /\ pending \in Requests
    /\ ret \in [kind : {"none", "ok", "remote", "lost", "protocol", "refused", "interrupted"},
                request : Requests, frame : Frames]
    /\ wire \in Seq(Requests)
    /\ inbox \in Seq(Frames)
    /\ bridge \in Sessions
    /\ up \in BOOLEAN
    /\ executed \in [CallIds -> Nat]
    /\ interrupts \in 0..MaxInterrupts

\* A response handed to the caller is the Bridge's response to that very
\* request, has the type the method asks for, and reports the session the
\* object reports: unread answers of interrupted requests are never taken for
\* it, not even when the identifiers have wrapped around (rpc.py request).
AnswerMatchesCall ==
    ret.kind \in {"ok", "remote"} /\ Idle
        => /\ ret.frame.call = ret.request.call
           /\ ret.kind = "ok" => ret.frame.result = ExpectedResult(ret.request.method)
           /\ object.session = ret.frame.session

\* A request is executed at most once, however it ends, and what the caller is
\* told of it is true: a success was executed, a remote error was not, even if
\* the Bridge gets round to older requests later (README: controls are never
\* resent automatically).
ToldTheTruth ==
    /\ \A c \in CallIds : executed[c] <= 1
    /\ Idle /\ ret.kind = "ok" => executed[ret.request.call] = 1
    /\ Idle /\ ret.kind = "remote" => executed[ret.request.call] = 0

\* After a request that ended without a response the transport is flagged as
\* reset and is gone, so that a late answer has nowhere to arrive.
NoLateAnswer ==
    /\ ret.kind \in {"lost", "protocol"} /\ Idle => object.reset /\ ~object.socket
    /\ ~object.socket => inbox = <<>>

\* Seen from BridgeClient every request is one outcome of BridgeConnections.
Outcome == INSTANCE RpcOutcomes

OutcomeSpec == Outcome!Spec
=============================================================================
