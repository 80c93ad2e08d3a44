-------------------------- MODULE BridgeConnections --------------------------
(***************************************************************************)
(* The two low-level objects a BridgeClient owns, as far as it can see     *)
(* them: what one call leaves behind in a BridgeRpcClient or in a          *)
(* BridgeEventSubscriber.  The calls themselves are nondeterministic here; *)
(* an outcome names everything the remote side may have done to one call.  *)
(***************************************************************************)
EXTENDS BridgeWire

-----------------------------------------------------------------------------
(* BridgeRpcClient *)

NoChange == <<0, 0>>            \* session_change is None
SessionChanges == {NoChange} \cup (Sessions \X Sessions)

RpcObjects == [ socket  : BOOLEAN,          \* a WebSocket is attached
                session : MaybeSessions,    \* session_id, 0 before an answer
                change  : SessionChanges,   \* session_change
                reset   : BOOLEAN ]         \* transport_reset

FreshRpc == [socket |-> TRUE, session |-> 0, change |-> NoChange, reset |-> FALSE]
NoRpc == [FreshRpc EXCEPT !.socket = FALSE]

(***************************************************************************)
(* What one request() may meet: a success or an error response of some     *)
(* session, a lost transport (timeout, close frame, socket error), an      *)
(* answer that violates the protocol, or a refusal before anything is sent *)
(* (closed object, untyped or invalid request).                            *)
(***************************************************************************)
Answer(s)  == [kind |-> "ok", session |-> s]
Denial(s)  == [kind |-> "remote", session |-> s]
Lost       == [kind |-> "lost", session |-> 0]
BadAnswer  == [kind |-> "protocol", session |-> 0]
Refusal    == [kind |-> "refused", session |-> 0]

Outcomes == {Answer(s) : s \in Sessions} \cup {Denial(s) : s \in Sessions}
                \cup {Lost, BadAnswer, Refusal}

\* Without a socket a request can only be refused.
OutcomesOf(r) == IF r.socket THEN Outcomes ELSE {Refusal}

\* Seeded fault: the first session ever seen is reported as a change.
Fault_CommitSession(r, s) ==
    [r EXCEPT !.change = IF r.session # s THEN <<r.session, s>> ELSE NoChange,
              !.session = s]

CommitSession(r, s) ==
    [r EXCEPT !.change = IF r.session \notin {0, s} THEN <<r.session, s>> ELSE NoChange,
              !.session = s]

DiscardSocket(r) == [r EXCEPT !.socket = FALSE, !.reset = TRUE]

\* request() forgets both flags of the previous call before anything else.
ClearFlags(r) == [r EXCEPT !.change = NoChange, !.reset = FALSE]

\* The object after one request() that met outcome o.
AfterRequest(r, o) ==
    CASE o.kind \in {"ok", "remote"}     -> CommitSession(ClearFlags(r), o.session)
      [] o.kind \in {"lost", "protocol"} -> DiscardSocket(ClearFlags(r))
      [] o.kind = "refused"              -> ClearFlags(r)

-----------------------------------------------------------------------------
(* BridgeEventSubscriber *)

EventObjects == [ socket : BOOLEAN,     \* a WebSocket is attached
                  lost   : BOOLEAN ]    \* _connection_lost_message is not None

FreshEvents == [socket |-> TRUE, lost |-> FALSE]
NoEvents == [FreshEvents EXCEPT !.socket = FALSE]

-----------------------------------------------------------------------------
(* Sockets *)

\* How many operating-system sockets an object holds.  A lost event
\* connection keeps its socket until close().
Held(object) == IF object.socket THEN 1 ELSE 0
=============================================================================
