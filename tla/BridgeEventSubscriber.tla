------------------------ MODULE BridgeEventSubscriber ------------------------
(***************************************************************************)
(* events.BridgeEventSubscriber on one WebSocket, with the Bridge          *)
(* publishing at the other end.  Frames arrive in the order they were      *)
(* sent; what the subscriber adds is what a timeout, a bad frame and a     *)
(* lost connection do to the frames around them.                           *)
(***************************************************************************)
EXTENDS Naturals, Sequences

CONSTANT MaxSent        \* bound: frames the Bridge sends in a behaviour

ASSUME SubscriberAssumption == MaxSent \in Nat

VARIABLES
    socket,         \* a WebSocket is attached
    message,        \* _connection_lost_message, "none" for None
    ret,            \* how the last receive() ended
    inbox,          \* frames sent and not yet read
    up,             \* the Bridge keeps its end of the connection
    (* history *)
    sent,           \* frames sent, TRUE for an event and FALSE for a bad frame
    taken           \* frames the caller was told of, by an event or an error

vars == <<socket, message, ret, inbox, up, sent, taken>>

Lost == message # "none"

Messages == {"none", "closed", "failed"}

Init ==
    /\ socket = TRUE
    /\ message = "none"
    /\ ret = "none"
    /\ inbox = <<>>
    /\ up = TRUE
    /\ sent = <<>>
    /\ taken = <<>>

-----------------------------------------------------------------------------
(* receive(), and __next__(), which calls it until it returns an event *)

\* A closed subscriber, or a negative timeout once the loss is ruled out.
Refuse ==
    /\ ~socket \/ ~Lost
    /\ ret' = "refused"
    /\ UNCHANGED <<socket, message, inbox, up, sent, taken>>

Readable == socket /\ ~Lost

\* The loss was noticed by an earlier call: it is reported again, unread
\* frames or not.
StillLost ==
    /\ socket /\ Lost
    /\ ret' = message
    /\ UNCHANGED <<socket, message, inbox, up, sent, taken>>

\* Seeded fault: what the timeout interrupts is thrown away.
Fault_Timeout ==
    /\ Readable
    /\ ret' = "none"
    /\ inbox' = IF inbox = <<>> THEN inbox ELSE Tail(inbox)
    /\ UNCHANGED <<socket, message, up, sent, taken>>

\* The wait ends first; a frame on its way stays readable.
Timeout ==
    /\ Readable
    /\ ret' = "none"
    /\ UNCHANGED <<socket, message, inbox, up, sent, taken>>

TakeEvent ==
    /\ Readable
    /\ inbox # <<>> /\ Head(inbox)
    /\ ret' = "event"
    /\ inbox' = Tail(inbox)
    /\ taken' = Append(taken, Head(inbox))
    /\ UNCHANGED <<socket, message, up, sent>>

\* Seeded fault: a frame that cannot be decoded is left to be read again.
Fault_TakeBad ==
    /\ Readable
    /\ inbox # <<>> /\ ~Head(inbox)
    /\ ret' = "protocol"
    /\ UNCHANGED <<socket, message, inbox, up, sent, taken>>

\* Binary, unsupported or malformed: the frame is read and reported.
TakeBad ==
    /\ Readable
    /\ inbox # <<>> /\ ~Head(inbox)
    /\ ret' = "protocol"
    /\ inbox' = Tail(inbox)
    /\ taken' = Append(taken, Head(inbox))
    /\ UNCHANGED <<socket, message, up, sent>>

\* Seeded fault: the loss is reported and forgotten.
Fault_ConnectionLost(cause) ==
    /\ ret' = cause
    /\ UNCHANGED <<socket, message>>

\* Seeded fault: what the previous call said is stored.
Fault_StaleMessage(cause) ==
    /\ message' = IF message = "none" THEN ret ELSE message
    /\ ret' = cause
    /\ UNCHANGED socket

\* _connection_lost(): the first message is kept.
ConnectionLost(cause) ==
    /\ message' = IF message = "none" THEN cause ELSE message
    /\ ret' = cause
    /\ UNCHANGED socket

\* Seeded fault: the close frame is reported as one more unsupported frame.
Fault_NoticeClose ==
    /\ Readable
    /\ ~up /\ inbox = <<>>
    /\ ret' = "protocol"
    /\ UNCHANGED <<socket, message, inbox, up, sent, taken>>

\* The Bridge's close is read behind all it sent; a broken connection is
\* noticed at once.
NoticeClose ==
    /\ Readable
    /\ ~up /\ inbox = <<>>
    /\ ConnectionLost("closed")
    /\ UNCHANGED <<inbox, up, sent, taken>>

NoticeFailure ==
    /\ Readable
    /\ ConnectionLost("failed")
    /\ UNCHANGED <<inbox, up, sent, taken>>

Close ==
    /\ socket
    /\ socket' = FALSE
    /\ inbox' = <<>>
    /\ UNCHANGED <<message, ret, up, sent, taken>>

-----------------------------------------------------------------------------
(* The Bridge *)

Publish(good) ==
    /\ up
    /\ Len(sent) < MaxSent
    /\ sent' = Append(sent, good)
    /\ inbox' = IF socket THEN Append(inbox, good) ELSE inbox
    /\ UNCHANGED <<socket, message, ret, up, taken>>

Stop ==
    /\ up
    /\ up' = FALSE
    /\ UNCHANGED <<socket, message, ret, inbox, sent, taken>>

-----------------------------------------------------------------------------
(* The specification: a caller that keeps receiving *)

Next ==
    \/ Refuse \/ StillLost \/ Timeout \/ TakeEvent \/ TakeBad
    \/ NoticeClose \/ NoticeFailure \/ Close
    \/ Publish(TRUE) \/ Publish(FALSE)
    \/ Stop

\* recv_data() returns what has arrived before it times out, so a caller that
\* iterates reads every readable frame and the close behind the last one.
Fairness == WF_vars(TakeEvent) /\ WF_vars(TakeBad) /\ WF_vars(NoticeClose)

Spec == Init /\ [][Next]_vars /\ Fairness

-----------------------------------------------------------------------------
(* Properties *)

TypeOK ==
    /\ socket \in BOOLEAN
    /\ message \in Messages
    /\ ret \in {"none", "event", "protocol", "refused", "closed", "failed"}
    /\ inbox \in Seq(BOOLEAN)
    /\ up \in BOOLEAN
    /\ sent \in Seq(BOOLEAN)
    /\ taken \in Seq(BOOLEAN)

\* The caller is told of every frame in the order sent: neither a timeout nor a
\* bad frame makes a later one overtake or swallow an earlier one.
ToldInOrder ==
    /\ Len(taken) <= Len(sent)
    /\ \A i \in 1..Len(taken) : taken[i] = sent[i]
    /\ socket => taken \o inbox = sent

\* Once a receive() has reported the loss every later one reports the same, and
\* no frame that arrived before is handed out any more.
LossIsFinal ==
    [][socket /\ ret \in {"closed", "failed"}
          => (ret' = ret /\ taken' = taken)]_vars

\* A caller that keeps receiving is told of every frame sent, or that the
\* connection is lost, unless it closes the subscriber itself.
EverythingTold ==
    \A n \in 1..MaxSent :
        Len(sent) = n ~> Len(taken) >= n \/ Lost \/ ~socket

\* A close by the Bridge is noticed.
CloseNoticed == ~up ~> Lost \/ ~socket
=============================================================================
