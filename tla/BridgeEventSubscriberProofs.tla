--------------------- MODULE BridgeEventSubscriberProofs ---------------------
(***************************************************************************)
(* Proofs about BridgeEventSubscriber for every number of frames: frames   *)
(* are told in order, and a loss is final.                                 *)
(***************************************************************************)
EXTENDS BridgeEventSubscriber, TLAPS

-----------------------------------------------------------------------------
(* Facts about sequences *)

\* Moving the head of one sequence to the end of another keeps what they are
\* together.
LEMMA MoveHead ==
    ASSUME NEW S, NEW a \in Seq(S), NEW b \in Seq(S), b # <<>>
    PROVE  Append(a, Head(b)) \o Tail(b) = a \o b
<1>1. /\ Head(b) \in S /\ Tail(b) \in Seq(S) /\ Append(a, Head(b)) \in Seq(S)
      /\ Len(Tail(b)) = Len(b) - 1 /\ Len(b) \in Nat \ {0} /\ Len(a) \in Nat
  OBVIOUS
<1> DEFINE moved == Append(a, Head(b)) \o Tail(b)
<1>2. moved \in Seq(S) /\ a \o b \in Seq(S) /\ Len(moved) = Len(a \o b)
  BY <1>1
<1>3. ASSUME NEW i \in 1..Len(a \o b) PROVE moved[i] = (a \o b)[i]
  <2>1. CASE i <= Len(a)
    BY <1>1, <2>1
  <2>2. CASE i = Len(a) + 1
    BY <1>1, <2>2
  <2>3. CASE i > Len(a) + 1
    BY <1>1, <2>3
  <2> QED
    BY <1>1, <2>1, <2>2, <2>3
<1> QED
  BY <1>2, <1>3

\* Appending to the second of two sequences appends to both together.
LEMMA AppendBehind ==
    ASSUME NEW S, NEW a \in Seq(S), NEW b \in Seq(S), NEW x \in S
    PROVE  a \o Append(b, x) = Append(a \o b, x)
OBVIOUS

\* The first of two sequences is a prefix of both together.
LEMMA FirstIsPrefix ==
    ASSUME NEW S, NEW a \in Seq(S), NEW b \in Seq(S)
    PROVE  Len(a) <= Len(a \o b) /\ \A i \in 1..Len(a) : a[i] = (a \o b)[i]
OBVIOUS

\* What moving a head, or appending, leaves are sequences.
LEMMA SequenceTypes ==
    ASSUME NEW S, NEW a \in Seq(S), NEW b \in Seq(S)
    PROVE  /\ b # <<>> => Tail(b) \in Seq(S) /\ Append(a, Head(b)) \in Seq(S)
           /\ \A x \in S : Append(a, x) \in Seq(S)
OBVIOUS

-----------------------------------------------------------------------------
(* Type correctness *)

LEMMA TypeStep == TypeOK /\ [Next]_vars => TypeOK'
<1> SUFFICES ASSUME TypeOK, [Next]_vars PROVE TypeOK'
  OBVIOUS
<1>1. CASE Refuse \/ StillLost \/ Timeout
  BY <1>1 DEF Refuse, StillLost, Timeout, Lost, Messages, TypeOK
<1>2. CASE TakeEvent \/ TakeBad
  <2>1. inbox # <<>> /\ inbox' = Tail(inbox) /\ taken' = Append(taken, Head(inbox))
    BY <1>2, Zenon DEF TakeEvent, TakeBad
  <2>2. inbox \in Seq(BOOLEAN) /\ taken \in Seq(BOOLEAN)
    BY DEF TypeOK
  <2>3. inbox' \in Seq(BOOLEAN) /\ taken' \in Seq(BOOLEAN)
    BY <2>1, <2>2, SequenceTypes, Zenon
  <2>4. /\ UNCHANGED <<socket, message, up, sent>> /\ ret' \in {"event", "protocol"}
    BY <1>2 DEF TakeEvent, TakeBad
  <2> QED
    BY <2>3, <2>4, Zenon DEF TypeOK
<1>3. CASE NoticeClose \/ NoticeFailure
  <2>1. /\ UNCHANGED <<socket, inbox, up, sent, taken>>
        /\ ret' \in {"closed", "failed"} /\ message' \in {message, "closed", "failed"}
    BY <1>3 DEF NoticeClose, NoticeFailure, ConnectionLost
  <2>2. message' \in Messages
    BY <2>1 DEF Messages, TypeOK
  <2> QED
    BY <2>1, <2>2, Zenon DEF TypeOK
<1>4. CASE Close
  <2>1. <<>> \in Seq(BOOLEAN)
    OBVIOUS
  <2> QED
    BY <1>4, <2>1, Zenon DEF Close, TypeOK
<1>5. ASSUME NEW good \in BOOLEAN, Publish(good) PROVE TypeOK'
  <2>1. Append(sent, good) \in Seq(BOOLEAN) /\ Append(inbox, good) \in Seq(BOOLEAN)
    BY SequenceTypes, Zenon DEF TypeOK
  <2>2. inbox' \in Seq(BOOLEAN)
    BY <1>5, <2>1, Zenon DEF Publish, TypeOK
  <2> QED
    BY <1>5, <2>1, <2>2, Zenon DEF Publish, TypeOK
<1>6. CASE Stop
  BY <1>6 DEF Stop, TypeOK
<1>7. CASE UNCHANGED vars
  BY <1>7 DEF vars, TypeOK
<1> QED
  BY <1>1, <1>2, <1>3, <1>4, <1>5, <1>6, <1>7 DEF Next

\* Every reachable state of a subscriber is well typed.
THEOREM SubscriberTypeCorrect == Spec => []TypeOK
<1>1. Init => TypeOK
  BY DEF Init, Messages, TypeOK
<1> QED
  BY <1>1, TypeStep, PTL DEF Spec

-----------------------------------------------------------------------------
(* Order *)

LEMMA OrderStep == TypeOK /\ ToldInOrder /\ [Next]_vars => ToldInOrder'
<1> SUFFICES ASSUME TypeOK, ToldInOrder, [Next]_vars PROVE ToldInOrder'
  OBVIOUS
<1>1. CASE UNCHANGED <<socket, inbox, sent, taken>>
  BY <1>1 DEF ToldInOrder
<1>2. CASE TakeEvent \/ TakeBad
  <2>1. /\ socket /\ inbox # <<>> /\ inbox' = Tail(inbox)
        /\ taken' = Append(taken, Head(inbox)) /\ UNCHANGED <<socket, sent>>
    BY <1>2 DEF TakeEvent, TakeBad, Readable
  <2>2. taken' \o inbox' = sent'
    BY <2>1, MoveHead DEF TypeOK, ToldInOrder
  <2>3. taken' \in Seq(BOOLEAN) /\ inbox' \in Seq(BOOLEAN)
    BY <2>1 DEF TypeOK
  <2> QED
    BY <2>2, <2>3, FirstIsPrefix DEF ToldInOrder
<1>3. CASE Close
  BY <1>3 DEF Close, ToldInOrder
<1>4. ASSUME NEW good \in BOOLEAN, Publish(good) PROVE ToldInOrder'
  <2>1. /\ sent' = Append(sent, good) /\ UNCHANGED <<socket, taken>>
        /\ inbox' = IF socket THEN Append(inbox, good) ELSE inbox
    BY <1>4 DEF Publish
  <2>2. Len(taken') <= Len(sent') /\ \A i \in 1..Len(taken') : taken'[i] = sent'[i]
    BY <2>1 DEF TypeOK, ToldInOrder
  <2>3. socket' => taken' \o inbox' = sent'
    BY <2>1, AppendBehind DEF TypeOK, ToldInOrder
  <2> QED
    BY <2>2, <2>3 DEF ToldInOrder
<1> QED
  BY <1>1, <1>2, <1>3, <1>4
  DEF Next, Refuse, StillLost, Timeout, NoticeClose, NoticeFailure, ConnectionLost, Stop, vars

\* No frame is swallowed, repeated or overtaken, whatever timeouts, bad frames
\* and losses come in between.
THEOREM ToldInOrderHolds == Spec => []ToldInOrder
<1>1. Init => ToldInOrder
  BY DEF Init, ToldInOrder
<1> QED
  BY <1>1, SubscriberTypeCorrect, OrderStep, PTL DEF Spec

-----------------------------------------------------------------------------
(* Loss *)

\* What a receive() that ended in a loss has said is what is stored.
LossInv == socket /\ ret \in {"closed", "failed"} => message = ret

LEMMA LossStep ==
    LossInv /\ [Next]_vars
        => LossInv' /\ (socket /\ ret \in {"closed", "failed"} => ret' = ret /\ taken' = taken)
<1> SUFFICES ASSUME LossInv, [Next]_vars
             PROVE  LossInv' /\ (socket /\ ret \in {"closed", "failed"} => ret' = ret /\ taken' = taken)
  OBVIOUS
<1> USE DEF Lost, Readable, LossInv
<1>1. CASE Refuse \/ StillLost \/ Timeout
  BY <1>1 DEF Refuse, StillLost, Timeout
<1>2. CASE TakeEvent \/ TakeBad
  BY <1>2 DEF TakeEvent, TakeBad
<1>3. CASE NoticeClose \/ NoticeFailure
  BY <1>3, SMT DEF NoticeClose, NoticeFailure, ConnectionLost
<1>4. CASE Close
  <2>1. ~socket' /\ ret' = ret /\ taken' = taken /\ message' = message
    BY <1>4, Zenon DEF Close
  <2> QED
    BY <2>1
<1>5. CASE Stop \/ Publish(TRUE) \/ Publish(FALSE)
  <2>1. UNCHANGED <<socket, message, ret, taken>>
    BY <1>5, Zenon DEF Stop, Publish
  <2> QED
    BY <2>1
<1>6. CASE UNCHANGED vars
  BY <1>6 DEF vars
<1> QED
  BY <1>1, <1>2, <1>3, <1>4, <1>5, <1>6, Zenon DEF Next

\* A loss that was reported stays, with the same message, until close().
THEOREM LossIsFinalHolds == Spec => LossIsFinal
<1>1. Init => LossInv
  BY DEF Init, LossInv
<1> QED
  BY <1>1, LossStep, PTL DEF Spec, LossIsFinal
=============================================================================
