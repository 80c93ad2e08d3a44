--------------------------- MODULE BridgeRpcProofs ---------------------------
(***************************************************************************)
(* Proofs about BridgeRpcClient for every UINT32_MAX, every set of         *)
(* sessions and methods and all bounds: which answer a request is given,   *)
(* what the caller is told of it, and that the object changes as           *)
(* RpcOutcomes says.                                                       *)
(***************************************************************************)
EXTENDS BridgeRpcClient, NumberLemmas

-----------------------------------------------------------------------------
(* Request identifiers *)

Modulus == UINT32_MAX + 1

\* The identifier of the c-th request on a socket.
IdOf(c) == c % Modulus

\* The modulus of the identifiers.
LEMMA ModulusType == Modulus \in Nat \ {0} /\ UINT32_MAX \in Nat
BY WireAssumption DEF Modulus

\* Counting calls counts identifiers.
LEMMA NextId ==
    ASSUME NEW c \in Nat
    PROVE  IdOf(c) \in RequestIds /\ NextRequestId(IdOf(c)) = IdOf(c + 1)
<1> DEFINE m == Modulus
           r == c % m
           q == c \div m
           s == (c + 1) % m
           p == (c + 1) \div m
<1>1. m \in Nat \ {0}
  BY ModulusType
<1>2. q \in Nat /\ r \in 0..(m - 1) /\ c = (m * q) + r
  BY <1>1, DivMod
<1>3. p \in Nat /\ s \in 0..(m - 1) /\ c + 1 = (m * p) + s
  <2>1. c + 1 \in Nat
    OBVIOUS
  <2> HIDE DEF m
  <2> QED
    BY <1>1, <2>1, DivMod
<1>4. r \in RequestIds
  BY <1>2, ModulusType DEF RequestIds, Modulus
<1>5. NextRequestId(r) = (r + 1) % m
  BY DEF NextRequestId, Modulus
<1> HIDE DEF m, r, q, s, p
<1>6. (m * q) \in Int /\ (m * p) \in Int
  BY <1>1, <1>2, <1>3
<1>7. CASE r + 1 < m
  <2>1. (m * q) + (r + 1) = (m * p) + s
    BY <1>2, <1>3, <1>6
  <2>2. r + 1 = s
    BY <1>1, <1>2, <1>3, <1>7, <2>1, RemainderUnique
  <2>3. (r + 1) % m = r + 1
    BY <1>1, <1>2, <1>7
  <2> QED
    BY <1>4, <1>5, <2>2, <2>3 DEF IdOf, m, r, s
<1>8. CASE r + 1 = m
  <2>1. m * (q + 1) = (m * q) + m
    BY <1>1, <1>2
  <2>2. (m * (q + 1)) + 0 = (m * p) + s
    BY <1>1, <1>2, <1>3, <1>6, <1>8, <2>1
  <2>3. 0 = s
    BY <1>1, <1>2, <1>3, <2>2, RemainderUnique
  <2>4. (r + 1) % m = 0
    BY <1>1, <1>8
  <2> QED
    BY <1>4, <1>5, <2>3, <2>4 DEF IdOf, m, r, s
<1> QED
  BY <1>1, <1>2, <1>7, <1>8

\* Calls that are not too far apart have different identifiers.
LEMMA IdUnique ==
    ASSUME NEW a \in Nat, NEW b \in Nat, a <= b, b - a <= UINT32_MAX, IdOf(a) = IdOf(b)
    PROVE  a = b
<1> DEFINE m == Modulus
           p == a \div m
           q == b \div m
           r == a % m
<1>1. m \in Nat \ {0} /\ b - a < m
  BY ModulusType DEF Modulus
<1>2. p \in Nat /\ r \in 0..(m - 1) /\ a = (m * p) + r
  BY <1>1, DivMod
<1>3. q \in Nat /\ b = (m * q) + r
  BY <1>1, DivMod DEF IdOf
<1> HIDE DEF m, p, q, r
<1>4. ~(p < q) /\ ~(q < p)
  BY <1>1, <1>2, <1>3, MultiplesApart
<1> QED
  BY <1>2, <1>3, <1>4

-----------------------------------------------------------------------------
(* The inductive invariant *)

SentRequests == [call : CallIds, id : RequestIds, method : Methods]
SentFrames == [kind : {"ok", "remote", "bad"}, call : CallIds, id : RequestIds,
               result : ResultTypes, session : Sessions]

\* What is under way was sent, so that every method has its result.
TypeInv ==
    /\ TypeOK
    /\ Idle \/ pending \in SentRequests
    /\ wire \in Seq(SentRequests)
    /\ inbox \in Seq(SentFrames)

\* Identifiers count the calls, and a request is waited for on a socket whose
\* flags are clear.
CallInv ==
    /\ nextId = IdOf(LastCall + 1)
    /\ ret.kind \in {"ok", "remote"} => ret.request.call \in CallIds
    /\ ~Idle => /\ pending.id = IdOf(pending.call)
                /\ object.socket /\ object.change = NoChange /\ ~object.reset

\* Requests and answers stay in the order of the calls; a request under way was
\* not executed, an answer says whether its request was.
Sent(message) == message.call <= LastCall /\ message.id = IdOf(message.call)

FlightInv ==
    /\ \A i \in 1..Len(wire) : Sent(wire[i]) /\ executed[wire[i].call] = 0
    /\ \A i \in 1..Len(inbox) :
          /\ Sent(inbox[i])
          /\ inbox[i].kind = "ok" => executed[inbox[i].call] = 1
          /\ inbox[i].kind = "remote" => executed[inbox[i].call] = 0
    /\ \A i, j \in 1..Len(wire) : i < j => wire[i].call < wire[j].call
    /\ \A i, j \in 1..Len(inbox) : i < j => inbox[i].call < inbox[j].call
    /\ \A i \in 1..Len(inbox), j \in 1..Len(wire) : inbox[i].call < wire[j].call
    /\ \A c \in CallIds : c > LastCall => executed[c] = 0

\* Every call since the oldest unread answer was interrupted.
Oldest == (IF Idle THEN LastCall + 1 ELSE LastCall) - interrupts

AgeInv ==
    object.socket =>
        /\ \A i \in 1..Len(wire) : wire[i].call >= Oldest
        /\ \A i \in 1..Len(inbox) : inbox[i].call >= Oldest

\* A request that was denied will not be executed later.
DeniedInv ==
    Idle /\ ret.kind = "remote" => \A i \in 1..Len(wire) : wire[i].call > ret.request.call

\* All that a step needs of the state it starts from.
RpcInv == TypeInv /\ CallInv /\ FlightInv /\ AgeInv /\ DeniedInv /\ ToldTheTruth

-----------------------------------------------------------------------------
(* Types *)

\* The methods the caller uses have a result.
LEMMA ResultOfMethod == ASSUME NEW m \in Methods PROVE ExpectedResult(m) \in ResultTypes
<1>1. m \in DOMAIN QueryResults \cup Controls
  BY RpcAssumption
<1>2. CASE m \in Controls
  BY <1>2 DEF ExpectedResult, ResultTypes
<1>3. CASE m \in DOMAIN QueryResults /\ m \notin Controls
  BY <1>3 DEF ExpectedResult, ResultTypes, QueryResults
<1> QED
  BY <1>1, <1>2, <1>3

\* What request() does to the object keeps its type.
LEMMA ObjectType ==
    ASSUME NEW r \in RpcObjects
    PROVE  /\ ClearFlags(r) \in RpcObjects /\ DiscardSocket(r) \in RpcObjects
           /\ \A s \in Sessions : CommitSession(r, s) \in RpcObjects
           /\ [r EXCEPT !.socket = FALSE] \in RpcObjects
<1>1. NoChange \in SessionChanges
  BY DEF SessionChanges
<1>2. ASSUME NEW s \in Sessions PROVE CommitSession(r, s) \in RpcObjects
  <2> DEFINE pair == IF r.session \notin {0, s} THEN <<r.session, s>> ELSE NoChange
  <2>1. pair \in SessionChanges
    BY DEF RpcObjects, SessionChanges, MaybeSessions
  <2>2. CommitSession(r, s) = [r EXCEPT !.change = pair, !.session = s]
    BY DEF CommitSession
  <2> HIDE DEF pair
  <2> QED
    BY <2>1, <2>2 DEF RpcObjects, MaybeSessions
<1> QED
  BY <1>1, <1>2 DEF RpcObjects, ClearFlags, DiscardSocket

\* The request that was sent last is one of the calls, or none.
LEMMA LastCallType == ASSUME TypeOK PROVE LastCall \in 0..MaxCalls
BY DEF TypeOK, LastCall, Requests

\* What a wait may leave in ret.
EndKinds == {"none", "ok", "remote", "lost", "protocol", "refused", "interrupted"}

LEMMA EndedType ==
    ASSUME TypeInv, NEW kind \in EndKinds
    PROVE  /\ ~Idle => Ended(kind, pending, NoFrame) \in [kind : EndKinds, request : Requests, frame : Frames]
           /\ [ret EXCEPT !.kind = kind, !.frame = NoFrame]
                 \in [kind : EndKinds, request : Requests, frame : Frames]
           /\ NoRequest \in Requests
<1>1. 0 \in 0..MaxCalls /\ 0 \in RequestIds
  BY RpcAssumption, WireAssumption DEF RequestIds
<1>2. NoFrame \in Frames
  BY <1>1 DEF NoFrame, Frame, Frames, ResultTypes, MaybeSessions
<1>3. NoRequest \in Requests
  BY <1>1 DEF NoRequest, Request, Requests
<1> QED
  BY <1>2, <1>3 DEF TypeInv, TypeOK, Ended, EndKinds

\* A request that is sent is a request, a frame that is sent a frame.
LEMMA SentTypes == SentRequests \subseteq Requests /\ SentFrames \subseteq Frames
BY RpcAssumption DEF SentRequests, SentFrames, Requests, Frames, CallIds, MaybeSessions

\* A sequence over a set is one over any larger set.
LEMMA SeqMonotone == ASSUME NEW S, NEW T, S \subseteq T, NEW s \in Seq(S) PROVE s \in Seq(T)
OBVIOUS

\* Taking a request from the wire and answering it with a frame keeps the types.
LEMMA TakeTypes ==
    ASSUME TypeInv, Take, NEW frame \in SentFrames,
           executed' \in [CallIds -> Nat], inbox' = inbox \/ Reply(frame)
    PROVE  TypeInv'
<1>1. wire \in Seq(SentRequests) /\ wire # <<>> /\ inbox \in Seq(SentFrames)
  BY DEF TypeInv, Take
<1>2. wire' \in Seq(SentRequests)
  BY <1>1, HeadTail DEF Take
<1>3. inbox' \in Seq(SentFrames)
  BY <1>1, AppendLast DEF Reply
<1>4. wire' \in Seq(Requests) /\ inbox' \in Seq(Frames)
  BY <1>2, <1>3, SentTypes, SeqMonotone
<1> QED
  BY <1>2, <1>3, <1>4 DEF Take, client, TypeInv, TypeOK, Idle

LEMMA TypeStep == TypeInv /\ CallInv /\ [Next]_vars => TypeInv'
<1> SUFFICES ASSUME TypeInv, CallInv, [Next]_vars PROVE TypeInv'
  OBVIOUS
<1> DEFINE Rets == [kind : EndKinds, request : Requests, frame : Frames]
<1>1. CASE Refuse
  <2>1. object' \in RpcObjects
    BY <1>1, ObjectType DEF Refuse, TypeInv, TypeOK
  <2>2. ret' \in Rets
    BY <1>1, EndedType DEF Refuse, EndKinds
  <2> QED
    BY <1>1, <2>1, <2>2 DEF Refuse, TypeInv, TypeOK, Idle, EndKinds
<1>2. ASSUME NEW m \in Methods, Submit(m) PROVE TypeInv'
  <2>1. LastCall + 1 \in CallIds
    BY <1>2, LastCallType, RpcAssumption DEF Submit, CallIds, TypeInv
  <2>2. nextId \in RequestIds /\ nextId' \in RequestIds
    BY <1>2, WireAssumption DEF Submit, TypeInv, TypeOK, RequestIds, NextRequestId
  <2>3. pending' \in SentRequests
    BY <1>2, <2>1, <2>2 DEF Submit, Request, SentRequests
  <2>4. wire' \in Seq(SentRequests)
    BY <1>2, <2>3, AppendLast DEF Submit, TypeInv
  <2>5. wire' \in Seq(Requests) /\ pending' \in Requests
    BY <2>3, <2>4, SentTypes, SeqMonotone
  <2>6. object' \in RpcObjects
    BY <1>2, ObjectType DEF Submit, TypeInv, TypeOK
  <2> QED
    BY <1>2, <2>2, <2>3, <2>4, <2>5, <2>6 DEF Submit, TypeInv, TypeOK
<1>3. ASSUME NEW kind \in {"lost", "protocol"}, ~Idle, Discard(kind), UNCHANGED wire PROVE TypeInv'
  <2>1. object' \in RpcObjects
    BY <1>3, ObjectType DEF Discard, TypeInv, TypeOK
  <2>2. ret' \in Rets /\ pending' \in Requests
    BY <1>3, EndedType DEF Discard, EndKinds
  <2>3. inbox' \in Seq(SentFrames) /\ inbox' \in Seq(Frames)
    BY <1>3 DEF Discard
  <2> QED
    BY <1>3, <2>1, <2>2, <2>3 DEF Discard, TypeInv, TypeOK, Idle, EndKinds
<1>4. CASE Accept
  <2>1. Head(inbox) \in SentFrames /\ inbox' \in Seq(SentFrames)
    BY <1>4, HeadTail DEF Accept, TypeInv
  <2>2. Head(inbox) \in Frames /\ inbox' \in Seq(Frames)
    BY <2>1, SentTypes, SeqMonotone
  <2>3. Head(inbox).session \in Sessions /\ Head(inbox).kind \in EndKinds
    BY <1>4, <2>1 DEF Accept, Matches, SentFrames, EndKinds
  <2>4. object' \in RpcObjects
    BY <1>4, <2>3, ObjectType DEF Accept, TypeInv, TypeOK
  <2>5. ret' \in Rets /\ pending' \in Requests
    BY <1>4, <2>2, <2>3, EndedType DEF Accept, Ended, TypeInv, TypeOK
  <2> QED
    BY <1>4, <2>1, <2>2, <2>4, <2>5 DEF Accept, TypeInv, TypeOK, Idle, EndKinds
<1>5. CASE Interrupt
  <2>1. ret' \in Rets /\ pending' \in Requests
    BY <1>5, EndedType DEF Interrupt, EndKinds
  <2>2. interrupts' \in 0..MaxInterrupts
    BY <1>5, RpcAssumption, WireAssumption DEF Interrupt, TypeInv, TypeOK
  <2> QED
    BY <1>5, <2>1, <2>2 DEF Interrupt, TypeInv, TypeOK, Idle, EndKinds
<1>6. CASE Close
  <2>1. object' \in RpcObjects
    BY <1>6, ObjectType DEF Close, TypeInv, TypeOK
  <2>2. inbox' \in Seq(SentFrames) /\ inbox' \in Seq(Frames)
    BY <1>6 DEF Close
  <2> QED
    BY <1>6, <2>1, <2>2 DEF Close, TypeInv, TypeOK, Idle
<1>7. CASE Serve \/ Deny \/ Garble \/ Silence
  <2> DEFINE request == Head(wire)
  <2>1. Take
    BY <1>7 DEF Serve, Deny, Garble, Silence
  <2>2. request \in SentRequests
    BY <2>1, HeadTail DEF Take, TypeInv
  <2>3. \A kind \in {"ok", "remote", "bad"}, result \in ResultTypes :
            Frame(kind, request.call, request.id, result, bridge) \in SentFrames
    BY <2>2 DEF Frame, SentFrames, SentRequests, TypeInv, TypeOK
  <2>4. ExpectedResult(request.method) \in ResultTypes /\ "None" \in ResultTypes
    BY <2>2, ResultOfMethod DEF SentRequests, ResultTypes
  <2>5. executed' \in [CallIds -> Nat]
    BY <1>7, <2>2 DEF Serve, Deny, Garble, Silence, Execute, TypeInv, TypeOK
  <2>6. inbox' = inbox \/ \E frame \in SentFrames : Reply(frame)
    BY <1>7, <2>3, <2>4 DEF Serve, Deny, Garble, Silence
  <2>7. \E frame \in SentFrames : inbox' = inbox \/ Reply(frame)
    BY <2>3, <2>4, <2>6
  <2> QED
    BY <2>1, <2>5, <2>7, TakeTypes
<1>8. CASE ChangeSession
  BY <1>8 DEF ChangeSession, client, TypeInv, TypeOK, Idle
<1>9. CASE Stop
  <2>1. <<>> \in Seq(Requests) /\ <<>> \in Seq(SentRequests)
    OBVIOUS
  <2>2. up' \in BOOLEAN /\ wire' = <<>> /\ UNCHANGED <<object, nextId, pending, ret, inbox, bridge, executed, interrupts>>
    BY <1>9, Zenon DEF Stop, client
  <2> QED
    BY <2>1, <2>2, Zenon DEF TypeInv, TypeOK, Idle
<1>10. CASE UNCHANGED vars
  BY <1>10 DEF vars, client, TypeInv, TypeOK, Idle
<1> QED
  BY <1>1, <1>2, <1>3, <1>4, <1>5, <1>6, <1>7, <1>8, <1>9, <1>10
  DEF Next, TransportLost, Reject

-----------------------------------------------------------------------------
(* Requests and answers under way *)

\* What is under way is of calls.
LEMMA FlightTypes ==
    ASSUME TypeInv
    PROVE  /\ Len(wire) \in Nat /\ Len(inbox) \in Nat /\ CallIds \subseteq Nat
           /\ \A i \in 1..Len(wire) : wire[i] \in SentRequests /\ wire[i].call \in CallIds
           /\ \A i \in 1..Len(inbox) : inbox[i] \in SentFrames /\ inbox[i].call \in CallIds
<1>1. /\ \A i \in 1..Len(wire) : wire[i] \in SentRequests
      /\ \A i \in 1..Len(inbox) : inbox[i] \in SentFrames
      /\ Len(wire) \in Nat /\ Len(inbox) \in Nat
  BY DEF TypeInv
<1> QED
  BY <1>1 DEF SentRequests, SentFrames, CallIds

\* A step that leaves what is under way alone, as the caller sees it.
LEMMA QuietStep ==
    ASSUME RpcInv, UNCHANGED <<nextId, pending, wire, inbox, executed, interrupts>>,
           object'.socket = object.socket, ret'.request = ret.request,
           ret'.kind \in {ret.kind, "refused"},
           Idle \/ UNCHANGED object
    PROVE  CallInv' /\ FlightInv' /\ AgeInv' /\ DeniedInv' /\ ToldTheTruth'
<1>1. LastCall' = LastCall /\ Idle' = Idle /\ Oldest' = Oldest
  BY DEF LastCall, Idle, Oldest
<1>2. CallInv'
  BY <1>1 DEF RpcInv, CallInv
<1>3. FlightInv' /\ AgeInv'
  BY <1>1 DEF RpcInv, FlightInv, AgeInv, Sent
<1>4. DeniedInv' /\ ToldTheTruth'
  BY <1>1 DEF RpcInv, DeniedInv, ToldTheTruth
<1> QED
  BY <1>2, <1>3, <1>4

\* The next request has the next identifier, and all others are older.
LEMMA SubmitStep ==
    ASSUME RpcInv, NEW m \in Methods, Submit(m)
    PROVE  CallInv' /\ FlightInv' /\ AgeInv' /\ DeniedInv' /\ ToldTheTruth'
<1> USE DEF RpcInv
<1> DEFINE request == Request(LastCall + 1, nextId, m)
<1>1. LastCall \in Nat /\ LastCall + 1 \in CallIds
  BY LastCallType, RpcAssumption DEF Submit, CallIds, TypeInv
<1>2. /\ request.call = LastCall + 1 /\ request.id = nextId /\ request \in SentRequests
      /\ pending' = request
  BY <1>1 DEF Submit, Request, SentRequests, TypeInv, TypeOK
<1>3. ~Idle' /\ LastCall' = LastCall + 1 /\ Idle
  BY <1>1, <1>2 DEF Submit, Idle, LastCall, NoRequest, Request
<1>4. nextId = IdOf(LastCall + 1)
  BY DEF CallInv
<1> HIDE DEF request
<1>5. CallInv'
  <2>1. nextId' = IdOf(LastCall + 2)
    BY <1>1, <1>4, NextId DEF Submit
  <2>2. object'.socket /\ object'.change = NoChange /\ ~object'.reset
    BY DEF Submit, ClearFlags, TypeInv, TypeOK, RpcObjects
  <2> QED
    BY <1>1, <1>2, <1>3, <1>4, <2>1, <2>2 DEF CallInv, Submit
<1>6. \A i \in 1..Len(wire') : \/ i \in 1..Len(wire) /\ wire'[i] = wire[i]
                               \/ i = Len(wire) + 1 /\ wire'[i] = request
  <2>1. wire' = Append(wire, request) \/ wire' = wire
    BY <1>2, Zenon DEF Submit
  <2>2. wire \in Seq(SentRequests)
    BY DEF TypeInv
  <2>3. CASE wire' = Append(wire, request)
    BY <1>2, <2>2, <2>3, AppendLast
  <2>4. CASE wire' = wire
    BY <2>4
  <2> QED
    BY <2>1, <2>3, <2>4
<1>7. UNCHANGED <<inbox, executed, ret, interrupts>>
  BY DEF Submit
<1>8. /\ Len(wire) \in Nat /\ Len(inbox) \in Nat
      /\ \A i \in 1..Len(wire) : wire[i].call \in CallIds
      /\ \A i \in 1..Len(inbox) : inbox[i].call \in CallIds
  BY FlightTypes
<1>9. FlightInv'
  <2>1. executed[LastCall + 1] = 0
    BY <1>1 DEF FlightInv
  <2>2. \A c \in CallIds : c > LastCall' => executed'[c] = 0
    BY <1>1, <1>3, <1>7 DEF FlightInv, CallIds
  <2>3. \A i \in 1..Len(wire') : Sent(wire[i])' /\ executed'[wire'[i].call] = 0
    BY <1>1, <1>2, <1>3, <1>4, <1>6, <1>7, <1>8, <2>1 DEF FlightInv, Sent, CallIds
  <2>4. ASSUME NEW i \in 1..Len(wire'), NEW j \in 1..Len(wire'), i < j
        PROVE  wire'[i].call < wire'[j].call
    <3>1. i \in 1..Len(wire) /\ wire'[i] = wire[i] /\ wire[i].call \in 1..LastCall
      BY <1>2, <1>6, <1>8, <2>4 DEF FlightInv, Sent, CallIds
    <3>2. CASE j \in 1..Len(wire) /\ wire'[j] = wire[j]
      BY <2>4, <3>1, <3>2 DEF FlightInv
    <3>3. CASE wire'[j] = request
      BY <1>1, <1>2, <3>1, <3>3
    <3> QED
      BY <1>6, <3>2, <3>3
  <2>5. \A i \in 1..Len(inbox'), j \in 1..Len(wire') : inbox'[i].call < wire'[j].call
    BY <1>1, <1>2, <1>6, <1>7, <1>8 DEF FlightInv, Sent, CallIds
  <2>6. \A i \in 1..Len(inbox') :
          /\ Sent(inbox[i])'
          /\ inbox'[i].kind = "ok" => executed'[inbox'[i].call] = 1
          /\ inbox'[i].kind = "remote" => executed'[inbox'[i].call] = 0
    BY <1>1, <1>3, <1>7, <1>8 DEF FlightInv, Sent, CallIds
  <2>7. \A i, j \in 1..Len(inbox') : i < j => inbox'[i].call < inbox'[j].call
    BY <1>7 DEF FlightInv
  <2> QED
    BY <2>2, <2>3, <2>4, <2>5, <2>6, <2>7 DEF FlightInv
<1>10. AgeInv'
  <2>1. Oldest' = Oldest /\ Oldest <= LastCall + 1 /\ Oldest \in Int
    BY <1>1, <1>3, <1>7, RpcAssumption, WireAssumption DEF Oldest, TypeInv, TypeOK
  <2>2. object.socket
    BY DEF Submit
  <2> QED
    BY <1>1, <1>2, <1>6, <1>7, <2>1, <2>2 DEF AgeInv
<1>11. DeniedInv' /\ ToldTheTruth'
  BY <1>3, <1>7 DEF DeniedInv, ToldTheTruth
<1> QED
  BY <1>5, <1>9, <1>10, <1>11

\* A wait that ends without an answer.
LEMMA EndStep ==
    ASSUME RpcInv, ~Idle, NEW kind \in {"lost", "protocol", "interrupted"},
           pending' = NoRequest, ret' = Ended(kind, pending, NoFrame),
           UNCHANGED <<nextId, wire, executed>>,
           \/ object'.socket = FALSE /\ inbox' = <<>>
           \/ UNCHANGED <<object, inbox>> /\ interrupts' = interrupts + 1
    PROVE  CallInv' /\ FlightInv' /\ AgeInv' /\ DeniedInv' /\ ToldTheTruth'
<1> USE DEF RpcInv
<1>1. Idle' /\ LastCall' = LastCall /\ ret'.kind = kind /\ LastCall \in Nat
  BY LastCallType DEF Idle, LastCall, Ended, TypeInv
<1>2. CallInv'
  BY <1>1 DEF CallInv
<1>3. FlightInv'
  <2>1. CASE inbox' = <<>>
    BY <1>1, <2>1 DEF FlightInv, Sent
  <2>2. CASE UNCHANGED inbox
    BY <1>1, <2>2 DEF FlightInv, Sent
  <2> QED
    BY <2>1, <2>2
<1>4. AgeInv'
  <2>1. CASE UNCHANGED <<object, inbox>> /\ interrupts' = interrupts + 1
    <3>1. interrupts \in Nat
      BY RpcAssumption DEF TypeInv, TypeOK
    <3>2. Oldest' = Oldest
      BY <1>1, <2>1, <3>1 DEF Oldest
    <3> QED
      BY <2>1, <3>2 DEF AgeInv
  <2> QED
    BY <2>1 DEF AgeInv
<1>5. DeniedInv' /\ ToldTheTruth'
  BY <1>1 DEF DeniedInv, ToldTheTruth
<1> QED
  BY <1>2, <1>3, <1>4, <1>5

\* The identifier of the request that is waited for stands for it alone.
LEMMA OwnAnswer ==
    ASSUME RpcInv, ~Idle, inbox # <<>>, Head(inbox).id = pending.id
    PROVE  Head(inbox).call = pending.call
<1> USE DEF RpcInv
<1> DEFINE a == Head(inbox).call
           b == pending.call
<1>1. a = inbox[1].call /\ 1 \in 1..Len(inbox) /\ Head(inbox) \in SentFrames
  BY HeadTail DEF TypeInv
<1>2. a \in Nat /\ b \in Nat /\ LastCall = b
  BY <1>1 DEF SentFrames, SentRequests, CallIds, TypeInv, LastCall
<1>3. a <= b /\ IdOf(a) = IdOf(b)
  BY <1>1, <1>2 DEF FlightInv, CallInv, Sent
<1>4. b - a <= UINT32_MAX
  <2>1. a >= b - interrupts
    BY <1>1, <1>2 DEF AgeInv, CallInv, Oldest
  <2>2. interrupts \in Nat /\ interrupts <= UINT32_MAX
    BY RpcAssumption, WireAssumption DEF TypeInv, TypeOK
  <2> QED
    BY <1>2, <2>1, <2>2, WireAssumption
<1> QED
  BY <1>2, <1>3, <1>4, IdUnique

\* The answer to the request that was sent last is the last thing under way.
LEMMA AcceptStep ==
    ASSUME RpcInv, Accept
    PROVE  CallInv' /\ FlightInv' /\ AgeInv' /\ DeniedInv' /\ ToldTheTruth'
<1> USE DEF RpcInv
<1> DEFINE frame == Head(inbox)
<1>1. /\ frame = inbox[1] /\ 1 \in 1..Len(inbox) /\ frame \in SentFrames
      /\ \A i \in 1..Len(inbox') : i + 1 \in 2..Len(inbox) /\ inbox'[i] = inbox[i + 1]
  BY HeadTail DEF Accept, TypeInv
<1>2. frame.call = pending.call /\ ~Idle
  BY OwnAnswer DEF Accept, Matches
<1>3. /\ Idle' /\ LastCall' = pending.call /\ LastCall = pending.call /\ LastCall \in CallIds
      /\ ret'.kind = frame.kind /\ ret'.request = pending
  BY <1>2 DEF Accept, Ended, Idle, LastCall, TypeInv, SentRequests
<1>4. UNCHANGED <<nextId, wire, executed, interrupts>>
  BY DEF Accept
<1>5. Len(wire) \in Nat /\ Len(inbox) \in Nat
  BY FlightTypes
<1>6. /\ \A i \in 1..Len(wire) : wire[i].call \in Nat
      /\ \A i \in 1..Len(inbox) : inbox[i].call \in Nat
  BY FlightTypes
<1> HIDE DEF frame
<1>7. Len(wire) = 0
  <2>1. \A i \in 1..Len(wire) : wire[i].call <= LastCall /\ frame.call < wire[i].call
    BY <1>1 DEF FlightInv, Sent
  <2> QED
    BY <1>2, <1>3, <1>5, <1>6, <2>1 DEF CallIds
<1>8. \A i \in 1..Len(inbox') : FALSE
  <2>1. \A i \in 1..Len(inbox) : inbox[i].call <= LastCall
    BY DEF FlightInv, Sent
  <2>2. \A i \in 2..Len(inbox) : frame.call < inbox[i].call
    BY <1>1, <1>5 DEF FlightInv
  <2> QED
    BY <1>1, <1>2, <1>3, <1>5, <1>6, <2>1, <2>2 DEF CallIds
<1>9. CallInv'
  BY <1>3, <1>4 DEF CallInv
<1>10. FlightInv' /\ AgeInv' /\ DeniedInv'
  <2>1. \A i \in 1..Len(wire') : FALSE
    BY <1>4, <1>7
  <2>2. \A c \in CallIds : c > LastCall' => executed'[c] = 0
    BY <1>3, <1>4 DEF FlightInv
  <2> QED
    BY <1>8, <2>1, <2>2 DEF FlightInv, AgeInv, DeniedInv
<1>11. ToldTheTruth'
  <2>1. frame.kind = "ok" => executed[pending.call] = 1
    BY <1>1, <1>2 DEF FlightInv
  <2>2. frame.kind = "remote" => executed[pending.call] = 0
    BY <1>1, <1>2 DEF FlightInv
  <2> QED
    BY <1>3, <1>4, <2>1, <2>2 DEF ToldTheTruth
<1> QED
  BY <1>9, <1>10, <1>11

\* The Bridge takes the oldest request and answers it, or not; what its answer
\* says of the execution is so.
LEMMA TakeStep ==
    ASSUME RpcInv, Take, NEW frame \in SentFrames,
           frame.call = Head(wire).call, frame.id = Head(wire).id,
           \/ Execute(Head(wire)) /\ frame.kind # "remote"
           \/ UNCHANGED executed /\ frame.kind # "ok",
           inbox' = inbox \/ Reply(frame)
    PROVE  CallInv' /\ FlightInv' /\ AgeInv' /\ DeniedInv' /\ ToldTheTruth'
<1> USE DEF RpcInv
<1> DEFINE request == Head(wire)
<1>1. /\ request = wire[1] /\ 1 \in 1..Len(wire) /\ request \in SentRequests
      /\ \A i \in 1..Len(wire') : i + 1 \in 2..Len(wire) /\ wire'[i] = wire[i + 1]
  BY HeadTail DEF Take, TypeInv
<1>2. UNCHANGED <<object, nextId, pending, ret, interrupts>>
  BY DEF Take, client
<1>3. Idle' = Idle /\ LastCall' = LastCall /\ Oldest' = Oldest /\ LastCall \in Nat
  BY <1>2, LastCallType DEF Idle, LastCall, Oldest, TypeInv
<1>4. Len(wire) \in Nat /\ Len(inbox) \in Nat /\ Len(wire') \in Nat
  <2>1. wire' \in Seq(SentRequests)
    BY HeadTail DEF Take, TypeInv
  <2> QED
    BY <2>1 DEF TypeInv
<1>5. /\ \A i \in 1..Len(wire) : wire[i].call \in CallIds
      /\ \A i \in 1..Len(inbox) : inbox[i].call \in CallIds
      /\ request.call \in CallIds /\ CallIds \subseteq Nat
  BY <1>1, FlightTypes
<1> HIDE DEF request
<1>6. /\ \A i \in 1..Len(wire') : request.call < wire'[i].call
      /\ \A i \in 1..Len(inbox) : inbox[i].call < request.call
      /\ request.call <= LastCall /\ executed[request.call] = 0
      /\ request.id = IdOf(request.call)
  <2>1. \A i \in 2..Len(wire) : request.call < wire[i].call
    BY <1>1, <1>4 DEF FlightInv
  <2> QED
    BY <1>1, <2>1 DEF FlightInv, Sent
<1>7. /\ \A c \in CallIds \ {request.call} : executed'[c] = executed[c]
      /\ frame.kind = "ok" => executed'[request.call] = 1
      /\ frame.kind = "remote" => executed'[request.call] = 0
      /\ executed'[request.call] \in {0, 1}
  <2>1. executed \in [CallIds -> Nat] /\ executed' \in {executed, [executed EXCEPT ![request.call] = @ + 1]}
    BY DEF TypeInv, TypeOK, Execute, request
  <2>2. CASE UNCHANGED executed /\ frame.kind # "ok"
    BY <1>6, <2>2
  <2>3. CASE executed' = [executed EXCEPT ![request.call] = @ + 1] /\ frame.kind # "remote"
    BY <1>5, <1>6, <2>1, <2>3
  <2> QED
    BY <2>2, <2>3 DEF Execute, request
<1>8. \A i \in 1..Len(inbox') : \/ i \in 1..Len(inbox) /\ inbox'[i] = inbox[i]
                                \/ i = Len(inbox) + 1 /\ inbox'[i] = frame
  <2>1. CASE inbox' = inbox
    BY <2>1
  <2>2. CASE inbox' = Append(inbox, frame)
    BY <2>2, AppendLast DEF TypeInv
  <2>3. inbox' = inbox \/ inbox' = Append(inbox, frame)
    BY Zenon DEF Reply
  <2> QED
    BY <2>1, <2>2, <2>3
<1>9. CallInv'
  BY <1>2, <1>3 DEF CallInv
<1>10. FlightInv'
  <2>1. \A i \in 1..Len(wire') : Sent(wire[i])' /\ executed'[wire'[i].call] = 0
    <3> TAKE i \in 1..Len(wire')
    <3>1. i + 1 \in 1..Len(wire) /\ wire'[i] = wire[i + 1]
      BY <1>1, <1>4
    <3>2. wire'[i].call \in CallIds \ {request.call}
      <4>1. \A j \in 2..Len(wire) : wire[j].call \in CallIds
        BY <1>4, <1>5
      <4>2. wire'[i].call \in CallIds /\ request.call < wire'[i].call
        BY <1>1, <1>6, <4>1
      <4> QED
        BY <1>5, <4>2 DEF CallIds
    <3>3. wire'[i].call <= LastCall /\ wire'[i].id = IdOf(wire'[i].call) /\ executed[wire'[i].call] = 0
      BY <3>1 DEF FlightInv, Sent
    <3> QED
      BY <1>3, <1>7, <3>2, <3>3 DEF Sent
  <2>2. \A i \in 1..Len(inbox') :
          /\ Sent(inbox[i])'
          /\ inbox'[i].kind = "ok" => executed'[inbox'[i].call] = 1
          /\ inbox'[i].kind = "remote" => executed'[inbox'[i].call] = 0
    <3>1. ASSUME NEW i \in 1..Len(inbox), inbox'[i] = inbox[i]
          PROVE  /\ Sent(inbox[i])'
                 /\ inbox'[i].kind = "ok" => executed'[inbox'[i].call] = 1
                 /\ inbox'[i].kind = "remote" => executed'[inbox'[i].call] = 0
      <4>1. inbox[i].call \in CallIds \ {request.call}
        BY <1>5, <1>6 DEF CallIds
      <4>2. /\ inbox[i].call <= LastCall /\ inbox[i].id = IdOf(inbox[i].call)
            /\ inbox[i].kind = "ok" => executed[inbox[i].call] = 1
            /\ inbox[i].kind = "remote" => executed[inbox[i].call] = 0
        BY DEF FlightInv, Sent
      <4> QED
        BY <1>3, <1>7, <3>1, <4>1, <4>2 DEF Sent
    <3>2. frame.call <= LastCall' /\ frame.id = IdOf(frame.call) /\ frame.call = request.call
      BY <1>3, <1>6 DEF request
    <3> QED
      BY <1>7, <1>8, <3>1, <3>2 DEF Sent
  <2>3. \A i, j \in 1..Len(wire') : i < j => wire'[i].call < wire'[j].call
    <3>1. \A i, j \in 2..Len(wire) : i < j => wire[i].call < wire[j].call
      BY <1>4 DEF FlightInv
    <3> TAKE i, j \in 1..Len(wire')
    <3>2. i + 1 \in 2..Len(wire) /\ wire'[i] = wire[i + 1]
      BY <1>1, <1>4
    <3>3. j + 1 \in 2..Len(wire) /\ wire'[j] = wire[j + 1]
      BY <1>1, <1>4
    <3> QED
      BY <3>1, <3>2, <3>3
  <2>4. \A i, j \in 1..Len(inbox') : i < j => inbox'[i].call < inbox'[j].call
    BY <1>4, <1>6, <1>8 DEF FlightInv, request
  <2>5. \A i \in 1..Len(inbox'), j \in 1..Len(wire') : inbox'[i].call < wire'[j].call
    <3>1. \A i \in 1..Len(inbox), j \in 2..Len(wire) : inbox[i].call < wire[j].call
      BY <1>4 DEF FlightInv
    <3> QED
      BY <1>1, <1>6, <1>8, <3>1 DEF request
  <2>6. \A c \in CallIds : c > LastCall' => executed'[c] = 0
    <3>1. \A c \in CallIds : c > LastCall => c # request.call
      BY <1>3, <1>5, <1>6
    <3> QED
      BY <1>3, <1>7, <3>1 DEF FlightInv
  <2> QED
    BY <2>1, <2>2, <2>3, <2>4, <2>5, <2>6 DEF FlightInv
<1>11. AgeInv'
  <2>1. object.socket => request.call >= Oldest
    BY <1>1 DEF AgeInv
  <2>2. object.socket => \A i \in 2..Len(wire) : wire[i].call >= Oldest
    BY <1>4 DEF AgeInv
  <2> QED
    BY <1>1, <1>2, <1>3, <1>8, <2>1, <2>2 DEF AgeInv, request
<1>12. DeniedInv'
  <2>1. Idle /\ ret.kind = "remote" => \A i \in 2..Len(wire) : wire[i].call > ret.request.call
    BY <1>4 DEF DeniedInv
  <2> QED
    BY <1>1, <1>2, <1>3, <2>1 DEF DeniedInv
<1>13. ToldTheTruth'
  <2>1. \A c \in CallIds : executed'[c] <= 1
    BY <1>7 DEF ToldTheTruth
  <2>2. Idle /\ ret.kind \in {"ok", "remote"} => ret.request.call \in CallIds
    BY DEF CallInv
  <2>3. Idle /\ ret.kind = "ok" => executed'[ret.request.call] = 1
    BY <1>6, <1>7, <2>2 DEF ToldTheTruth
  <2>4. Idle /\ ret.kind = "remote" => executed'[ret.request.call] = 0
    <3> SUFFICES ASSUME Idle, ret.kind = "remote" PROVE executed'[ret.request.call] = 0
      OBVIOUS
    <3>1. request.call > ret.request.call /\ executed[ret.request.call] = 0
      BY <1>1 DEF DeniedInv, ToldTheTruth
    <3>2. ret.request.call \in CallIds \ {request.call}
      BY <1>5, <2>2, <3>1 DEF CallIds
    <3> QED
      BY <1>7, <3>1, <3>2
  <2> QED
    BY <1>2, <1>3, <2>1, <2>3, <2>4 DEF ToldTheTruth
<1> QED
  BY <1>9, <1>10, <1>11, <1>12, <1>13

\* The Bridge stops: what it had not taken is gone.
LEMMA StopStep ==
    ASSUME RpcInv, Stop
    PROVE  CallInv' /\ FlightInv' /\ AgeInv' /\ DeniedInv' /\ ToldTheTruth'
<1> USE DEF RpcInv
<1>1. UNCHANGED <<object, nextId, pending, ret, inbox, executed, interrupts>> /\ wire' = <<>>
  BY DEF Stop, client
<1>2. LastCall' = LastCall /\ Idle' = Idle /\ Oldest' = Oldest
  BY <1>1 DEF LastCall, Idle, Oldest
<1>3. CallInv' /\ ToldTheTruth'
  BY <1>1, <1>2 DEF CallInv, ToldTheTruth
<1>4. FlightInv' /\ AgeInv' /\ DeniedInv'
  BY <1>1, <1>2 DEF FlightInv, AgeInv, DeniedInv, Sent
<1> QED
  BY <1>3, <1>4

LEMMA RpcStep == RpcInv /\ [Next]_vars => RpcInv'
<1> SUFFICES ASSUME RpcInv, [Next]_vars
             PROVE  CallInv' /\ FlightInv' /\ AgeInv' /\ DeniedInv' /\ ToldTheTruth'
  BY TypeStep DEF RpcInv
<1>1. CASE Refuse
  <2>1. object'.socket = object.socket /\ ret'.request = ret.request /\ ret'.kind = "refused"
    BY <1>1 DEF Refuse, ClearFlags, RpcInv, TypeInv, TypeOK, RpcObjects
  <2> QED
    BY <1>1, <2>1, QuietStep DEF Refuse
<1>2. ASSUME NEW m \in Methods, Submit(m)
      PROVE  CallInv' /\ FlightInv' /\ AgeInv' /\ DeniedInv' /\ ToldTheTruth'
  BY <1>2, SubmitStep
<1>3. ASSUME NEW kind \in {"lost", "protocol"}, ~Idle, Discard(kind), UNCHANGED wire
      PROVE  CallInv' /\ FlightInv' /\ AgeInv' /\ DeniedInv' /\ ToldTheTruth'
  <2>1. object'.socket = FALSE
    BY <1>3 DEF Discard, DiscardSocket, RpcInv, TypeInv, TypeOK, RpcObjects
  <2> QED
    BY <1>3, <2>1, EndStep DEF Discard
<1>4. CASE Accept
  BY <1>4, AcceptStep
<1>5. CASE Interrupt
  BY <1>5, EndStep DEF Interrupt
<1>6. CASE Close
  <2>1. object'.socket = FALSE /\ inbox' = <<>> /\ Idle
    BY <1>6 DEF Close, RpcInv, TypeInv, TypeOK, RpcObjects
  <2>2. UNCHANGED <<nextId, pending, ret, wire, executed, interrupts>>
    BY <1>6 DEF Close
  <2>3. LastCall' = LastCall /\ Idle'
    BY <2>1, <2>2 DEF LastCall, Idle
  <2> QED
    BY <2>1, <2>2, <2>3 DEF RpcInv, CallInv, FlightInv, AgeInv, DeniedInv, ToldTheTruth, Sent
<1>7. CASE Serve \/ Deny \/ Garble \/ Silence
  <2> DEFINE request == Head(wire)
             reply(kind, result) == Frame(kind, request.call, request.id, result, bridge)
  <2>1. Take
    BY <1>7 DEF Serve, Deny, Garble, Silence
  <2>2. request \in SentRequests
    BY <2>1, HeadTail DEF Take, RpcInv, TypeInv
  <2>3. \A kind \in {"ok", "remote", "bad"}, result \in ResultTypes :
            /\ reply(kind, result) \in SentFrames /\ reply(kind, result).kind = kind
            /\ reply(kind, result).call = request.call /\ reply(kind, result).id = request.id
    BY <2>2 DEF Frame, SentFrames, SentRequests, RpcInv, TypeInv, TypeOK
  <2>4. ExpectedResult(request.method) \in ResultTypes /\ "None" \in ResultTypes
    BY <2>2, ResultOfMethod DEF SentRequests, ResultTypes
  <2> HIDE DEF request, reply
  <2>5. CASE Serve
    <3>1. Execute(request) /\ Reply(reply("ok", ExpectedResult(request.method)))
      BY <2>5 DEF Serve, request, reply
    <3> QED
      BY <2>1, <2>3, <2>4, <3>1, TakeStep DEF request
  <2>6. CASE Deny
    <3>1. UNCHANGED executed /\ Reply(reply("remote", "None"))
      BY <2>6 DEF Deny, request, reply
    <3> QED
      BY <2>1, <2>3, <2>4, <3>1, TakeStep DEF request
  <2>7. CASE Garble
    <3>1. PICK kind \in {"ok", "bad"}, result \in ResultTypes :
              Execute(request) /\ Reply(reply(kind, result))
      BY <2>7 DEF Garble, request, reply
    <3> QED
      BY <2>1, <2>3, <3>1, TakeStep DEF request
  <2>8. CASE Silence
    <3>1. (Execute(request) \/ UNCHANGED executed) /\ inbox' = inbox
      BY <2>8 DEF Silence, request
    <3> QED
      BY <2>1, <2>3, <2>4, <3>1, TakeStep DEF request
  <2> QED
    BY <1>7, <2>5, <2>6, <2>7, <2>8
<1>8. CASE ChangeSession
  BY <1>8, QuietStep DEF ChangeSession, client
<1>9. CASE Stop
  BY <1>9, StopStep
<1>10. CASE UNCHANGED vars
  BY <1>10, QuietStep DEF vars, client
<1> QED
  BY <1>1, <1>2, <1>3, <1>4, <1>5, <1>6, <1>7, <1>8, <1>9, <1>10
  DEF Next, TransportLost, Reject

LEMMA RpcInit == Init => RpcInv
<1> SUFFICES ASSUME Init PROVE RpcInv
  OBVIOUS
<1>1. 0 \in 0..MaxCalls /\ 0 \in RequestIds /\ 1 \in RequestIds /\ 0 \in 0..MaxInterrupts
  BY RpcAssumption, WireAssumption DEF RequestIds
<1>2. NoRequest \in Requests /\ NoFrame \in Frames
  BY <1>1 DEF NoRequest, Request, Requests, NoFrame, Frame, Frames, ResultTypes, MaybeSessions
<1>3. FreshRpc \in RpcObjects
  BY DEF FreshRpc, RpcObjects, MaybeSessions, SessionChanges
<1>4. Idle /\ LastCall = 0 /\ ret.kind = "none"
  BY DEF Init, Idle, LastCall, NoRequest, Request, Ended
<1>5. ret \in [kind : EndKinds, request : Requests, frame : Frames]
  BY <1>2 DEF Init, Ended, EndKinds
<1>6. TypeInv
  BY <1>1, <1>2, <1>3, <1>4, <1>5 DEF Init, TypeInv, TypeOK, EndKinds
<1>7. IdOf(1) = 1
  BY WireAssumption DEF IdOf, Modulus
<1> QED
  BY <1>4, <1>6, <1>7 DEF RpcInv, Init, CallInv, FlightInv, AgeInv, DeniedInv, ToldTheTruth

LEMMA RpcInvariant == Spec => []RpcInv
BY RpcInit, RpcStep, PTL DEF Spec

\* Every reachable state is well typed.
THEOREM RpcTypeCorrect == Spec => []TypeOK
BY RpcInvariant, PTL DEF RpcInv, TypeInv

\* A request is executed at most once, and what the caller is told of its
\* execution is so, however calls are interrupted.
THEOREM ToldTheTruthHolds == Spec => []ToldTheTruth
<1>1. RpcInv => ToldTheTruth
  BY DEF RpcInv
<1> QED
  BY <1>1, RpcInvariant, PTL

-----------------------------------------------------------------------------
(* Answers *)

LEMMA AnswerStep == RpcInv /\ AnswerMatchesCall /\ [Next]_vars => AnswerMatchesCall'
<1> SUFFICES ASSUME RpcInv, AnswerMatchesCall, [Next]_vars PROVE AnswerMatchesCall'
  OBVIOUS
<1> USE DEF Idle
<1>1. CASE Accept
  <2>1. Head(inbox).call = pending.call
    BY <1>1, OwnAnswer DEF Accept, Matches
  <2>2. /\ ret'.kind = Head(inbox).kind /\ ret'.request = pending /\ ret'.frame = Head(inbox)
        /\ ret'.kind = "ok" => Head(inbox).result = ExpectedResult(pending.method)
    BY <1>1 DEF Accept, Matches, Ended
  <2>3. object'.session = Head(inbox).session
    BY <1>1 DEF Accept, CommitSession, RpcInv, TypeInv, TypeOK, RpcObjects
  <2> QED
    BY <2>1, <2>2, <2>3 DEF AnswerMatchesCall
<1>2. CASE Refuse
  <2>1. ret'.kind = "refused"
    BY <1>2 DEF Refuse, RpcInv, TypeInv, TypeOK
  <2> QED
    BY <2>1 DEF AnswerMatchesCall
<1>3. ASSUME NEW m \in Methods, Submit(m) PROVE AnswerMatchesCall'
  <2>1. pending'.call \in CallIds
    BY <1>3, LastCallType, RpcAssumption DEF Submit, Request, CallIds, RpcInv, TypeInv
  <2>2. NoRequest.call = 0
    BY DEF NoRequest, Request
  <2> QED
    BY <2>1, <2>2 DEF AnswerMatchesCall, CallIds
<1>4. CASE TransportLost \/ Reject \/ Interrupt
  <2>1. ret'.kind \in {"lost", "protocol", "interrupted"}
    BY <1>4 DEF TransportLost, Reject, Interrupt, Discard, Ended
  <2> QED
    BY <2>1 DEF AnswerMatchesCall
<1>5. CASE UNCHANGED <<pending, ret>> /\ object'.session = object.session
  BY <1>5 DEF AnswerMatchesCall
<1>6. CASE Close
  <2>1. object'.session = object.session
    BY <1>6 DEF Close, RpcInv, TypeInv, TypeOK, RpcObjects
  <2> QED
    BY <1>5, <1>6, <2>1 DEF Close
<1> QED
  BY <1>1, <1>2, <1>3, <1>4, <1>5, <1>6
  DEF Next, Serve, Deny, Garble, Silence, Take, ChangeSession, Stop, client, vars

\* A response handed to the caller is the Bridge's to that very request, and
\* of its session, for any number of identifiers that interrupts cannot exhaust.
THEOREM AnswerMatchesCallHolds == Spec => []AnswerMatchesCall
<1>1. Init => AnswerMatchesCall
  BY DEF Init, AnswerMatchesCall, Ended
<1> QED
  BY <1>1, RpcInvariant, AnswerStep, PTL DEF Spec

\* Whatever ends without a response leaves a socket that is gone.
LEMMA NoLateStep == RpcInv /\ NoLateAnswer /\ [Next]_vars => NoLateAnswer'
<1> SUFFICES ASSUME RpcInv, NoLateAnswer, [Next]_vars PROVE NoLateAnswer'
  OBVIOUS
<1> USE DEF RpcInv, TypeInv, TypeOK, RpcObjects
<1>1. CASE Refuse
  <2>1. ret'.kind = "refused" /\ object'.socket = object.socket /\ inbox' = inbox
    BY <1>1 DEF Refuse, ClearFlags
  <2> QED
    BY <2>1 DEF NoLateAnswer
<1>2. ASSUME NEW m \in Methods, Submit(m) PROVE NoLateAnswer'
  <2>1. object'.socket /\ ret' = ret /\ Idle /\ object.socket
    BY <1>2 DEF Submit, ClearFlags
  <2>2. ret.kind \notin {"lost", "protocol"}
    BY <2>1 DEF NoLateAnswer
  <2> QED
    BY <2>1, <2>2 DEF NoLateAnswer
<1>3. ASSUME NEW kind \in {"lost", "protocol"}, Discard(kind) PROVE NoLateAnswer'
  BY <1>3 DEF Discard, DiscardSocket, NoLateAnswer
<1>4. CASE Accept
  <2>1. inbox \in Seq(SentFrames) /\ inbox # <<>> /\ Head(inbox).kind # "bad"
    BY <1>4 DEF Accept, Matches
  <2>2. Head(inbox) \in SentFrames
    BY <2>1, HeadTail
  <2>3. Head(inbox).kind \in {"ok", "remote"}
    BY <2>1, <2>2 DEF SentFrames
  <2>4. ret'.kind \in {"ok", "remote"} /\ object'.socket = object.socket
    BY <1>4, <2>3 DEF Accept, CommitSession, Ended
  <2> QED
    BY <2>1, <2>4 DEF NoLateAnswer
<1>5. CASE Interrupt
  BY <1>5 DEF Interrupt, Ended, NoLateAnswer
<1>6. CASE Close
  <2>1. /\ ~object'.socket /\ inbox' = <<>> /\ UNCHANGED <<pending, ret>>
        /\ object'.reset = object.reset
    BY <1>6 DEF Close
  <2> QED
    BY <2>1 DEF NoLateAnswer, Idle
<1>7. CASE Serve \/ Deny \/ Garble \/ Silence
  <2>1. UNCHANGED <<object, pending, ret>> /\ (~object.socket => inbox' = inbox)
    BY <1>7, Zenon DEF Serve, Deny, Garble, Silence, Take, Reply, client
  <2> QED
    BY <2>1 DEF NoLateAnswer, Idle
<1>8. CASE UNCHANGED <<object, pending, ret, inbox>>
  BY <1>8 DEF NoLateAnswer, Idle
<1> QED
  BY <1>1, <1>2, <1>3, <1>4, <1>5, <1>6, <1>7, <1>8
  DEF Next, TransportLost, Reject, ChangeSession, Stop, client, vars

\* After a lost or violated wait nothing can arrive any more.
THEOREM NoLateAnswerHolds == Spec => []NoLateAnswer
<1>1. Init => NoLateAnswer
  BY DEF Init, NoLateAnswer, Ended, FreshRpc
<1> QED
  BY <1>1, RpcInvariant, NoLateStep, PTL DEF Spec

-----------------------------------------------------------------------------
(* Refinement *)

\* Clearing flags that are clear changes nothing.
LEMMA WaitingObject ==
    ASSUME RpcInv, ~Idle
    PROVE  ClearFlags(object) = object /\ Outcome!OutcomesOf(object) = Outcomes
<1>1. object \in RpcObjects /\ object.socket /\ object.change = NoChange /\ ~object.reset
  BY DEF RpcInv, TypeInv, TypeOK, CallInv
<1>2. object.reset = FALSE
  BY <1>1 DEF RpcObjects
<1>3. ClearFlags(object) = object
  BY <1>1, <1>2 DEF RpcObjects, ClearFlags
<1> QED
  BY <1>1, <1>3 DEF Outcome!OutcomesOf, Outcome!Outcomes, Outcomes, Outcome!Answer, Answer,
                     Outcome!Denial, Denial, Outcome!Lost, Lost, Outcome!BadAnswer, BadAnswer,
                     Outcome!Refusal, Refusal

LEMMA OutcomeStep == RpcInv /\ [Next]_vars => [Outcome!Next]_object
<1> SUFFICES ASSUME RpcInv, [Next]_vars PROVE Outcome!Next \/ UNCHANGED object
  OBVIOUS
<1> USE DEF Outcome!Next, Outcome!AfterRequest, Outcome!CommitSession, Outcome!DiscardSocket,
            Outcome!ClearFlags, Outcome!NoChange
<1>1. CASE Refuse \/ \E m \in Methods : Submit(m)
  <2>1. object' = ClearFlags(object)
    BY <1>1 DEF Refuse, Submit
  <2>2. Outcome!Refusal \in Outcome!OutcomesOf(object) /\ Outcome!Refusal.kind = "refused"
    BY DEF Outcome!OutcomesOf, Outcome!Outcomes, Outcome!Refusal
  <2>3. object' = Outcome!AfterRequest(object, Outcome!Refusal)
    BY <2>1, <2>2 DEF ClearFlags, NoChange
  <2> QED
    BY <2>2, <2>3
<1>2. ASSUME NEW kind \in {"lost", "protocol"}, ~Idle, Discard(kind) PROVE Outcome!Next
  <2>1. object' = DiscardSocket(ClearFlags(object))
    BY <1>2, WaitingObject DEF Discard
  <2>2. Lost \in Outcome!OutcomesOf(object) /\ Lost.kind = "lost"
    BY <1>2, WaitingObject DEF Outcomes, Lost
  <2>3. object' = Outcome!AfterRequest(object, Lost)
    BY <2>1, <2>2 DEF ClearFlags, DiscardSocket, NoChange
  <2> QED
    BY <2>2, <2>3
<1>3. CASE Accept
  <2> DEFINE s == Head(inbox).session
  <2>1. s \in Sessions /\ ~Idle
    <3>1. inbox \in Seq(SentFrames) /\ inbox # <<>> /\ ~Idle
      BY <1>3 DEF Accept, RpcInv, TypeInv
    <3>2. Head(inbox) \in SentFrames
      BY <3>1, HeadTail
    <3> QED
      BY <3>1, <3>2 DEF SentFrames
  <2>2. object' = CommitSession(ClearFlags(object), s)
    BY <1>3, <2>1, WaitingObject DEF Accept
  <2>3. Answer(s) \in Outcome!OutcomesOf(object) /\ Answer(s).kind = "ok" /\ Answer(s).session = s
    BY <2>1, WaitingObject DEF Outcomes, Answer
  <2> HIDE DEF s
  <2>4. object' = Outcome!AfterRequest(object, Answer(s))
    BY <2>2, <2>3 DEF ClearFlags, CommitSession, NoChange
  <2> QED
    BY <2>3, <2>4
<1>4. CASE Close
  BY <1>4 DEF Close
<1>5. CASE UNCHANGED object
  BY <1>5
<1> QED
  BY <1>1, <1>2, <1>3, <1>4, <1>5
  DEF Next, TransportLost, Reject, Interrupt, Serve, Deny, Garble, Silence, Take, ChangeSession,
      Stop, client, vars

\* Seen from BridgeClient a request, however many steps and frames it takes, is
\* one outcome of BridgeConnections.
THEOREM OutcomeHolds == Spec => OutcomeSpec
<1>1. Init => Outcome!Init
  BY DEF Init, Outcome!Init, FreshRpc, Outcome!FreshRpc, NoChange, Outcome!NoChange
<1> QED
  BY <1>1, RpcInvariant, OutcomeStep, PTL DEF Spec, OutcomeSpec, Outcome!Spec
=============================================================================
