----------------------- MODULE BridgeFreshnessProofs -----------------------
(***************************************************************************)
(* The caller's copy is current unless the network lost what the client    *)
(* cannot miss yet, and a gap is reported only when there is one: proofs   *)
(* about BridgeSystem for any number of changes, losses and restarts, and  *)
(* for any length of the sequence numbers.                                 *)
(***************************************************************************)
EXTENDS BridgeSystemProofs, NumberLemmas, FiniteSetTheorems

-----------------------------------------------------------------------------
(* One event connection: w, the running session s, the number n of its     *)
(* last event, the versions v and the clock c                              *)

\* Events are in flight in the order of their changes.
Sorted(w) == \A i, j \in 1..Len(w.queue) : i < j => w.queue[i].at < w.queue[j].at

\* No event is from the future or newer than the version of its topic, and
\* none is both in flight and lost.
Dated(w, v, c) ==
    /\ \A e \in Sent(w) : e.at <= c /\ e.at <= v[e.topic]
    /\ \A e \in InFlight(w), f \in w.lost : e.at # f.at

\* The present version of t has an event of its own on the connection.
Announced(w, v, t) == \E e \in Sent(w) : e.topic = t /\ e.at = v[t]

\* A reader that holds value for t has the present version or is told of it.
Current(w, value, v, t) == value[t] = v[t] \/ Announced(w, v, t)

\* Every topic that has changed since an event in flight is announced.
Told(w, s, v) ==
    w.session = s => \A e \in InFlight(w), t \in Topics : v[t] > e.at => Announced(w, v, t)

\* The connection is known to have existed at clock m.
Reached(w, s, c, m) == (\E e \in InFlight(w) : m <= e.at) \/ (w.session = s /\ m <= c)

\* Behind clock p every change has an event.
Gapless(w, s, c, p) == \A m \in Nat : m > p /\ Reached(w, s, c, m) => \E e \in Sent(w) : e.at = m

\* Event numbers count changes, from some offset k on.
Numbered(w, s, n, c, k) ==
    /\ \A e \in InFlight(w) : e.number % UINT32_MAX = (k + e.at) % UINT32_MAX
    /\ w.session = s => n % UINT32_MAX = (k + c) % UINT32_MAX

WireInv(w, s, n, v, c) ==
    /\ Sorted(w)
    /\ Dated(w, v, c)
    /\ Told(w, s, v)
    /\ \A e \in InFlight(w) : Gapless(w, s, c, e.at)
    /\ \E k \in Nat : Numbered(w, s, n, c, k)

\* Where the reader of a connection stands: l is the number of the event of
\* clock p, everything in flight comes later, nothing in between is missing.
ReadingInv(w, s, n, c, p, l) ==
    /\ p \in 0..c
    /\ \A e \in InFlight(w) : p < e.at
    /\ Gapless(w, s, c, p)
    /\ \E k \in Nat : Numbered(w, s, n, c, k) /\ l % UINT32_MAX = (k + p) % UINT32_MAX

\* Losses are paid for.
PaidLosses(w, d) == IsFiniteSet(w.lost) /\ Cardinality(w.lost) + d <= MaxDrops

-----------------------------------------------------------------------------
(* What happens to a connection *)

\* Events are of their type; Events itself stays folded.
LEMMA SentType ==
    ASSUME NEW w, WireTypeOK(w)
    PROVE  /\ \A e \in Sent(w) : /\ e.at \in Nat /\ e.at > 0 /\ e.topic \in Topics
                                 /\ e.number \in EventSequences
           /\ InFlight(w) \subseteq Sent(w) /\ w.lost \subseteq Sent(w)
<1>1. InFlight(w) \subseteq Events
  <2> HIDE DEF Events
  <2> QED
    BY DEF WireTypeOK, InFlight
<1>2. Sent(w) \subseteq Events
  BY <1>1 DEF Sent, WireTypeOK
<1> QED
  BY <1>2, SystemAssumption DEF Events, Sent

\* What holds of a connection x that was w before event d of topic t.
Joined(w, x, s, n, v, c, m, u, d) ==
    /\ Dated(w, v, c) => Dated(x, u, d)
    /\ Dated(w, v, c) /\ Told(w, s, v) => Told(x, s, u)
    /\ \A p \in Nat : Gapless(w, s, c, p) => Gapless(x, s, d, p)
    /\ Dated(w, v, c) => Gapless(x, s, d, d)
    /\ \A k \in Nat : Numbered(w, s, n, c, k) => Numbered(x, s, m, d, k)
    /\ \A y \in Topics, value \in [Topics -> Nat] : Current(w, value, v, y) => Current(x, value, u, y)

\* An event of the next change joins a connection to the running Bridge.
LEMMA Joins ==
    ASSUME NEW w, WireTypeOK(w), NEW x, NEW s, NEW n \in MaybeSequences,
           NEW v \in [Topics -> Nat], NEW c \in Nat, \A t \in Topics : v[t] <= c,
           NEW d \in Nat, d = c + 1, NEW m, m = NextSequence(n),
           NEW t \in Topics, NEW e \in Events, e.topic = t, e.at = d,
           e.number = m,
           w.session = s, x.session = s,
           InFlight(x) \subseteq InFlight(w) \cup {e},
           InFlight(w) \subseteq InFlight(x),
           x.lost \subseteq w.lost \cup {e},
           ~(e \in InFlight(x) /\ e \in x.lost),
           Sent(x) = Sent(w) \cup {e},
           NEW u \in [Topics -> Nat], u[t] = d,
           \A y \in Topics : y # t => u[y] = v[y]
    PROVE  Joined(w, x, s, n, v, c, m, u, d)
<1> HIDE DEF Events
<1>0. /\ \A f \in Sent(w) : f.at \in Nat /\ f.topic \in Topics
      /\ InFlight(w) \subseteq Sent(w) /\ w.lost \subseteq Sent(w)
      /\ InFlight(x) \subseteq Sent(x)
  BY SentType DEF Sent
<1>1. /\ u[t] = d /\ \A y \in Topics : y # t => u[y] = v[y]
      /\ \A y \in Topics : v[y] \in Nat /\ v[y] <= u[y]
  OBVIOUS
<1>2. Announced(x, u, t)
  BY <1>1 DEF Announced
<1>3. \A y \in Topics : y # t /\ Announced(w, v, y) => Announced(x, u, y)
  BY <1>1 DEF Announced
<1>4. ASSUME Dated(w, v, c) PROVE Dated(x, u, d)
  <2>1. \A f \in Sent(x) : f.at <= d /\ f.at <= u[f.topic]
    BY <1>0, <1>1, <1>4 DEF Dated
  <2>2. ASSUME NEW f \in InFlight(x), NEW g \in x.lost PROVE f.at # g.at
    <3>1. \A h \in Sent(w) : h.at <= c
      BY <1>4 DEF Dated
    <3>2. CASE f \in InFlight(w) /\ g \in w.lost
      BY <1>4, <3>2 DEF Dated
    <3>3. CASE f = e /\ g \in w.lost
      BY <1>0, <3>1, <3>3
    <3>4. CASE f \in InFlight(w) /\ g = e
      BY <1>0, <3>1, <3>4
    <3>5. ~(f = e /\ g = e)
      OBVIOUS
    <3> QED
      BY <3>2, <3>3, <3>4, <3>5
  <2> QED
    BY <2>1, <2>2 DEF Dated
<1>5. ASSUME Dated(w, v, c), Told(w, s, v) PROVE Told(x, s, u)
  <2>1. SUFFICES ASSUME NEW f \in InFlight(x), NEW y \in Topics, u[y] > f.at
                 PROVE  Announced(x, u, y)
    BY DEF Told
  <2>2. CASE y = t
    BY <1>2, <2>2
  <2>3. CASE y # t /\ f = e
    BY <1>1, <2>1, <2>3
  <2>4. CASE y # t /\ f \in InFlight(w)
    <3>1. v[y] > f.at
      BY <1>1, <2>1, <2>4
    <3>2. Announced(w, v, y)
      BY <1>5, <2>4, <3>1 DEF Told
    <3> QED
      BY <1>3, <2>4, <3>2
  <2> QED
    BY <2>2, <2>3, <2>4
<1>6. ASSUME NEW p \in Nat, Gapless(w, s, c, p) PROVE Gapless(x, s, d, p)
  <2>1. SUFFICES ASSUME NEW y \in Nat, y > p, Reached(x, s, d, y)
                 PROVE  \E f \in Sent(x) : f.at = y
    BY DEF Gapless
  <2>2. CASE y <= c
    BY <1>6, <2>1, <2>2 DEF Gapless, Reached
  <2>3. CASE y = d
    BY <2>3
  <2>4. CASE y > d
    <3>1. PICK f \in InFlight(w) : y <= f.at
      BY <2>1, <2>4 DEF Reached
    <3> QED
      BY <1>0, <1>6, <2>1, <3>1 DEF Gapless, Reached
  <2> QED
    BY <2>2, <2>3, <2>4
<1>7. ASSUME NEW k \in Nat, Numbered(w, s, n, c, k)
      PROVE  Numbered(x, s, m, d, k)
  <2>1. UINT32_MAX \in Nat \ {0} /\ n \in Nat /\ k + c \in Nat
    BY WireAssumption DEF MaybeSequences
  <2>2. n % UINT32_MAX = (k + c) % UINT32_MAX
    BY <1>7 DEF Numbered
  <2>3. ((n % UINT32_MAX) + 1) % UINT32_MAX = ((k + c) + 1) % UINT32_MAX
    BY <2>1, <2>2, SuccessorMod
  <2>4. NextSequence(n) % UINT32_MAX = (k + d) % UINT32_MAX
    BY <2>3 DEF NextSequence
  <2> QED
    BY <1>7, <2>4 DEF Numbered
<1>8. ASSUME Dated(w, v, c) PROVE Gapless(x, s, d, d)
  <2>1. \A f \in InFlight(x) : f.at <= d /\ f.at \in Nat
    BY <1>0, <1>4, <1>8 DEF Dated
  <2> QED
    BY <2>1 DEF Gapless, Reached
<1>9. \A y \in Topics, value \in [Topics -> Nat] : Current(w, value, v, y) => Current(x, value, u, y)
  BY <1>1, <1>2, <1>3 DEF Current
<1> QED
  BY <1>4, <1>5, <1>6, <1>7, <1>8, <1>9 DEF Joined

\* Sorted and gapless, the oldest event, of clock a, leaves a connection.
LEMMA LeavesBehind ==
    ASSUME NEW w, NEW x, NEW s, NEW n, NEW v \in [Topics -> Nat], NEW c \in Nat, NEW a \in Nat,
           x.session = w.session, x.lost = w.lost,
           InFlight(x) \subseteq InFlight(w),
           \A e \in InFlight(w) : e.at = a \/ e \in InFlight(x),
           \E e \in InFlight(w) : e.at = a,
           \A e \in Sent(w) : e.at \in Nat /\ e.topic \in Topics,
           Sorted(x), \A e \in InFlight(x) : a < e.at,
           WireInv(w, s, n, v, c)
    PROVE  WireInv(x, s, n, v, c) /\ Gapless(x, s, c, a)
<1>1. /\ Sent(x) \subseteq Sent(w) /\ InFlight(w) \subseteq Sent(w)
      /\ \A e \in Sent(w) : e.at = a \/ e \in Sent(x)
  BY DEF Sent
<1>2. Dated(x, v, c)
  BY <1>1 DEF WireInv, Dated
<1>3. \A p \in Nat : a <= p /\ Gapless(w, s, c, p) => Gapless(x, s, c, p)
  <2>1. SUFFICES ASSUME NEW p \in Nat, a <= p, Gapless(w, s, c, p),
                        NEW m \in Nat, m > p, Reached(x, s, c, m)
                 PROVE  \E e \in Sent(x) : e.at = m
    BY DEF Gapless
  <2>2. Reached(w, s, c, m)
    BY <2>1 DEF Reached
  <2>3. PICK e \in Sent(w) : e.at = m
    BY <2>1, <2>2 DEF Gapless
  <2>4. e.at # a
    BY <2>1, <2>3
  <2> QED
    BY <1>1, <2>3, <2>4
<1>4. Gapless(w, s, c, a)
  BY DEF WireInv
<1>5. Gapless(x, s, c, a)
  <2>1. a <= a
    OBVIOUS
  <2> QED
    BY <1>3, <1>4, <2>1
<1>6. \A e \in InFlight(x) : Gapless(x, s, c, e.at)
  <2> TAKE e \in InFlight(x)
  <2>1. e.at \in Nat /\ a <= e.at
    BY <1>1
  <2>2. Gapless(w, s, c, e.at)
    BY DEF WireInv
  <2> QED
    BY <1>3, <2>1, <2>2
<1>7. Told(x, s, v)
  <2>1. SUFFICES ASSUME x.session = s, NEW e \in InFlight(x), NEW t \in Topics, v[t] > e.at
                 PROVE  Announced(x, v, t)
    BY DEF Told
  <2>2. Announced(w, v, t)
    BY <2>1 DEF WireInv, Told
  <2>3. PICK f \in Sent(w) : f.topic = t /\ f.at = v[t]
    BY <2>2 DEF Announced
  <2>4. e.at \in Nat /\ a < e.at
    BY <1>1
  <2>5. f.at # a
    BY <2>1, <2>3, <2>4
  <2> QED
    BY <1>1, <2>3, <2>5 DEF Announced
<1>8. \E k \in Nat : Numbered(x, s, n, c, k)
  BY DEF WireInv, Numbered
<1> QED
  BY <1>2, <1>5, <1>6, <1>7, <1>8 DEF WireInv

\* The oldest event leaves a connection.
LEMMA Leaves ==
    ASSUME NEW w, WireTypeOK(w), w.queue # <<>>,
           NEW x, x = [w EXCEPT !.queue = Tail(@)],
           NEW h, h = Head(w.queue),
           NEW s, NEW n, NEW v \in [Topics -> Nat], NEW c \in Nat,
           WireInv(w, s, n, v, c)
    PROVE  /\ h.at \in Nat
           /\ \A e \in InFlight(x) : h.at < e.at
           /\ \A e \in InFlight(w) : h.at <= e.at
           /\ WireInv(x, s, n, v, c)
           /\ Gapless(x, s, c, h.at)
<1> HIDE DEF Events
<1>0. w.queue \in Seq(Events)
  BY DEF WireTypeOK
<1>1. /\ x.session = w.session /\ x.lost = w.lost /\ x.queue = Tail(w.queue)
      /\ h \in InFlight(w) /\ InFlight(x) \subseteq InFlight(w)
      /\ \A e \in InFlight(w) : e = h \/ e \in InFlight(x)
  <2>1. x.queue = Tail(w.queue)
    BY DEF WireTypeOK
  <2>2. /\ x.session = w.session /\ x.lost = w.lost /\ Head(w.queue) \in InFlight(w)
        /\ InFlight(x) \subseteq InFlight(w)
        /\ \A e \in InFlight(w) : e = Head(w.queue) \/ e \in InFlight(x)
    BY PopSent
  <2> QED
    BY <2>1, <2>2
<1>2. /\ h = w.queue[1] /\ 1 \in 1..Len(w.queue) /\ Len(x.queue) \in Nat /\ Len(w.queue) \in Nat
      /\ \A i \in 1..Len(x.queue) : i + 1 \in 2..Len(w.queue) /\ x.queue[i] = w.queue[i + 1]
  BY <1>0, <1>1, HeadTail
<1>3. /\ \A e \in Sent(w) : e.at \in Nat /\ e.topic \in Topics
      /\ InFlight(w) \subseteq Sent(w)
  BY SentType
<1>4. h.at \in Nat
  BY <1>1, <1>3
<1>5. Sorted(x)
  <2>1. \A i, j \in 2..Len(w.queue) : i < j => w.queue[i].at < w.queue[j].at
    BY <1>2 DEF WireInv, Sorted
  <2>2. SUFFICES ASSUME NEW i \in 1..Len(x.queue), NEW j \in 1..Len(x.queue), i < j
                 PROVE  x.queue[i].at < x.queue[j].at
    BY DEF Sorted
  <2>3. i + 1 \in 2..Len(w.queue) /\ x.queue[i] = w.queue[i + 1]
    BY <1>2
  <2>4. j + 1 \in 2..Len(w.queue) /\ x.queue[j] = w.queue[j + 1] /\ i + 1 < j + 1
    BY <1>2, <2>2
  <2> QED
    BY <2>1, <2>3, <2>4
<1>6. \A e \in InFlight(x) : h.at < e.at
  <2>1. \A i \in 2..Len(w.queue) : w.queue[1].at < w.queue[i].at
    <3> TAKE i \in 2..Len(w.queue)
    <3>1. 1 \in 1..Len(w.queue) /\ i \in 1..Len(w.queue) /\ 1 < i
      BY <1>2
    <3> QED
      BY <3>1 DEF WireInv, Sorted
  <2>2. \A i \in 1..Len(x.queue) : h.at < x.queue[i].at
    BY <1>2, <2>1
  <2> QED
    BY <2>2 DEF InFlight
<1>7. \A e \in InFlight(w) : h.at <= e.at
  <2> TAKE e \in InFlight(w)
  <2>1. CASE e = h
    BY <1>4, <2>1
  <2>2. CASE e \in InFlight(x)
    <3>1. e.at \in Nat /\ h.at < e.at
      BY <1>3, <1>6, <2>2
    <3> QED
      BY <1>4, <3>1
  <2> QED
    BY <1>1, <2>1, <2>2
<1>8. \A e \in InFlight(w) : e.at = h.at \/ e \in InFlight(x)
  BY <1>1
<1>9. \E e \in InFlight(w) : e.at = h.at
  BY <1>1
<1>10. WireInv(x, s, n, v, c) /\ Gapless(x, s, c, h.at)
  BY <1>1, <1>3, <1>4, <1>5, <1>6, <1>8, <1>9, LeavesBehind
<1> QED
  BY <1>4, <1>6, <1>7, <1>10

\* What happens at another runtime leaves a connection as it is.
LEMMA Elsewhere ==
    ASSUME NEW w, WireTypeOK(w), NEW s, NEW z, w.session # z, NEW n, NEW m,
           NEW v \in [Topics -> Nat], NEW u \in [Topics -> Nat], \A t \in Topics : v[t] <= u[t],
           NEW c \in Nat, NEW d \in Nat, c <= d
    PROVE  WireInv(w, s, n, v, c) => WireInv(w, z, m, u, d)
<1>1. /\ \A e \in Sent(w) : e.at \in Nat /\ e.topic \in Topics
      /\ InFlight(w) \subseteq Sent(w)
  BY SentType
<1>2. \A q : Gapless(w, s, c, q) => Gapless(w, z, d, q)
  BY DEF Gapless, Reached
<1>3. \A k : Numbered(w, s, n, c, k) => Numbered(w, z, m, d, k)
  BY DEF Numbered
<1>4. ASSUME WireInv(w, s, n, v, c) PROVE WireInv(w, z, m, u, d)
  <2>1. Dated(w, u, d)
    <3>1. \A e \in Sent(w) : e.at <= c /\ e.at <= v[e.topic]
      BY <1>4 DEF WireInv, Dated
    <3>2. ASSUME NEW e \in Sent(w) PROVE e.at <= d /\ e.at <= u[e.topic]
      <4>1. e.at \in Nat /\ e.topic \in Topics /\ v[e.topic] \in Nat /\ u[e.topic] \in Nat
        BY <1>1
      <4> QED
        BY <3>1, <4>1
    <3> QED
      BY <1>4, <3>2 DEF WireInv, Dated
  <2>2. Told(w, z, u)
    BY DEF Told
  <2>3. \A e \in InFlight(w) : Gapless(w, z, d, e.at)
    BY <1>2, <1>4 DEF WireInv
  <2>4. \E k \in Nat : Numbered(w, z, m, d, k)
    BY <1>3, <1>4 DEF WireInv
  <2> QED
    BY <1>4, <2>1, <2>2, <2>3, <2>4 DEF WireInv
<1> QED
  BY <1>4

\* So does where its reader stands.
LEMMA ElsewhereReading ==
    ASSUME NEW w, NEW s, NEW z, w.session # z, NEW n, NEW m, NEW c \in Nat, NEW d \in Nat, c <= d,
           NEW p, NEW l, ReadingInv(w, s, n, c, p, l)
    PROVE  ReadingInv(w, z, m, d, p, l)
BY DEF ReadingInv, Gapless, Reached, Numbered

\* Nothing is in flight on a connection that was just made; some offset fits
\* the number of the running Bridge.
LEMMA Begins ==
    ASSUME NEW w, Sent(w) = {}, w.queue = <<>>, NEW s, NEW n \in Nat, NEW v, NEW c \in Nat
    PROVE  WireInv(w, s, n, v, c)
<1>1. InFlight(w) = {}
  BY DEF Sent
<1>2. \E k \in Nat : n % UINT32_MAX = (k + c) % UINT32_MAX
  <2>1. UINT32_MAX \in Nat \ {0}
    BY WireAssumption
  <2> DEFINE k == n + (UINT32_MAX - 1) * c
  <2>2. k \in Nat /\ k + c = n + UINT32_MAX * c
    <3>1. (UINT32_MAX - 1) * c \in Nat /\ (UINT32_MAX - 1) * c = UINT32_MAX * c - c
      BY <2>1
    <3>2. UINT32_MAX * c \in Nat
      BY <2>1
    <3> QED
      BY <3>1, <3>2
  <2>3. (n + UINT32_MAX * c) % UINT32_MAX = n % UINT32_MAX
    BY <2>1, AddMultiple
  <2> QED
    BY <2>2, <2>3
<1>3. Sorted(w)
  BY DEF Sorted
<1> QED
  BY <1>1, <1>2, <1>3 DEF WireInv, Dated, Told, Numbered

\* What publishing e does to a connection that listens.
LEMMA PublishQueue ==
    ASSUME NEW w, WireTypeOK(w), NEW object, Listens(object), w.session = session,
           NEW e \in Events, NEW kept \in BOOLEAN, NEW x, x = Publish(w, object, e, kept)
    PROVE  /\ x.session = session
           /\ x.lost \subseteq w.lost \cup {e} /\ (kept => x.lost = w.lost)
           /\ InFlight(w) \subseteq InFlight(x) /\ InFlight(x) \subseteq InFlight(w) \cup {e}
           /\ Sent(x) = Sent(w) \cup {e}
           /\ e \notin Sent(w) => ~(e \in InFlight(x) /\ e \in x.lost)
           /\ Sorted(w) /\ (\A f \in InFlight(w) : f.at < e.at) => Sorted(x)
<1> HIDE DEF Events
<1>0. w.queue \in Seq(Events)
  BY DEF WireTypeOK
<1>1. CASE kept
  <2>1. x.queue = Append(w.queue, e) /\ x.lost = w.lost /\ x.session = w.session
    BY <1>1 DEF Publish, WireTypeOK
  <2>2. Len(x.queue) = Len(w.queue) + 1 /\ Len(w.queue) \in Nat
    BY <1>0, <2>1
  <2>3. \A i \in 1..Len(x.queue) :
           \/ i \in 1..Len(w.queue) /\ x.queue[i] = w.queue[i]
           \/ i = Len(w.queue) + 1 /\ x.queue[i] = e
    BY <1>0, <2>1
  <2>4. InFlight(x) = InFlight(w) \cup {e}
    BY <2>2, <2>3 DEF InFlight
  <2>5. ASSUME Sorted(w), \A f \in InFlight(w) : f.at < e.at PROVE Sorted(x)
    <3>1. \A i \in 1..Len(w.queue) : w.queue[i].at < e.at
      BY <2>5 DEF InFlight
    <3>2. SUFFICES ASSUME NEW i \in 1..Len(x.queue), NEW j \in 1..Len(x.queue), i < j
                   PROVE  x.queue[i].at < x.queue[j].at
      BY DEF Sorted
    <3>3. i \in 1..Len(w.queue) /\ x.queue[i] = w.queue[i]
      BY <2>2, <2>3, <3>2
    <3>4. CASE j \in 1..Len(w.queue) /\ x.queue[j] = w.queue[j]
      BY <2>5, <3>2, <3>3, <3>4 DEF Sorted
    <3>5. CASE x.queue[j] = e
      BY <3>1, <3>3, <3>5
    <3> QED
      BY <2>3, <3>4, <3>5
  <2> QED
    BY <1>1, <2>1, <2>4, <2>5 DEF Sent
<1>2. CASE ~kept
  <2>1. x.queue = w.queue /\ x.lost = w.lost \cup {e} /\ x.session = w.session
    BY <1>2 DEF Publish, WireTypeOK
  <2>2. InFlight(x) = InFlight(w) /\ (Sorted(w) => Sorted(x))
    BY <2>1 DEF InFlight, Sorted
  <2> QED
    BY <1>2, <2>1, <2>2 DEF Sent
<1> QED
  BY <1>1, <1>2

\* What publishing a change of t to w, which becomes x, leaves: the numbers and
\* versions after it, and for every topic that was current, currency.
Published(w, x, s, n, v, c, m, u, d) ==
    /\ x.session = w.session
    /\ WireInv(x, s, m, u, d)
    /\ \A p, l : ReadingInv(w, s, n, c, p, l) => ReadingInv(x, s, m, d, p, l)
    /\ \A y \in Topics, value \in [Topics -> Nat] :
          w.session = s /\ Current(w, value, v, y) => Current(x, value, u, y)

\* A change of topic t, with event e: number n, versions v and clock c become
\* m, u and d.
Changes(t, e, n, v, c, m, u, d) ==
    /\ n \in MaybeSequences /\ m = NextSequence(n)
    /\ c \in Nat /\ d \in Nat /\ d = c + 1
    /\ v \in [Topics -> Nat] /\ u \in [Topics -> Nat]
    /\ \A y \in Topics : v[y] <= c /\ (y # t => u[y] = v[y])
    /\ t \in Topics /\ u[t] = d
    /\ e \in Events /\ e.topic = t /\ e.at = d /\ e.number = m

LEMMA PublishWire ==
    ASSUME NEW w, WireTypeOK(w), NEW object, w.session = session => Listens(object),
           NEW t, NEW e, NEW n, NEW v, NEW c, NEW m, NEW u, NEW d, Changes(t, e, n, v, c, m, u, d),
           NEW kept \in BOOLEAN, NEW x, x = Publish(w, object, e, kept),
           WireInv(w, session, n, v, c)
    PROVE  Published(w, x, session, n, v, c, m, u, d)
<1> HIDE DEF Events
<1>0. /\ n \in MaybeSequences /\ m = NextSequence(n)
      /\ c \in Nat /\ d \in Nat /\ d = c + 1
      /\ v \in [Topics -> Nat] /\ u \in [Topics -> Nat]
      /\ \A y \in Topics : v[y] <= c
      /\ \A y \in Topics : y # t => u[y] = v[y]
      /\ t \in Topics /\ u[t] = d
      /\ e \in Events /\ e.topic = t /\ e.at = d /\ e.number = m
  BY DEF Changes
<1>1. \A y \in Topics : v[y] <= u[y]
  BY <1>0
<1>2. CASE w.session # session
  <2>1. x = w
    BY <1>2 DEF Publish
  <2>2. c <= d
    BY <1>0
  <2>3. WireInv(w, session, m, u, d)
    BY <1>0, <1>1, <1>2, <2>2, Elsewhere
  <2>4. ASSUME NEW p, NEW l, ReadingInv(w, session, n, c, p, l)
        PROVE  ReadingInv(w, session, m, d, p, l)
    BY <1>0, <1>2, <2>2, <2>4, ElsewhereReading
  <2> QED
    BY <1>2, <2>1, <2>3, <2>4 DEF Published
<1>3. CASE w.session = session
  <2>1. /\ \A f \in Sent(w) : f.at \in Nat /\ f.topic \in Topics
        /\ InFlight(w) \subseteq Sent(w) /\ w.lost \subseteq Sent(w)
        /\ \A f \in Sent(w) : f.at <= c
    <3>1. \A f \in Sent(w) : f.at <= c
      BY DEF WireInv, Dated
    <3> QED
      BY <3>1, SentType
  <2>2. e \notin Sent(w) /\ \A f \in InFlight(w) : f.at < e.at
    BY <1>0, <2>1
  <2>3. Sorted(w)
    BY DEF WireInv
  <2>6. /\ x.session = session
        /\ x.lost \subseteq w.lost \cup {e} /\ (kept => x.lost = w.lost)
        /\ InFlight(w) \subseteq InFlight(x) /\ InFlight(x) \subseteq InFlight(w) \cup {e}
        /\ Sent(x) = Sent(w) \cup {e}
        /\ ~(e \in InFlight(x) /\ e \in x.lost)
        /\ Sorted(x)
    BY <1>0, <1>3, <2>2, <2>3, PublishQueue
  <2>7. Joined(w, x, session, n, v, c, m, u, d)
    BY <1>0, <1>3, <2>6, Joins
  <2>8. \A f \in InFlight(x) : Gapless(x, session, d, f.at)
    <3> TAKE f \in InFlight(x)
    <3>1. CASE f = e
      BY <1>0, <2>7, <3>1 DEF WireInv, Joined
    <3>2. CASE f \in InFlight(w)
      BY <2>1, <2>7, <3>2 DEF WireInv, Joined
    <3> QED
      BY <2>6, <3>1, <3>2
  <2>9. WireInv(x, session, m, u, d)
    BY <2>6, <2>7, <2>8 DEF WireInv, Joined
  <2>10. ASSUME NEW p, NEW l, ReadingInv(w, session, n, c, p, l)
         PROVE  ReadingInv(x, session, m, d, p, l)
    <3>1. p \in 0..c /\ p \in Nat /\ p \in 0..d /\ p < d
      BY <1>0, <2>10 DEF ReadingInv
    <3>2. \A f \in InFlight(x) : p < f.at
      BY <1>0, <2>1, <2>6, <2>10, <3>1 DEF ReadingInv
    <3>3. Gapless(x, session, d, p)
      BY <2>7, <2>10, <3>1 DEF ReadingInv, Joined
    <3>4. \E k \in Nat : /\ Numbered(x, session, m, d, k)
                         /\ l % UINT32_MAX = (k + p) % UINT32_MAX
      BY <2>7, <2>10 DEF ReadingInv, Joined
    <3> QED
      BY <3>1, <3>2, <3>3, <3>4 DEF ReadingInv
  <2> QED
    BY <1>3, <2>6, <2>7, <2>9, <2>10 DEF Published, Joined
<1> QED
  BY <1>2, <1>3

\* A finite set with an event of every clock from a to b has that many events.
LEMMA ManyClocks ==
    ASSUME NEW S, IsFiniteSet(S), NEW a \in Nat, NEW b \in Nat, a <= b,
           \A m \in a..b : \E e \in S : e.at = m
    PROVE  Cardinality(S) \in Nat /\ b - a + 1 <= Cardinality(S)
<1> DEFINE g == [m \in a..b |-> CHOOSE e \in S : e.at = m]
<1>1. \A m \in a..b : g[m] \in S /\ g[m].at = m
  OBVIOUS
<1>2. g \in [a..b -> S]
  BY <1>1
<1>3. g \in Injection(a..b, S)
  <2> HIDE DEF g
  <2> QED
    BY <1>1, <1>2 DEF Injection, IsInjective
<1> HIDE DEF g
<1>4. Cardinality(a..b) <= Cardinality(S)
  BY <1>3, FS_Injection
<1>5. Cardinality(a..b) = b - a + 1
  BY FS_Interval
<1> QED
  BY <1>4, <1>5, FS_CardinalityType

\* The oldest event in flight against what the reader knows: the next number
\* means the next clock, for the losses are too few for a full circle; any
\* other number means that an event in between was lost.
LEMMA NextClock ==
    ASSUME NEW w, WireTypeOK(w), NEW h \in Events, h \in InFlight(w),
           \A e \in InFlight(w) : h.at <= e.at,
           NEW s, NEW n, NEW c \in Nat, NEW p \in Nat, NEW l \in MaybeSequences,
           ReadingInv(w, s, n, c, p, l), NEW d \in Nat, PaidLosses(w, d)
    PROVE  /\ p < h.at
           /\ h.number = NextSequence(l) => h.at = p + 1
           /\ h.number # NextSequence(l) => \E e \in w.lost : p < e.at /\ e.at < h.at
<1>1. /\ h.at \in Nat /\ h.number \in 1..UINT32_MAX /\ p < h.at
      /\ UINT32_MAX \in Nat \ {0} /\ l \in Nat /\ MaxDrops \in Nat /\ MaxDrops < UINT32_MAX
  BY WireAssumption, SystemAssumption DEF Events, EventSequences, MaybeSequences, ReadingInv
<1>2. \A m \in Nat : p < m /\ m < h.at => \E e \in w.lost : e.at = m
  <2> SUFFICES ASSUME NEW m \in Nat, p < m, m < h.at PROVE \E e \in w.lost : e.at = m
    OBVIOUS
  <2>1. m <= h.at
    BY <1>1
  <2>2. PICK e \in Sent(w) : e.at = m
    BY <2>1 DEF ReadingInv, Gapless, Reached
  <2>3. e \notin InFlight(w)
    BY <1>1, <2>2
  <2> QED
    BY <2>2, <2>3 DEF Sent
<1>3. PICK k \in Nat : Numbered(w, s, n, c, k) /\ l % UINT32_MAX = (k + p) % UINT32_MAX
  BY DEF ReadingInv
<1>4. h.number % UINT32_MAX = (k + h.at) % UINT32_MAX
  BY <1>3 DEF Numbered
<1> HIDE DEF Events
<1>5. NextSequence(l) \in 1..UINT32_MAX /\ NextSequence(l) % UINT32_MAX = (k + (p + 1)) % UINT32_MAX
  <2>1. k + p \in Nat
    OBVIOUS
  <2>2. ((l % UINT32_MAX) + 1) % UINT32_MAX = ((k + p) + 1) % UINT32_MAX
    BY <1>1, <1>3, <2>1, SuccessorMod
  <2>3. (k + p) + 1 = k + (p + 1)
    OBVIOUS
  <2> QED
    BY <1>1, <2>2, <2>3, NextSequenceType DEF NextSequence, EventSequences
<1>6. ASSUME h.number = NextSequence(l) PROVE h.at = p + 1
  <2> DEFINE a == k + (p + 1)
             b == k + h.at
  <2>1. a \in Nat /\ b \in Nat /\ a <= b /\ b - a = h.at - (p + 1)
    BY <1>1
  <2>2. a % UINT32_MAX = b % UINT32_MAX
    BY <1>4, <1>5, <1>6
  <2>3. a = b \/ b - a >= UINT32_MAX
    <3> HIDE DEF a, b
    <3> QED
      BY <1>1, <2>1, <2>2, SameModApart
  <2>4. CASE b - a >= UINT32_MAX
    <3> HIDE DEF a, b
    <3>1. p + 1 \in Nat /\ h.at - 1 \in Nat /\ p + 1 <= h.at - 1
      BY <1>1, <2>1, <2>4
    <3>2. \A m \in (p + 1)..(h.at - 1) : \E e \in w.lost : e.at = m
      BY <1>1, <1>2
    <3>3. IsFiniteSet(w.lost)
      BY DEF PaidLosses
    <3>4. Cardinality(w.lost) \in Nat /\ (h.at - 1) - (p + 1) + 1 <= Cardinality(w.lost)
      BY <3>1, <3>2, <3>3, ManyClocks
    <3>5. Cardinality(w.lost) + d <= MaxDrops
      BY DEF PaidLosses
    <3> QED
      BY <1>1, <2>1, <2>4, <3>4, <3>5
  <2>5. CASE a = b
    BY <1>1, <2>5
  <2> QED
    BY <2>3, <2>4, <2>5
<1>7. ASSUME h.number # NextSequence(l) PROVE \E e \in w.lost : p < e.at /\ e.at < h.at
  <2>1. h.at # p + 1
    <3>1. SUFFICES ASSUME h.at = p + 1 PROVE FALSE
      OBVIOUS
    <3>2. h.number % UINT32_MAX = NextSequence(l) % UINT32_MAX
      BY <1>4, <1>5, <3>1
    <3> DEFINE a == h.number
               b == NextSequence(l)
    <3>3. a \in 1..UINT32_MAX /\ b \in 1..UINT32_MAX /\ a % UINT32_MAX = b % UINT32_MAX /\ a # b
      BY <1>1, <1>5, <1>7, <3>2
    <3> HIDE DEF a, b
    <3>4. a \in Nat /\ b \in Nat /\ UINT32_MAX \in Nat \ {0} /\ a % UINT32_MAX = b % UINT32_MAX
      BY <1>1, <3>3
    <3>5. CASE a <= b
      <4>1. a = b \/ b - a >= UINT32_MAX
        BY <3>4, <3>5, SameModApart
      <4> QED
        BY <1>1, <3>3, <4>1
    <3>6. CASE b <= a
      <4>1. b = a \/ a - b >= UINT32_MAX
        BY <3>4, <3>6, SameModApart
      <4> QED
        BY <1>1, <3>3, <4>1
    <3> QED
      BY <3>4, <3>5, <3>6
  <2>2. p + 1 \in Nat /\ p < p + 1 /\ p + 1 < h.at
    BY <1>1, <2>1
  <2>3. PICK e \in w.lost : e.at = p + 1
    BY <1>2, <2>2
  <2> QED
    BY <2>2, <2>3
<1> QED
  BY <1>1, <1>6, <1>7

-----------------------------------------------------------------------------
(* The invariant *)

WiresInv ==
    /\ WireInv(eventWire, session, number, version, clock)
    /\ WireInv(newEventWire, session, number, version, clock)
    /\ PaidLosses(eventWire, budget.drops) /\ PaidLosses(newEventWire, budget.drops)

\* While the client is healthy, the sequence number it holds is that of the
\* last event it read, and nothing it has read past was lost.
PositionInv ==
    /\ span = NoSpan <=> lastSeq = 0
    /\ phase \in {"new_events", "new_rpc"} => lastSeq = 0
    /\ recovery = "HEALTHY" /\ span # NoSpan
         => /\ ReadingInv(eventWire, session, number, clock, span[2], lastSeq)
            /\ \A e \in eventWire.lost : e.at \notin span[1]..span[2]

\* The first k queries of a collection ask for t.
HasRead(k, t) == \E i \in 1..5 : i <= k /\ QueryTopics[i] = t

\* What a running collection has read is current for the events that come after.
CollectedInv ==
    /\ phase = "sync" /\ eventWire.session = session
         => \A t \in Topics : HasRead(Len(parts), t) => Current(eventWire, collected, version, t)
    /\ phase = "re_sync" /\ newEventWire.session = session
         => \A t \in Topics : HasRead(Len(parts), t) => Current(newEventWire, collected, version, t)
    /\ phase \in {"sync", "re_rpc", "re_sync"} => left > 0 /\ left + Len(parts) \in QueryCounts
    /\ phase = "re_rpc" => parts = <<>>

\* No version is newer than the clock, and nobody holds one newer than it is.
Bounded == \A t \in Topics : copy[t] <= version[t] /\ collected[t] <= version[t] /\ version[t] <= clock

\* So is the copy of a caller whose next call is not a recovery.
CopyInv ==
    /\ phase = "idle" /\ recovery = "HEALTHY" /\ ~Gone /\ NextCall \in {"receive", "request"}
         => \A t \in Topics : t \in todo \/ Current(eventWire, copy, version, t)
    /\ ret # Ended("receive", "remote")

FreshInv == WiresInv /\ PositionInv /\ CollectedInv /\ Bounded /\ CopyInv

\* The parts of the invariant in the next state, from facts about its values.
LEMMA WiresNext ==
    ASSUME WireInv(eventWire', session', number', version', clock'),
           WireInv(newEventWire', session', number', version', clock'),
           PaidLosses(eventWire', budget'.drops), PaidLosses(newEventWire', budget'.drops)
    PROVE  WiresInv'
BY DEF WiresInv, WireInv, PaidLosses, Sorted, Dated, Told, Announced, Gapless, Reached, Numbered,
       Sent, InFlight, NextSequence

LEMMA PositionNext ==
    ASSUME span' = NoSpan <=> lastSeq' = 0,
           phase' \in {"new_events", "new_rpc"} => lastSeq' = 0,
           recovery' = "HEALTHY" /\ span' # NoSpan
              => /\ ReadingInv(eventWire', session', number', clock', span'[2], lastSeq')
                 /\ \A e \in eventWire'.lost : e.at \notin span'[1]..span'[2]
    PROVE  PositionInv'
BY DEF PositionInv, ReadingInv, Gapless, Reached, Numbered, Sent, InFlight, NoSpan

LEMMA CollectedNext ==
    ASSUME phase' = "sync" /\ eventWire'.session = session'
              => \A t \in Topics : HasRead(Len(parts'), t) => Current(eventWire', collected', version', t),
           phase' = "re_sync" /\ newEventWire'.session = session'
              => \A t \in Topics : HasRead(Len(parts'), t) => Current(newEventWire', collected', version', t),
           phase' \in {"sync", "re_rpc", "re_sync"} => left' > 0 /\ left' + Len(parts') \in QueryCounts,
           phase' = "re_rpc" => parts' = <<>>
    PROVE  CollectedInv'
BY DEF CollectedInv, HasRead, Current, Announced, Sent, InFlight, QueryTopics, QueryCounts

LEMMA BoundedNext ==
    ASSUME \A t \in Topics : copy'[t] <= version'[t] /\ collected'[t] <= version'[t] /\ version'[t] <= clock'
    PROVE  Bounded'
BY DEF Bounded

LEMMA CopyNext ==
    ASSUME phase' = "idle" /\ recovery' = "HEALTHY" /\ ~Gone' /\ NextCall' \in {"receive", "request"}
              => \A t \in Topics : t \in todo' \/ Current(eventWire', copy', version', t),
           ret' # Ended("receive", "remote")
    PROVE  CopyInv'
BY DEF CopyInv, Current, Announced, Sent, InFlight, Ended

-----------------------------------------------------------------------------
(* Steps *)

LEMMA FreshTypes ==
    ASSUME SystemTypeOK
    PROVE  /\ RestTypeOK /\ TypeOK
           /\ WireTypeOK(eventWire) /\ WireTypeOK(newEventWire)
           /\ clock \in Nat /\ number \in MaybeSequences /\ number \in Nat
           /\ version \in [Topics -> Nat] /\ collected \in [Topics -> Nat] /\ copy \in [Topics -> Nat]
           /\ budget.drops \in 0..MaxDrops /\ MaxDrops \in Nat
           /\ session # 0
<1>1. RestTypeOK /\ TypeOK
  BY TypeParts
<1>2. 0..MaxChanges \subseteq Nat /\ MaxDrops \in Nat /\ UINT32_MAX \in Nat
  BY SystemAssumption, WireAssumption
<1> QED
  BY <1>1, <1>2, SessionsNonZero DEF RestTypeOK, MaybeSequences, BudgetType

\* One event more is lost for one drop of the budget.
LEMMA OneMoreLoss ==
    ASSUME NEW w, NEW x, NEW e, NEW d \in Nat, d > 0, PaidLosses(w, d),
           x.lost \subseteq w.lost \cup {e}
    PROVE  PaidLosses(x, d - 1)
<1>1. IsFiniteSet(w.lost) /\ Cardinality(w.lost) + d <= MaxDrops /\ MaxDrops \in Nat
  BY SystemAssumption DEF PaidLosses
<1>2. /\ IsFiniteSet(w.lost \cup {e})
      /\ Cardinality(w.lost \cup {e})
            = IF e \in w.lost THEN Cardinality(w.lost) ELSE Cardinality(w.lost) + 1
  BY <1>1, FS_AddElement
<1>3. Cardinality(w.lost) \in Nat
  BY <1>1, FS_CardinalityType
<1>4. IsFiniteSet(x.lost) /\ Cardinality(x.lost) <= Cardinality(w.lost \cup {e})
  BY <1>2, FS_Subset
<1>5. Cardinality(x.lost) \in Nat
  BY <1>4, FS_CardinalityType
<1> QED
  BY <1>1, <1>2, <1>3, <1>4, <1>5 DEF PaidLosses

\* A connection of the running Bridge has somebody listening.
LEMMA SomebodyListens ==
    ASSUME RunInv
    PROVE  /\ eventWire.session = session => Listens(events)
           /\ newEventWire.session = session => Listens(newEvents)
<1>1. session # 0
  BY FreshTypes DEF RunInv
<1> QED
  BY <1>1, EmptyWires DEF RunInv, LifeInv, Listens, FreshEvents

\* What a change does to the two event connections.
LEMMA ChangeCases ==
    ASSUME RunInv, WiresInv, Bounded, NEW t \in Topics, NEW kept \in BOOLEAN, NEW newKept \in BOOLEAN,
           Change(t, kept, newKept)
    PROVE  /\ Published(eventWire, eventWire', session, number, version, clock,
                        number', version', clock')
           /\ Published(newEventWire, newEventWire', session, number, version, clock,
                        number', version', clock')
           /\ \A e \in eventWire'.lost : e \in eventWire.lost \/ e.at = clock'
           /\ PaidLosses(eventWire', budget'.drops) /\ PaidLosses(newEventWire', budget'.drops)
<1> DEFINE e == [session |-> session, number |-> number', topic |-> t, at |-> clock']
<1>0. /\ RestTypeOK /\ WireTypeOK(eventWire) /\ WireTypeOK(newEventWire)
      /\ clock \in Nat /\ number \in MaybeSequences /\ version \in [Topics -> Nat]
      /\ budget.drops \in Nat
  BY FreshTypes DEF RunInv
<1>1. e \in Events /\ e.topic = t /\ e.at = clock' /\ e.number = number'
  <2>1. clock' \in 1..MaxChanges /\ number' \in EventSequences
    BY <1>0, NextSequenceType, SystemAssumption DEF Change, RestTypeOK
  <2> QED
    BY <1>0, <2>1 DEF Events, RestTypeOK
<1>2. /\ clock' = clock + 1 /\ clock' \in Nat /\ number' = NextSequence(number)
      /\ version' = [version EXCEPT ![t] = clock']
      /\ eventWire' = Publish(eventWire, events, e, kept)
      /\ newEventWire' = Publish(newEventWire, newEvents, e, newKept)
  BY <1>0 DEF Change
<1> HIDE DEF e, Events
<1>3. \A y \in Topics : version[y] <= clock
  BY DEF Bounded
<1>4. /\ WireInv(eventWire, session, number, version, clock)
      /\ WireInv(newEventWire, session, number, version, clock)
      /\ PaidLosses(eventWire, budget.drops) /\ PaidLosses(newEventWire, budget.drops)
  BY DEF WiresInv
<1>a. /\ eventWire.session = session => Listens(events)
      /\ newEventWire.session = session => Listens(newEvents)
  BY SomebodyListens
<1>b. Changes(t, e, number, version, clock, number', version', clock')
  <2>1. /\ version' \in [Topics -> Nat] /\ version'[t] = clock'
        /\ \A y \in Topics : y # t => version'[y] = version[y]
    BY <1>0, <1>2
  <2> QED
    BY <1>0, <1>1, <1>2, <1>3, <2>1 DEF Changes
<1>5. /\ Published(eventWire, eventWire', session, number, version, clock,
                   number', version', clock')
      /\ eventWire'.lost \subseteq eventWire.lost \cup {e}
      /\ kept => eventWire'.lost = eventWire.lost
  <2>1. /\ WireTypeOK(eventWire) /\ eventWire' = Publish(eventWire, events, e, kept)
        /\ eventWire.session = session => Listens(events)
        /\ WireInv(eventWire, session, number, version, clock)
    BY <1>0, <1>2, <1>4, <1>a
  <2>2. Published(eventWire, eventWire', session, number, version, clock, number', version', clock')
    BY <1>b, <2>1, PublishWire
  <2>3. eventWire'.lost \subseteq eventWire.lost \cup {e}
    BY <2>1 DEF Publish, WireTypeOK
  <2>4. kept => eventWire'.lost = eventWire.lost
    BY <2>1 DEF Publish, WireTypeOK
  <2> QED
    BY <2>2, <2>3, <2>4
<1>6. /\ Published(newEventWire, newEventWire', session, number, version, clock,
                   number', version', clock')
      /\ newEventWire'.lost \subseteq newEventWire.lost \cup {e}
      /\ newKept => newEventWire'.lost = newEventWire.lost
  <2>1. /\ WireTypeOK(newEventWire) /\ newEventWire' = Publish(newEventWire, newEvents, e, newKept)
        /\ newEventWire.session = session => Listens(newEvents)
        /\ WireInv(newEventWire, session, number, version, clock)
    BY <1>0, <1>2, <1>4, <1>a
  <2>2. Published(newEventWire, newEventWire', session, number, version, clock, number', version', clock')
    BY <1>b, <2>1, PublishWire
  <2>3. newEventWire'.lost \subseteq newEventWire.lost \cup {e}
    BY <2>1 DEF Publish, WireTypeOK
  <2>4. newKept => newEventWire'.lost = newEventWire.lost
    BY <2>1 DEF Publish, WireTypeOK
  <2> QED
    BY <2>2, <2>3, <2>4
<1>7. PaidLosses(eventWire', budget'.drops) /\ PaidLosses(newEventWire', budget'.drops)
  <2>1. CASE kept /\ newKept
    <3>1. budget' = budget
      BY <2>1 DEF Change
    <3>2. eventWire'.lost = eventWire.lost /\ newEventWire'.lost = newEventWire.lost
      BY <1>5, <1>6, <2>1
    <3> QED
      BY <1>4, <3>1, <3>2 DEF PaidLosses
  <2>2. CASE ~(kept /\ newKept)
    <3>1. budget.drops > 0 /\ budget' = [budget EXCEPT !.drops = @ - 1]
      BY <2>2 DEF Change
    <3>2. budget'.drops = budget.drops - 1
      BY <1>0, <3>1 DEF RestTypeOK, BudgetType
    <3>3. PaidLosses(eventWire', budget.drops - 1) /\ PaidLosses(newEventWire', budget.drops - 1)
      BY <1>0, <1>4, <1>5, <1>6, <3>1, OneMoreLoss
    <3> QED
      BY <3>2, <3>3
  <2> QED
    BY <2>1, <2>2
<1> QED
  BY <1>1, <1>5, <1>6, <1>7

\* What receive() finds at the head of the event connection, and leaves there.
LEMMA ArrivedCases ==
    ASSUME RunInv, WiresInv, ReceiveArrived
    PROVE  /\ First \in Events /\ First \in InFlight(eventWire)
           /\ \A e \in InFlight(eventWire) : First.at <= e.at
           /\ \A e \in InFlight(eventWire') : First.at < e.at
           /\ \A e \in InFlight(eventWire) : e = First \/ e \in InFlight(eventWire')
           /\ InFlight(eventWire') \subseteq InFlight(eventWire)
           /\ WireInv(eventWire', session, number, version, clock)
           /\ Gapless(eventWire', session, clock, First.at)
           /\ eventWire'.lost = eventWire.lost /\ eventWire'.session = eventWire.session
<1>1. /\ WireTypeOK(eventWire) /\ clock \in Nat /\ version \in [Topics -> Nat]
      /\ eventWire.queue # <<>> /\ eventWire' = [eventWire EXCEPT !.queue = Tail(@)]
      /\ First = Head(eventWire.queue)
      /\ WireInv(eventWire, session, number, version, clock)
  BY FreshTypes DEF RunInv, WiresInv, ReceiveArrived, Arrived, Pop, First
<1>2. First \in Events
  BY FirstType DEF RunInv, ReceiveArrived
<1> HIDE DEF First, Events
<1>3. /\ \A e \in InFlight(eventWire') : First.at < e.at
      /\ \A e \in InFlight(eventWire) : First.at <= e.at
      /\ WireInv(eventWire', session, number, version, clock)
      /\ Gapless(eventWire', session, clock, First.at)
  BY <1>1, Leaves
<1>4. /\ eventWire'.session = eventWire.session /\ eventWire'.lost = eventWire.lost
      /\ First \in InFlight(eventWire)
      /\ \A e \in InFlight(eventWire) : e = First \/ e \in InFlight(eventWire')
      /\ InFlight(eventWire') \subseteq InFlight(eventWire)
  BY <1>1, PopSent
<1> QED
  BY <1>2, <1>3, <1>4

\* A fresh connection has lost nothing.
LEMMA NothingLost ==
    ASSUME NEW d \in 0..MaxDrops
    PROVE  PaidLosses(NoWire, d) /\ PaidLosses(NewWire, d)
<1>1. NoWire.lost = {} /\ NewWire.lost = {} /\ MaxDrops \in Nat
  BY SystemAssumption DEF NoWire, NewWire
<1> QED
  BY <1>1, FS_EmptySet DEF PaidLosses

LEMMA EmptyWireInv ==
    ASSUME SystemTypeOK
    PROVE  /\ WireInv(NoWire, session, number, version, clock)
           /\ WireInv(NewWire, session, number, version, clock)
<1>1. NoWire.queue = <<>> /\ NewWire.queue = <<>> /\ Sent(NoWire) = {} /\ Sent(NewWire) = {}
  BY EmptyWires DEF NoWire, NewWire
<1> QED
  BY <1>1, FreshTypes, Begins

\* Where the event connections stay what they are, or are made or dropped.
LEMMA WiresKept ==
    ASSUME SystemTypeOK, WiresInv, UNCHANGED bridge, budget'.drops = budget.drops,
           eventWire' \in {eventWire, newEventWire, NoWire, NewWire},
           newEventWire' \in {newEventWire, NoWire, NewWire}
    PROVE  WiresInv'
<1>1. budget.drops \in 0..MaxDrops
  BY FreshTypes
<1>2. /\ session' = session /\ number' = number /\ version' = version /\ clock' = clock
  BY DEF bridge
<1>3. \A w \in {eventWire, newEventWire, NoWire, NewWire} :
         WireInv(w, session, number, version, clock) /\ PaidLosses(w, budget.drops)
  BY <1>1, EmptyWireInv, NothingLost DEF WiresInv
<1> QED
  BY <1>2, <1>3, WiresNext

LEMMA WiresStep == RunInv /\ WiresInv /\ Bounded /\ [SystemNext]_systemVars => WiresInv'
<1> SUFFICES ASSUME RunInv, WiresInv, Bounded, [SystemNext]_systemVars PROVE WiresInv'
  OBVIOUS
<1>0. /\ SystemTypeOK /\ RuntimeInv /\ RestTypeOK
      /\ WireTypeOK(eventWire) /\ WireTypeOK(newEventWire)
      /\ clock \in Nat /\ version \in [Topics -> Nat] /\ budget.drops \in Nat
      /\ WireInv(eventWire, session, number, version, clock)
      /\ WireInv(newEventWire, session, number, version, clock)
      /\ PaidLosses(eventWire, budget.drops) /\ PaidLosses(newEventWire, budget.drops)
  BY FreshTypes DEF RunInv, WiresInv
<1>1. ASSUME NEW t \in Topics, NEW kept \in BOOLEAN, NEW newKept \in BOOLEAN,
             Change(t, kept, newKept)
      PROVE  WiresInv'
  <2>1. session' = session
    BY <1>1 DEF Change
  <2> QED
    BY <1>1, <2>1, ChangeCases, WiresNext DEF Published
<1>2. CASE Restart
  <2>1. /\ clock' = clock + 1 /\ clock' \in Nat /\ clock <= clock'
        /\ version' = [t \in Topics |-> clock'] /\ version' \in [Topics -> Nat]
        /\ eventWire' = eventWire /\ newEventWire' = newEventWire
    BY <1>0, <1>2 DEF Restart, wires
  <2>2. \A t \in Topics : version[t] <= version'[t]
    BY <1>0, <2>1 DEF Bounded
  <2>3. eventWire.session # session' /\ newEventWire.session # session'
    BY <1>0, <1>2 DEF Restart, RuntimeInv
  <2>4. budget'.drops = budget.drops
    BY <1>0, <1>2 DEF Restart, RestTypeOK, BudgetType
  <2>5. /\ WireInv(eventWire, session', number', version', clock')
        /\ WireInv(newEventWire, session', number', version', clock')
    BY <1>0, <2>1, <2>2, <2>3, Elsewhere
  <2> QED
    BY <1>0, <2>1, <2>4, <2>5, WiresNext
<1>3. CASE StartEvents \/ StartRpc \/ StartFails
  <2>1. budget'.drops = budget.drops
    BY <1>0, <1>3, SpendType DEF StartEvents, StartRpc, StartFails
  <2> QED
    BY <1>0, <1>3, <2>1, WiresKept DEF StartEvents, StartRpc, StartFails
<1>4. CASE StartSynchronize \/ StartReconnect \/ ReconnectSecond \/ ReconnectRefused
  <2>1. budget'.drops = budget.drops
    BY <1>0, <1>4, SpendType DEF StartSynchronize, StartReconnect, ReconnectSecond, ReconnectRefused
  <2> QED
    BY <1>0, <1>4, <2>1, WiresKept
    DEF StartSynchronize, StartReconnect, ReconnectSecond, ReconnectRefused, wires
<1>5. CASE SynchronizeQuery
  <2>1. SyncEffect
    BY <1>0, <1>5, SynchronizeCases
  <2> QED
    BY <1>0, <2>1, WiresKept DEF SyncEffect, SameBudget, wires
<1>6. CASE ReconnectQuery
  <2>1. ReconnectEffect
    BY <1>0, <1>6, ReconnectCases
  <2> QED
    BY <1>0, <2>1, WiresKept DEF ReconnectEffect, SameBudget, wires
<1>7. ASSUME NEW t \in Topics, AskAgain(t) PROVE WiresInv'
  <2>1. AskEffect(t)
    BY <1>0, <1>7, AskCases
  <2> QED
    BY <1>0, <2>1, WiresKept DEF AskEffect, SameBudget, wires
<1>8. CASE ReceiveArrived
  <2>1. budget'.drops = budget.drops
    BY <1>0, <1>8, SpendType DEF ReceiveArrived, TakeEvent, DropEvent
  <2>2. UNCHANGED bridge /\ newEventWire' = newEventWire
    BY <1>8 DEF ReceiveArrived
  <2>3. WireInv(eventWire', session, number, version, clock) /\ eventWire'.lost = eventWire.lost
    BY <1>8, ArrivedCases
  <2>4. PaidLosses(eventWire', budget'.drops)
    BY <1>0, <2>1, <2>3 DEF PaidLosses
  <2> QED
    BY <1>0, <2>1, <2>2, <2>3, <2>4, WiresNext DEF bridge
<1>9. CASE ReceiveQuiet
  <2>1. budget'.drops = budget.drops
    BY <1>0, <1>9, SpendType DEF ReceiveQuiet
  <2> QED
    BY <1>0, <1>9, <2>1, WiresKept DEF ReceiveQuiet, wires
<1>10. CASE UNCHANGED systemVars
  BY <1>0, <1>10, WiresKept DEF systemVars, wires
<1> QED
  BY <1>1, <1>2, <1>3, <1>4, <1>5, <1>6, <1>7, <1>8, <1>9, <1>10 DEF SystemNext, BridgeStep, ClientStep

\* Reading the next event leaves the reader at that event.
LEMMA TakeEventReads ==
    ASSUME RunInv, WiresInv, PositionInv, ReceiveArrived, TakeEvent
    PROVE  /\ span' # NoSpan /\ lastSeq' # 0 /\ recovery = "HEALTHY" /\ phase' = "idle"
           /\ ReadingInv(eventWire', session, number, clock, span'[2], lastSeq')
           /\ \A e \in eventWire'.lost : e.at \notin span'[1]..span'[2]
<1>0. /\ WireTypeOK(eventWire) /\ clock \in Nat /\ number \in MaybeSequences /\ budget.drops \in Nat
      /\ WireInv(eventWire, session, number, version, clock)
      /\ PaidLosses(eventWire, budget.drops)
      /\ span \in Nat \X Nat /\ lastSeq \in MaybeSequences /\ TypeOK
  <2>1. 0..MaxChanges \subseteq Nat
    BY SystemAssumption
  <2> QED
    BY <2>1, FreshTypes DEF RunInv, WiresInv, RestTypeOK, TypeOK
<1>1. /\ First \in Events /\ First \in InFlight(eventWire)
      /\ \A e \in InFlight(eventWire) : First.at <= e.at
      /\ \A e \in InFlight(eventWire') : First.at < e.at
      /\ WireInv(eventWire', session, number, version, clock)
      /\ Gapless(eventWire', session, clock, First.at)
      /\ eventWire'.lost = eventWire.lost /\ eventWire'.session = eventWire.session
      /\ InFlight(eventWire) \subseteq Sent(eventWire)
      /\ InFlight(eventWire') \subseteq InFlight(eventWire)
  BY ArrivedCases DEF Sent
<1>2. First.at \in Nat /\ First.at > 0 /\ First.number \in EventSequences /\ First.number > 0
  BY <1>0, <1>1, SentType, WireAssumption DEF EventSequences
<1>3. /\ recovery = "HEALTHY" /\ phase' = "idle"
      /\ lastSeq' = First.number /\ (lastSeq # 0 => First.number = NextSequence(lastSeq))
      /\ span' = IF span = NoSpan THEN <<First.at, First.at>> ELSE <<span[1], First.at>>
  <2>1. ReceiveEvent(First.session, First.number)
    BY DEF TakeEvent
  <2>2. phase = "idle" /\ recovery = "HEALTHY"
    BY <1>0, <2>1, AdmittedHealthy DEF ReceiveEvent, Receive, Admitted
  <2> QED
    BY <2>1, <2>2 DEF TakeEvent, ReceiveEvent, InSequence
<1> HIDE DEF First, Events
<1>4. span' # NoSpan /\ span'[2] = First.at
  BY <1>0, <1>2, <1>3 DEF NoSpan
<1>5. ReadingInv(eventWire', session, number, clock, First.at, First.number)
  <2>1. First.at \in 0..clock
    BY <1>0, <1>1, <1>2 DEF WireInv, Dated
  <2>2. PICK k \in Nat : Numbered(eventWire, session, number, clock, k)
    BY <1>0 DEF WireInv
  <2>3. First.number % UINT32_MAX = (k + First.at) % UINT32_MAX
    BY <1>1, <2>2 DEF Numbered
  <2>4. Numbered(eventWire', session, number, clock, k)
    BY <1>1, <2>2 DEF Numbered
  <2> QED
    BY <1>1, <2>1, <2>3, <2>4 DEF ReadingInv
<1>6. \A e \in eventWire.lost : e.at # First.at /\ e.at \in Nat
  BY <1>0, <1>1, SentType DEF WireInv, Dated
<1>7. \A e \in eventWire.lost : e.at \notin span'[1]..span'[2]
  <2>1. CASE span = NoSpan
    <3>1. span'[1] = First.at
      BY <1>3, <2>1
    <3> QED
      BY <1>2, <1>4, <1>6, <3>1
  <2>2. CASE span # NoSpan
    <3>1. /\ ReadingInv(eventWire, session, number, clock, span[2], lastSeq)
          /\ \A e \in eventWire.lost : e.at \notin span[1]..span[2]
          /\ lastSeq # 0 /\ span[1] \in Nat /\ span[2] \in Nat
      BY <1>0, <1>3, <2>2 DEF PositionInv
    <3>2. First.number = NextSequence(lastSeq)
      BY <1>3, <3>1
    <3>3. First.at = span[2] + 1
      BY <1>0, <1>1, <3>1, <3>2, NextClock
    <3>4. span'[1] = span[1]
      BY <1>0, <1>3, <2>2
    <3> QED
      BY <1>2, <1>4, <1>6, <3>1, <3>3, <3>4
  <2> QED
    BY <2>1, <2>2
<1> QED
  BY <1>1, <1>2, <1>3, <1>4, <1>5, <1>7

\* Where the event connection and what was read from it stay as they are.
LEMMA PositionKept ==
    ASSUME PositionInv, UNCHANGED <<bridge, eventWire, span, lastSeq>>,
           recovery' = recovery \/ recovery' # "HEALTHY",
           phase' \in {"new_events", "new_rpc"} => phase \in {"new_events", "new_rpc"}
    PROVE  PositionInv'
<1>1. /\ session' = session /\ number' = number /\ version' = version /\ clock' = clock
      /\ eventWire' = eventWire /\ span' = span /\ lastSeq' = lastSeq
  BY DEF bridge
<1> QED
  BY <1>1, PositionNext DEF PositionInv

LEMMA PositionStep ==
    RunInv /\ WiresInv /\ PositionInv /\ Bounded /\ [SystemNext]_systemVars => PositionInv'
<1> SUFFICES ASSUME RunInv, WiresInv, PositionInv, Bounded, [SystemNext]_systemVars
             PROVE  PositionInv'
  OBVIOUS
<1>0. /\ SystemTypeOK /\ RuntimeInv /\ RestTypeOK
      /\ clock \in Nat /\ WireTypeOK(eventWire)
      /\ span \in Nat \X Nat
  <2>1. 0..MaxChanges \subseteq Nat
    BY SystemAssumption
  <2> QED
    BY <2>1, FreshTypes DEF RunInv, RestTypeOK
<1>1. ASSUME NEW t \in Topics, NEW kept \in BOOLEAN, NEW newKept \in BOOLEAN,
             Change(t, kept, newKept)
      PROVE  PositionInv'
  <2>1. /\ session' = session /\ clock' = clock + 1
        /\ span' = span /\ lastSeq' = lastSeq /\ recovery' = recovery /\ phase' = phase
    BY <1>1 DEF Change, caller, vars, continuity
  <2>2. /\ Published(eventWire, eventWire', session, number, version, clock,
                     number', version', clock')
        /\ \A e \in eventWire'.lost : e \in eventWire.lost \/ e.at = clock'
    BY <1>1, ChangeCases
  <2>3. ASSUME recovery' = "HEALTHY", span' # NoSpan
        PROVE  /\ ReadingInv(eventWire', session', number', clock', span'[2], lastSeq')
               /\ \A e \in eventWire'.lost : e.at \notin span'[1]..span'[2]
    <3>1. /\ ReadingInv(eventWire, session, number, clock, span[2], lastSeq)
          /\ \A e \in eventWire.lost : e.at \notin span[1]..span[2]
      BY <2>1, <2>3 DEF PositionInv
    <3>2. ReadingInv(eventWire', session, number', clock', span[2], lastSeq)
      BY <2>2, <3>1 DEF Published
    <3>3. span[2] \in 0..clock /\ span[1] \in Nat
      BY <1>0, <3>1 DEF ReadingInv
    <3>4. clock' \notin span[1]..span[2]
      BY <1>0, <2>1, <3>3
    <3> QED
      BY <2>1, <2>2, <3>1, <3>2, <3>4
  <2> QED
    BY <2>1, <2>3, PositionNext DEF PositionInv
<1>2. CASE Restart
  <2>1. /\ clock' = clock + 1 /\ clock' \in Nat /\ clock <= clock'
        /\ span' = span /\ lastSeq' = lastSeq /\ recovery' = recovery /\ phase' = phase
        /\ eventWire' = eventWire
    BY <1>0, <1>2 DEF Restart, wires, caller, vars, continuity
  <2>2. eventWire.session # session'
    BY <1>0, <1>2 DEF Restart, RuntimeInv
  <2>3. ASSUME recovery' = "HEALTHY", span' # NoSpan
        PROVE  /\ ReadingInv(eventWire', session', number', clock', span'[2], lastSeq')
               /\ \A e \in eventWire'.lost : e.at \notin span'[1]..span'[2]
    <3>1. /\ ReadingInv(eventWire, session, number, clock, span[2], lastSeq)
          /\ \A e \in eventWire.lost : e.at \notin span[1]..span[2]
      BY <2>1, <2>3 DEF PositionInv
    <3>2. ReadingInv(eventWire, session', number', clock', span[2], lastSeq)
      BY <1>0, <2>1, <2>2, <3>1, ElsewhereReading
    <3> QED
      BY <2>1, <3>1, <3>2
  <2> QED
    BY <2>1, <2>3, PositionNext DEF PositionInv
<1>3. CASE StartEvents \/ StartFails
  <2>1. /\ phase \in {"new_events", "new_rpc"} /\ span' = span /\ lastSeq' = lastSeq
    BY <1>3 DEF StartEvents, StartFails, ConnectEvents, ConnectFails, caller, continuity
  <2> QED
    BY <2>1, PositionNext DEF PositionInv
<1>4. CASE StartRpc \/ StartSynchronize \/ StartReconnect \/ ReconnectSecond \/ ReconnectRefused
  BY <1>4, PositionKept
  DEF StartRpc, StartSynchronize, StartReconnect, ReconnectSecond, ReconnectRefused, ConnectRpc,
      Synchronize, Reconnect, ReconnectRpc, ReconnectEventsFails, ReconnectRpcFails, Backout,
      Admitted, wires, caller, continuity
<1>5. CASE SynchronizeQuery
  <2>1. SyncEffect
    BY <1>0, <1>5, SynchronizeCases
  <2>2. CASE Snapshot("synchronize")
    BY <2>2, PositionNext DEF Snapshot
  <2> QED
    BY <2>1, <2>2, PositionKept DEF SyncEffect, wires
<1>6. CASE ReconnectQuery
  <2>1. ReconnectEffect
    BY <1>0, <1>6, ReconnectCases
  <2>2. CASE Snapshot("reconnect")
    BY <2>2, PositionNext DEF Snapshot
  <2> QED
    BY <2>1, <2>2, PositionKept DEF ReconnectEffect, wires, continuity
<1>7. ASSUME NEW t \in Topics, AskAgain(t) PROVE PositionInv'
  <2>1. AskEffect(t)
    BY <1>0, <1>7, AskCases
  <2> QED
    BY <2>1, PositionKept DEF AskEffect, wires
<1>8. CASE ReceiveArrived
  <2>1. CASE TakeEvent
    <3>1. session' = session /\ number' = number /\ clock' = clock
      BY <1>8 DEF ReceiveArrived, bridge
    <3> QED
      BY <1>8, <2>1, <3>1, TakeEventReads, PositionNext
  <2>2. CASE DropEvent
    <3>1. /\ recovery' # "HEALTHY" /\ span' = span /\ lastSeq' = lastSeq /\ phase' = phase
      BY <2>2
      DEF DropEvent, ReceiveForeign, ReceiveGap, ReceiveMalformed, caller, continuity
    <3> QED
      BY <3>1, PositionNext DEF PositionInv
  <2> QED
    BY <1>8, <2>1, <2>2 DEF ReceiveArrived
<1>9. CASE ReceiveQuiet
  BY <1>9, PositionKept DEF ReceiveQuiet, ReceiveNothing, ReceiveLost, wires, caller, continuity
<1>10. CASE UNCHANGED systemVars
  BY <1>10, PositionKept DEF systemVars, vars, wires, caller, continuity
<1> QED
  BY <1>1, <1>2, <1>3, <1>4, <1>5, <1>6, <1>7, <1>8, <1>9, <1>10 DEF SystemNext, BridgeStep, ClientStep

\* The queries of a collection in order.
LEMMA QueryOrder ==
    /\ \A t \in Topics : ~HasRead(0, t)
    /\ \A t \in Topics, k \in Nat : k >= 4 => HasRead(k, t)
    /\ \A t \in Topics, k \in Nat : HasRead(k + 1, t) => HasRead(k, t) \/ QueryTopics[k + 1] = t
<1>1. /\ QueryTopics[1] = "timer" /\ QueryTopics[3] = "run" /\ QueryTopics[4] = "context"
      /\ 1 \in 1..5 /\ 3 \in 1..5 /\ 4 \in 1..5
  BY DEF QueryTopics
<1>2. \A t \in Topics : t = QueryTopics[1] \/ t = QueryTopics[3] \/ t = QueryTopics[4]
  BY <1>1, SystemAssumption
<1> HIDE DEF QueryTopics
<1>3. \A t \in Topics : ~HasRead(0, t)
  BY DEF HasRead
<1>4. \A t \in Topics, k \in Nat : k >= 4 => HasRead(k, t)
  BY <1>1, <1>2 DEF HasRead
<1>5. ASSUME NEW t \in Topics, NEW k \in Nat, HasRead(k + 1, t)
      PROVE  HasRead(k, t) \/ QueryTopics[k + 1] = t
  <2>1. PICK i \in 1..5 : i <= k + 1 /\ QueryTopics[i] = t
    BY <1>5 DEF HasRead
  <2>2. CASE i = k + 1
    BY <2>1, <2>2
  <2>3. CASE i <= k
    BY <2>1, <2>3 DEF HasRead
  <2> QED
    BY <2>1, <2>2, <2>3
<1> QED
  BY <1>3, <1>4, <1>5

\* An answer adds its topic to what the collection holds current.
LEMMA ReadMore ==
    ASSUME SystemTypeOK, Read(Answer(session)), parts' = Append(parts, session), NEW w,
           \A t \in Topics : HasRead(Len(parts), t) => Current(w, collected, version, t)
    PROVE  \A t \in Topics : HasRead(Len(parts'), t) => Current(w, collected', version, t)
<1> SUFFICES ASSUME NEW t \in Topics, HasRead(Len(parts'), t)
             PROVE  Current(w, collected', version, t)
  OBVIOUS
<1>1. Len(parts) \in Nat /\ Len(parts') = Len(parts) + 1
  BY FreshTypes DEF TypeOK, RestTypeOK
<1>2. collected'[t] = IF t = QueryTopics[Len(parts) + 1] THEN version[t] ELSE collected[t]
  BY DEF Read, Answer
<1>3. CASE t = QueryTopics[Len(parts) + 1]
  BY <1>2, <1>3 DEF Current
<1>4. CASE t # QueryTopics[Len(parts) + 1]
  <2>1. HasRead(Len(parts), t)
    BY <1>1, <1>4, QueryOrder
  <2> QED
    BY <1>2, <1>4, <2>1 DEF Current
<1> QED
  BY <1>3, <1>4

\* Outside a collection there is nothing to keep.
LEMMA NoCollection ==
    ASSUME phase' \notin {"sync", "re_rpc", "re_sync"}
    PROVE  CollectedInv'
BY CollectedNext

LEMMA CollectedStep ==
    RunInv /\ WiresInv /\ CollectedInv /\ Bounded /\ [SystemNext]_systemVars => CollectedInv'
<1> SUFFICES ASSUME RunInv, WiresInv, CollectedInv, Bounded, [SystemNext]_systemVars
             PROVE  CollectedInv'
  OBVIOUS
<1> USE DEF progress
<1>0. /\ SystemTypeOK /\ RuntimeInv /\ RestTypeOK /\ TypeOK
      /\ clock \in Nat /\ collected \in [Topics -> Nat]
      /\ left \in Nat /\ Len(parts) \in Nat
  BY FreshTypes DEF RunInv, TypeOK
<1>1. ASSUME NEW t \in Topics, NEW kept \in BOOLEAN, NEW newKept \in BOOLEAN,
             Change(t, kept, newKept)
      PROVE  CollectedInv'
  <2>1. /\ session' = session /\ collected' = collected
        /\ phase' = phase /\ left' = left /\ parts' = parts
    BY <1>1 DEF Change, caller, vars
  <2>2. /\ Published(eventWire, eventWire', session, number, version, clock,
                     number', version', clock')
        /\ Published(newEventWire, newEventWire', session, number, version, clock,
                     number', version', clock')
    BY <1>1, ChangeCases
  <2>3. /\ eventWire'.session = eventWire.session /\ newEventWire'.session = newEventWire.session
        /\ \A y \in Topics :
              /\ eventWire.session = session /\ Current(eventWire, collected, version, y)
                    => Current(eventWire', collected, version', y)
              /\ newEventWire.session = session /\ Current(newEventWire, collected, version, y)
                    => Current(newEventWire', collected, version', y)
    BY <1>0, <2>2 DEF Published
  <2> QED
    BY <2>1, <2>3, CollectedNext DEF CollectedInv
<1>2. CASE Restart
  <2>1. eventWire'.session # session' /\ newEventWire'.session # session'
    BY <1>0, <1>2 DEF Restart, RuntimeInv, wires
  <2>2. phase' = phase /\ left' = left /\ parts' = parts
    BY <1>2 DEF Restart, vars
  <2> QED
    BY <2>1, <2>2, CollectedNext DEF CollectedInv
<1>3. CASE StartEvents \/ StartRpc \/ StartFails \/ ReconnectRefused
  <2>1. phase' \in {"new_events", "new_rpc", "idle"}
    BY <1>3 DEF StartEvents, StartRpc, StartFails, ReconnectRefused, ConnectEvents, ConnectRpc,
       ConnectFails, ReconnectEventsFails, ReconnectRpcFails, Backout, Admitted
  <2> QED
    BY <2>1, NoCollection
<1>4. CASE StartSynchronize \/ StartReconnect
  <2>1. /\ phase' \in {"sync", "re_rpc"} /\ parts' = <<>> /\ left' \in QueryCounts
    BY <1>4 DEF StartSynchronize, StartReconnect, Synchronize, Reconnect, StartCollecting
  <2>2. Len(parts') = 0 /\ left' > 0 /\ left' + Len(parts') \in QueryCounts
    <3>1. Len(parts') = 0
      BY <2>1
    <3>a. left' = 4 \/ left' = 5
      BY <2>1, Zenon DEF QueryCounts
    <3>2. left' > 0 /\ left' + 0 = left'
      BY <3>a
    <3> QED
      BY <2>1, <3>1, <3>2
  <2> QED
    BY <2>1, <2>2, QueryOrder, CollectedNext
<1>5. CASE ReconnectSecond
  <2>1. /\ phase = "re_rpc" /\ phase' = "re_sync" /\ parts' = parts /\ left' = left
    BY <1>5 DEF ReconnectSecond, ReconnectRpc
  <2>2. parts' = <<>> /\ Len(parts') = 0
    BY <2>1 DEF CollectedInv
  <2> QED
    BY <2>1, <2>2, QueryOrder, CollectedNext DEF CollectedInv
<1>6. CASE SynchronizeQuery
  <2>1. SyncEffect
    BY <1>0, <1>6, SynchronizeCases
  <2>2. CASE phase' = "sync"
    <3>1. /\ phase = "sync" /\ left > 1 /\ Answered(rpcWire)
          /\ session' = session /\ version' = version /\ eventWire' = eventWire
      BY <2>1, <2>2 DEF SyncEffect, Snapshot, bridge, wires
    <3>2. /\ left' = left - 1 /\ parts' = Append(parts, session) /\ Read(Answer(session))
          /\ Len(parts') = Len(parts) + 1
      BY <1>0, <3>1 DEF Answered, TypeOK, RestTypeOK
    <3>3. eventWire.session = session
            => \A t \in Topics : HasRead(Len(parts'), t) => Current(eventWire, collected', version, t)
      BY <1>0, <3>1, <3>2, ReadMore DEF CollectedInv
    <3>4. left' > 0 /\ left' + Len(parts') = left + Len(parts)
      BY <1>0, <3>1, <3>2
    <3> QED
      BY <2>2, <3>1, <3>3, <3>4, CollectedNext DEF CollectedInv
  <2>3. CASE phase' = "idle"
    BY <2>3, NoCollection
  <2> QED
    BY <2>1, <2>2, <2>3 DEF SyncEffect, Snapshot
<1>7. CASE ReconnectQuery
  <2>1. ReconnectEffect
    BY <1>0, <1>7, ReconnectCases
  <2>2. CASE phase' = "re_sync"
    <3>1. /\ phase = "re_sync" /\ left > 1 /\ Answered(newRpcWire)
          /\ session' = session /\ version' = version /\ newEventWire' = newEventWire
      BY <2>1, <2>2 DEF ReconnectEffect, Snapshot, bridge, wires
    <3>2. /\ left' = left - 1 /\ parts' = Append(parts, session) /\ Read(Answer(session))
          /\ Len(parts') = Len(parts) + 1
      BY <1>0, <3>1 DEF Answered, TypeOK, RestTypeOK
    <3>3. newEventWire.session = session
            => \A t \in Topics : HasRead(Len(parts'), t) => Current(newEventWire, collected', version, t)
      BY <1>0, <3>1, <3>2, ReadMore DEF CollectedInv
    <3>4. left' > 0 /\ left' + Len(parts') = left + Len(parts)
      BY <1>0, <3>1, <3>2
    <3> QED
      BY <2>2, <3>1, <3>3, <3>4, CollectedNext DEF CollectedInv
  <2>3. CASE phase' = "idle"
    BY <2>3, NoCollection
  <2> QED
    BY <2>1, <2>2, <2>3 DEF ReconnectEffect, Snapshot
<1>8. ASSUME NEW t \in Topics, AskAgain(t) PROVE CollectedInv'
  <2>1. AskEffect(t)
    BY <1>0, <1>8, AskCases
  <2> QED
    BY <2>1, NoCollection DEF AskEffect
<1>9. CASE ReceiveArrived \/ ReceiveQuiet
  <2>1. phase' = "idle"
    BY <1>9 DEF ReceiveArrived, ReceiveQuiet, TakeEvent, DropEvent, ReceiveEvent, ReceiveForeign,
       ReceiveGap, ReceiveMalformed, ReceiveNothing, ReceiveLost, Receive, Admitted
  <2> QED
    BY <2>1, NoCollection
<1>10. CASE UNCHANGED systemVars
  <2>1. /\ phase' = phase /\ left' = left /\ parts' = parts /\ collected' = collected
        /\ version' = version /\ session' = session
        /\ eventWire' = eventWire /\ newEventWire' = newEventWire
    BY <1>10 DEF systemVars, vars, bridge, wires, caller
  <2> QED
    BY <2>1, CollectedNext DEF CollectedInv
<1> QED
  BY <1>1, <1>2, <1>3, <1>4, <1>5, <1>6, <1>7, <1>8, <1>9, <1>10 DEF SystemNext, BridgeStep, ClientStep

\* receive() never ends in a denial.
LEMMA ReceiveNotDenied ==
    ret # Ended("receive", "remote") /\ [Next]_vars => ret' # Ended("receive", "remote")
<1> SUFFICES ASSUME ret # Ended("receive", "remote"), Next PROVE ret' # Ended("receive", "remote")
  BY DEF vars, Ended
<1> USE DEF Ended
<1>1. CASE Construct
  BY <1>1 DEF Construct, ConnectEvents, ConnectRpc, ConnectFails
<1>2. ASSUME NEW call \in {"request", "synchronize", "receive", "reconnect"}, TurnAway(call)
      PROVE  ret' # Ended("receive", "remote")
  BY <1>2 DEF TurnAway, Verdict
<1>3. CASE Close
  BY <1>3 DEF Close
<1>4. ASSUME NEW o \in Outcomes, Request(o) \/ RawRequest(o) PROVE ret' # Ended("receive", "remote")
  <2>1. CASE Request(o)
    <3>1. PICK q : \/ ObserveRpcSession("request", q, "ok")
                   \/ HandleRpcException("request", q, o.kind)
      BY <2>1 DEF Request
    <3> QED
      BY <3>1 DEF HandleRpcException, ObserveRpcSession
  <2>2. CASE RawRequest(o)
    BY <2>2 DEF RawRequest
  <2> QED
    BY <1>4, <2>1, <2>2
<1>5. ASSUME NEW o \in Outcomes, SyncStep(o) PROVE ret' # Ended("receive", "remote")
  <2>1. PICK q : SyncAnswer(o, q) \/ SyncDone(o, q) \/ SyncForeign(o, q) \/ SyncFails(o, q)
    BY <1>5 DEF SyncStep
  <2>2. CASE SyncFails(o, q)
    BY <2>2 DEF SyncFails, HandleRpcException, ObserveRpcSession
  <2> QED
    BY <2>1, <2>2 DEF SyncAnswer, SyncDone, SyncForeign
<1>6. ASSUME NEW o \in Outcomes, ReconnectStep(o) PROVE ret' # Ended("receive", "remote")
  <2>1. PICK q : ReconnectAnswer(o, q) \/ ReconnectDone(o, q) \/ ReconnectQueryFails(o, q)
    BY <1>6 DEF ReconnectStep
  <2> QED
    BY <2>1 DEF ReconnectAnswer, ReconnectDone, ReconnectQueryFails, Backout
<1>7. CASE \E n \in QueryCounts : Synchronize(n) \/ Reconnect(n)
  BY <1>7 DEF Synchronize, Reconnect
<1>8. CASE ReceiveStep
  BY <1>8 DEF ReceiveStep, ReceiveLost, ReceiveNothing, ReceiveRefused, ReceiveMalformed,
     ReceiveForeign, ReceiveGap, ReceiveEvent
<1>9. CASE ReconnectEventsFails \/ ReconnectRpc \/ ReconnectRpcFails \/ RawCloseRpc \/ RawEvents
  BY <1>9 DEF ReconnectEventsFails, ReconnectRpc, ReconnectRpcFails, Backout, RawCloseRpc, RawEvents
<1>10. CASE InterruptStep
  BY <1>10 DEF InterruptStep, InterruptCall, InterruptSync, InterruptConstructor,
     InterruptReconnect, DropException, Interrupted
<1> QED
  BY <1>1, <1>2, <1>3, <1>4, <1>5, <1>6, <1>7, <1>8, <1>9, <1>10 DEF Next

LEMMA BoundedStep ==
    RunInv /\ WiresInv /\ Bounded /\ [SystemNext]_systemVars => Bounded'
<1> SUFFICES ASSUME RunInv, WiresInv, Bounded, [SystemNext]_systemVars PROVE Bounded'
  OBVIOUS
<1>0. /\ SystemTypeOK /\ RuntimeInv /\ RestTypeOK
      /\ clock \in Nat /\ version \in [Topics -> Nat]
      /\ collected \in [Topics -> Nat] /\ copy \in [Topics -> Nat]
  BY FreshTypes DEF RunInv
<1>1. ASSUME NEW t \in Topics, NEW kept \in BOOLEAN, NEW newKept \in BOOLEAN,
             Change(t, kept, newKept)
      PROVE  Bounded'
  <2>1. /\ clock' = clock + 1 /\ version' = [version EXCEPT ![t] = clock']
        /\ copy' = copy /\ collected' = collected
    BY <1>1 DEF Change, caller
  <2>2. \A y \in Topics : /\ version'[y] = IF y = t THEN clock + 1 ELSE version[y]
                          /\ version[y] \in Nat /\ copy[y] \in Nat /\ collected[y] \in Nat
    BY <1>0, <2>1
  <2>3. \A y \in Topics : copy[y] <= version[y] /\ collected[y] <= version[y] /\ version[y] <= clock
    BY DEF Bounded
  <2> QED
    BY <1>0, <2>1, <2>2, <2>3, BoundedNext
<1>2. CASE Restart
  <2>1. /\ clock' = clock + 1 /\ version' = [t \in Topics |-> clock']
        /\ copy' = copy /\ collected' = collected
    BY <1>2 DEF Restart, caller
  <2>2. \A y \in Topics : /\ version'[y] = clock + 1
                          /\ version[y] \in Nat /\ copy[y] \in Nat /\ collected[y] \in Nat
    BY <1>0, <2>1
  <2>3. \A y \in Topics : copy[y] <= version[y] /\ collected[y] <= version[y] /\ version[y] <= clock
    BY DEF Bounded
  <2> QED
    BY <1>0, <2>1, <2>2, <2>3, BoundedNext
<1>3. ASSUME UNCHANGED <<version, clock>>,
             \A t \in Topics : collected'[t] \in {collected[t], version[t]},
             \A t \in Topics : copy'[t] \in {copy[t], version[t], collected'[t]}
      PROVE  Bounded'
  <2>1. \A y \in Topics : version[y] \in Nat /\ copy[y] \in Nat /\ collected[y] \in Nat
    BY <1>0
  <2>2. \A y \in Topics : copy[y] <= version[y] /\ collected[y] <= version[y] /\ version[y] <= clock
    BY DEF Bounded
  <2> QED
    BY <1>3, <2>1, <2>2, BoundedNext
<1>4. CASE StartEvents \/ StartRpc \/ StartFails \/ StartSynchronize \/ StartReconnect
           \/ ReconnectSecond \/ ReconnectRefused \/ ReceiveQuiet \/ UNCHANGED systemVars
  <2>1. UNCHANGED <<version, clock, collected, copy>>
    BY <1>4 DEF StartEvents, StartRpc, StartFails, StartSynchronize, StartReconnect,
       ReconnectSecond, ReconnectRefused, ReceiveQuiet, systemVars, bridge, caller
  <2> QED
    BY <1>3, <2>1
<1>5. CASE SynchronizeQuery
  <2>1. SyncEffect
    BY <1>0, <1>5, SynchronizeCases
  <2> QED
    BY <1>3, <2>1 DEF SyncEffect, Snapshot, bridge
<1>6. CASE ReconnectQuery
  <2>1. ReconnectEffect
    BY <1>0, <1>6, ReconnectCases
  <2> QED
    BY <1>3, <2>1 DEF ReconnectEffect, Snapshot, bridge
<1>7. ASSUME NEW t \in Topics, AskAgain(t) PROVE Bounded'
  <2>1. AskEffect(t)
    BY <1>0, <1>7, AskCases
  <2>2. \A y \in Topics : copy'[y] \in {copy[y], version[y]}
    BY <1>0, <2>1 DEF AskEffect
  <2> QED
    BY <1>3, <2>1, <2>2 DEF AskEffect, bridge
<1>8. CASE ReceiveArrived
  <2>1. UNCHANGED <<version, clock, collected>>
    BY <1>8 DEF ReceiveArrived, TakeEvent, DropEvent, bridge, caller
  <2>2. CASE DropEvent
    BY <1>3, <2>1, <2>2 DEF DropEvent, caller
  <2>3. CASE TakeEvent
    <3>1. /\ First \in InFlight(eventWire) /\ First \in Sent(eventWire)
          /\ WireInv(eventWire, session, number, version, clock)
      BY <1>8, ArrivedCases DEF Sent, WiresInv
    <3>2. First.at <= version[First.topic]
      BY <3>1 DEF WireInv, Dated
    <3>3. \/ copy' = copy
          \/ First.topic = "timer" /\ copy' = [copy EXCEPT !["timer"] = First.at]
      BY <2>3 DEF TakeEvent
    <3> HIDE DEF First
    <3>4. \A y \in Topics : copy'[y] <= version[y]
      <4>1. \A y \in Topics : copy[y] <= version[y]
        BY DEF Bounded
      <4> QED
        BY <1>0, <3>2, <3>3, <4>1
    <3>5. \A y \in Topics : collected[y] <= version[y] /\ version[y] <= clock
      BY DEF Bounded
    <3> QED
      BY <2>1, <3>4, <3>5, BoundedNext
  <2> QED
    BY <1>8, <2>2, <2>3 DEF ReceiveArrived
<1> QED
  BY <1>1, <1>2, <1>4, <1>5, <1>6, <1>7, <1>8 DEF SystemNext, BridgeStep, ClientStep

\* Taking an event: its topic is current or has to be asked for, and the
\* others stay announced.
LEMMA TakeEventCurrent ==
    ASSUME RunInv, WiresInv, ReceiveArrived, TakeEvent, ~Gone,
           \A t \in Topics : t \in todo \/ Current(eventWire, copy, version, t)
    PROVE  \A t \in Topics : t \in todo' \/ Current(eventWire', copy', version, t)
<1> SUFFICES ASSUME NEW t \in Topics, t \notin todo'
             PROVE  Current(eventWire', copy', version, t)
  OBVIOUS
<1>0. /\ WireTypeOK(eventWire) /\ version \in [Topics -> Nat] /\ copy \in [Topics -> Nat]
  BY FreshTypes DEF RunInv
<1>1. /\ First \in InFlight(eventWire) /\ First \in Sent(eventWire)
      /\ \A e \in Sent(eventWire) : e = First \/ e \in Sent(eventWire')
      /\ WireInv(eventWire, session, number, version, clock)
  BY ArrivedCases DEF Sent, WiresInv
<1>2. First.at \in Nat /\ First.topic \in Topics
  BY <1>0, <1>1, SentType
<1>3. \/ First.topic = "timer" /\ copy' = [copy EXCEPT !["timer"] = First.at] /\ todo' = todo
      \/ First.topic # "timer" /\ copy' = copy /\ todo' = todo \cup {First.topic}
  BY DEF TakeEvent
<1> HIDE DEF First
<1>4. CASE t = First.topic
  <2>1. copy'[t] = First.at
    BY <1>0, <1>3, <1>4
  <2>2. CASE version[t] = First.at
    BY <2>1, <2>2 DEF Current
  <2>3. CASE version[t] # First.at
    <3>1. version[t] > First.at
      BY <1>0, <1>1, <1>2, <1>4, <2>3 DEF WireInv, Dated
    <3>2. Announced(eventWire, version, t)
      BY <1>1, <3>1 DEF WireInv, Told, Gone
    <3>3. Announced(eventWire', version, t)
      BY <1>1, <2>3, <3>2 DEF Announced
    <3> QED
      BY <3>3 DEF Current
  <2> QED
    BY <2>2, <2>3
<1>5. CASE t # First.topic
  <2>1. copy'[t] = copy[t] /\ t \notin todo
    BY <1>0, <1>3, <1>5
  <2>2. Announced(eventWire, version, t) => Announced(eventWire', version, t)
    BY <1>1, <1>5 DEF Announced
  <2> QED
    BY <2>1, <2>2 DEF Current
<1> QED
  BY <1>4, <1>5

LEMMA CopyStep ==
    /\ RunInv /\ WiresInv /\ CollectedInv /\ Bounded /\ CopyInv
    /\ [SystemNext]_systemVars /\ [Next]_vars
    => CopyInv'
<1> SUFFICES ASSUME RunInv, WiresInv, CollectedInv, Bounded, CopyInv,
                    [SystemNext]_systemVars, [Next]_vars
             PROVE  CopyInv'
  OBVIOUS
<1>0. /\ SystemTypeOK /\ RuntimeInv /\ RestTypeOK /\ TypeOK
      /\ clock \in Nat /\ version \in [Topics -> Nat]
      /\ collected \in [Topics -> Nat] /\ copy \in [Topics -> Nat]
      /\ left \in Nat /\ Len(parts) \in Nat
  BY FreshTypes DEF RunInv, TypeOK
<1>r. ret' # Ended("receive", "remote")
  BY ReceiveNotDenied DEF CopyInv
<1>n. phase' # "idle" \/ recovery' # "HEALTHY" \/ Gone' \/ NextCall' \notin {"receive", "request"}
        => CopyInv'
  BY <1>r, CopyNext
<1>1. ASSUME NEW t \in Topics, NEW kept \in BOOLEAN, NEW newKept \in BOOLEAN,
             Change(t, kept, newKept)
      PROVE  CopyInv'
  <2>1. /\ session' = session /\ copy' = copy /\ todo' = todo /\ phase' = phase
        /\ recovery' = recovery /\ ret' = ret /\ NextCall' = NextCall
    BY <1>1 DEF Change, caller, vars, NextCall
  <2>2. Published(eventWire, eventWire', session, number, version, clock,
                  number', version', clock')
    BY <1>1, ChangeCases
  <2>3. eventWire'.session = eventWire.session /\ (Gone' <=> Gone)
    BY <2>1, <2>2 DEF Published, Gone
  <2>4. ASSUME ~Gone, NEW y \in Topics, Current(eventWire, copy, version, y)
        PROVE  Current(eventWire', copy', version', y)
    BY <1>0, <2>1, <2>2, <2>4 DEF Published, Gone
  <2> QED
    BY <1>r, <2>1, <2>3, <2>4, CopyNext DEF CopyInv
<1>2. CASE Restart
  <2>1. Gone'
    BY <1>0, <1>2 DEF Restart, RuntimeInv, wires, Gone
  <2> QED
    BY <1>n, <2>1
<1>3. CASE StartEvents \/ StartRpc \/ StartFails \/ StartSynchronize \/ StartReconnect
           \/ ReconnectSecond \/ ReconnectRefused
  <2>1. \/ phase' # "idle" \/ ret' = Ended("BridgeClient", "ok") \/ ret'.result = "lost"
    BY <1>3 DEF StartEvents, StartRpc, StartFails, StartSynchronize, StartReconnect,
       ReconnectSecond, ReconnectRefused, ConnectEvents, ConnectRpc, ConnectFails, Synchronize,
       Reconnect, ReconnectRpc, ReconnectEventsFails, ReconnectRpcFails, Backout, Ended
  <2>2. phase' # "idle" \/ NextCall' \in {"synchronize", "reconnect"}
    BY <2>1 DEF NextCall, Ended
  <2> QED
    BY <1>n, <2>2
<1>4. CASE SynchronizeQuery
  <2>1. SyncEffect
    BY <1>0, <1>4, SynchronizeCases
  <2>2. CASE Answered(rpcWire) /\ Snapshot("synchronize")
    <3>1. /\ phase = "sync" /\ left = 1 /\ version' = version /\ session' = session
          /\ eventWire' = eventWire /\ copy' = collected' /\ todo' = {}
          /\ parts' = Append(parts, session) /\ Read(Answer(session))
      BY <2>1, <2>2 DEF SyncEffect, Snapshot, Answered, bridge, wires
    <3>2. Len(parts') \in Nat /\ Len(parts') >= 4
      BY <1>0, <3>1 DEF CollectedInv, QueryCounts, TypeOK, RestTypeOK
    <3>3. eventWire.session = session
            => \A t \in Topics : HasRead(Len(parts'), t) => Current(eventWire, collected', version, t)
      BY <1>0, <3>1, ReadMore DEF CollectedInv
    <3>4. eventWire.session = session => \A t \in Topics : Current(eventWire, collected', version, t)
      BY <3>2, <3>3, QueryOrder
    <3> QED
      BY <1>r, <3>1, <3>4, CopyNext DEF Gone
  <2>3. CASE phase' = "sync" \/ recovery' = "RECONNECT_REQUIRED"
    BY <1>n, <2>3
  <2>4. CASE ret' = Ended("synchronize", "remote")
    <3>1. NextCall' = "synchronize"
      BY <2>4 DEF NextCall, Ended
    <3> QED
      BY <1>n, <3>1
  <2> QED
    BY <2>1, <2>2, <2>3, <2>4 DEF SyncEffect
<1>5. CASE ReconnectQuery
  <2>1. ReconnectEffect
    BY <1>0, <1>5, ReconnectCases
  <2>2. CASE Answered(newRpcWire) /\ Snapshot("reconnect") /\ eventWire' = newEventWire
    <3>1. /\ phase = "re_sync" /\ left = 1 /\ version' = version /\ session' = session
          /\ copy' = collected' /\ todo' = {}
          /\ parts' = Append(parts, session) /\ Read(Answer(session))
      BY <2>1, <2>2 DEF ReconnectEffect, Snapshot, Answered, bridge
    <3>2. Len(parts') \in Nat /\ Len(parts') >= 4
      BY <1>0, <3>1 DEF CollectedInv, QueryCounts, TypeOK, RestTypeOK
    <3>3. newEventWire.session = session
            => \A t \in Topics : HasRead(Len(parts'), t) => Current(newEventWire, collected', version, t)
      BY <1>0, <3>1, ReadMore DEF CollectedInv
    <3>4. newEventWire.session = session
            => \A t \in Topics : Current(newEventWire, collected', version, t)
      BY <3>2, <3>3, QueryOrder
    <3> QED
      BY <1>r, <2>2, <3>1, <3>4, CopyNext DEF Gone
  <2>3. CASE phase' = "re_sync"
    BY <1>n, <2>3
  <2>4. CASE \E r \in {"remote", "lost", "protocol"} : ret' = Ended("reconnect", r)
    <3>1. NextCall' \in {"reconnect", "synchronize"}
      BY <2>4 DEF NextCall, Ended
    <3> QED
      BY <1>n, <3>1
  <2> QED
    BY <2>1, <2>2, <2>3, <2>4 DEF ReconnectEffect
<1>6. ASSUME NEW t \in Topics, AskAgain(t) PROVE CopyInv'
  <2>1. AskEffect(t) /\ NextCall = "request"
    BY <1>0, <1>6, AskCases
  <2>2. /\ phase = "idle" /\ recovery = "HEALTHY" /\ version' = version /\ session' = session
        /\ eventWire' = eventWire
        /\ \/ copy' = [copy EXCEPT ![t] = version[t]] /\ todo' = todo \ {t}
           \/ copy' = copy /\ todo' = todo
    BY <2>1 DEF AskEffect, bridge, wires
  <2>3. ASSUME ~Gone', NEW y \in Topics PROVE y \in todo' \/ Current(eventWire', copy', version', y)
    <3>1. y \in todo \/ Current(eventWire, copy, version, y)
      BY <2>1, <2>2, <2>3 DEF CopyInv, Gone
    <3>2. CASE y = t /\ copy' = [copy EXCEPT ![t] = version[t]]
      BY <1>0, <2>2, <3>2 DEF Current
    <3>3. CASE y # t /\ copy' = [copy EXCEPT ![t] = version[t]] /\ todo' = todo \ {t}
      <4>1. copy'[y] = copy[y] /\ (y \in todo => y \in todo')
        BY <1>0, <3>3
      <4> QED
        BY <2>2, <3>1, <4>1 DEF Current
    <3>4. CASE copy' = copy /\ todo' = todo
      BY <2>2, <3>1, <3>4
    <3> QED
      BY <2>2, <3>2, <3>3, <3>4
  <2> QED
    BY <1>r, <2>3, CopyNext
<1>7. CASE ReceiveArrived
  <2>1. CASE TakeEvent
    <3>1. /\ phase = "idle" /\ recovery = "HEALTHY" /\ NextCall = "receive"
          /\ version' = version /\ session' = session /\ eventWire'.session = eventWire.session
      <4>1. ReceiveEvent(First.session, First.number)
        BY <2>1 DEF TakeEvent
      <4>2. phase = "idle" /\ recovery = "HEALTHY"
        BY <1>0, <4>1, AdmittedHealthy DEF ReceiveEvent, Receive, Admitted
      <4> QED
        BY <1>7, <4>2, ArrivedCases DEF ReceiveArrived, bridge
    <3>2. Gone' <=> Gone
      BY <3>1 DEF Gone
    <3>3. ~Gone => \A t \in Topics : t \in todo' \/ Current(eventWire', copy', version', t)
      BY <1>7, <2>1, <3>1, TakeEventCurrent DEF CopyInv
    <3> QED
      BY <1>r, <3>2, <3>3, CopyNext
  <2>2. CASE DropEvent
    <3>1. recovery' # "HEALTHY"
      BY <2>2 DEF DropEvent, ReceiveForeign, ReceiveGap, ReceiveMalformed
    <3> QED
      BY <1>n, <3>1
  <2> QED
    BY <1>7, <2>1, <2>2 DEF ReceiveArrived
<1>8. CASE ReceiveQuiet
  <2>1. CASE ReceiveNothing
    <3>1. /\ phase = "idle" /\ NextCall = "receive" /\ recovery' = recovery
          /\ version' = version /\ session' = session /\ eventWire' = eventWire
          /\ copy' = copy /\ todo' = todo
      BY <1>8, <2>1
      DEF ReceiveQuiet, ReceiveNothing, Receive, Admitted, bridge, wires, caller
    <3>2. Gone' <=> Gone
      BY <3>1 DEF Gone
    <3> QED
      BY <1>r, <3>1, <3>2, CopyNext DEF CopyInv
  <2>2. CASE ReceiveLost
    BY <1>n, <2>2 DEF ReceiveLost
  <2> QED
    BY <1>8, <2>1, <2>2 DEF ReceiveQuiet
<1>9. CASE UNCHANGED systemVars
  <2>1. /\ phase' = phase /\ recovery' = recovery /\ ret' = ret /\ todo' = todo /\ copy' = copy
        /\ version' = version /\ session' = session /\ eventWire' = eventWire
    BY <1>9 DEF systemVars, vars, bridge, wires, caller
  <2>2. (Gone' <=> Gone) /\ NextCall' = NextCall
    BY <2>1 DEF Gone, NextCall
  <2> QED
    BY <1>r, <2>1, <2>2, CopyNext DEF CopyInv
<1> QED
  BY <1>1, <1>2, <1>3, <1>4, <1>5, <1>6, <1>7, <1>8, <1>9 DEF SystemNext, BridgeStep, ClientStep

-----------------------------------------------------------------------------
(* The theorems *)

LEMMA FreshInvariant == SystemSpec => [](RunInv /\ FreshInv)
<1>1. SystemInit /\ RunInv => FreshInv
  <2> SUFFICES ASSUME SystemInit, RunInv PROVE FreshInv
    OBVIOUS
  <2>1. /\ SystemTypeOK /\ eventWire = NoWire /\ newEventWire = NoWire
        /\ phase = "new_events" /\ lastSeq = 0 /\ span = NoSpan
        /\ ret = Ended("BridgeClient", "none") /\ clock = 0 /\ version = [t \in Topics |-> 0]
        /\ copy = version /\ collected = version /\ budget.drops \in 0..MaxDrops
    BY FreshTypes DEF RunInv, SystemInit, Init
  <2>2. WiresInv
    BY <2>1, EmptyWireInv, NothingLost DEF WiresInv
  <2>3. PositionInv /\ CollectedInv
    BY <2>1 DEF PositionInv, CollectedInv
  <2>4. Bounded /\ CopyInv
    BY <2>1 DEF Bounded, CopyInv, Ended
  <2> QED
    BY <2>2, <2>3, <2>4 DEF FreshInv
<1>2. RunInv /\ FreshInv /\ [SystemNext]_systemVars => FreshInv'
  <2> SUFFICES ASSUME RunInv, FreshInv, [SystemNext]_systemVars PROVE FreshInv'
    OBVIOUS
  <2>1. WiresInv /\ PositionInv /\ CollectedInv /\ Bounded /\ CopyInv
    BY DEF FreshInv
  <2>2. [Next]_vars
    BY SystemStepIsClientStep DEF RunInv
  <2>3. WiresInv' /\ PositionInv' /\ CollectedInv' /\ Bounded'
    BY <2>1, WiresStep, PositionStep, CollectedStep, BoundedStep
  <2>4. CopyInv'
    BY <2>1, <2>2, CopyStep
  <2> QED
    BY <2>3, <2>4 DEF FreshInv
<1> QED
  BY <1>1, <1>2, RunInvariant, PTL DEF SystemSpec

LEMMA FreshEnough == RunInv /\ FreshInv => FreshUnlessLost
<1> SUFFICES ASSUME RunInv, FreshInv, UpToDate, NEW t \in Topics
             PROVE  copy[t] = version[t] \/ Excused(t)
  BY DEF FreshUnlessLost
<1>0. /\ SystemTypeOK /\ RestTypeOK /\ WireTypeOK(eventWire) /\ version \in [Topics -> Nat]
      /\ copy \in [Topics -> Nat]
      /\ PositionInv /\ CopyInv /\ Bounded
  BY FreshTypes DEF RunInv, FreshInv
<1>1. /\ phase = "idle" /\ recovery = "HEALTHY" /\ NextCall = "receive" /\ ~Gone
      /\ eventWire.queue = <<>>
  BY DEF UpToDate, Arrived
<1>2. todo = {}
  BY <1>0, <1>1 DEF NextCall, CopyInv, Ended, SystemTypeOK, TypeOK, Calls, Results
<1>3. Current(eventWire, copy, version, t)
  BY <1>0, <1>1, <1>2 DEF CopyInv
<1>4. ASSUME copy[t] # version[t] PROVE Excused(t)
  <2>1. PICK e \in Sent(eventWire) : e.topic = t /\ e.at = version[t]
    BY <1>3, <1>4 DEF Current, Announced
  <2>2. e \in eventWire.lost
    BY <1>1, <2>1 DEF Sent, InFlight
  <2>3. e.at > copy[t]
    BY <1>0, <1>4, <2>1 DEF Bounded
  <2>4. e.at \in Nat /\ e.at > 0
    BY <1>0, <2>1, SentType
  <2>5. e.at \notin span[1]..span[2]
    <3>1. CASE span = NoSpan
      BY <2>4, <3>1 DEF NoSpan
    <3>2. CASE span # NoSpan
      BY <1>0, <1>1, <2>2, <3>2 DEF PositionInv
    <3> QED
      BY <3>1, <3>2
  <2> QED
    BY <2>1, <2>2, <2>3, <2>5 DEF Excused
<1> QED
  BY <1>4

\* However changes, lost events, restarts, denials, timeouts, recoveries and the
\* caller's questions are interleaved, a caller that has read all its events
\* holds the present version of every topic, unless an event was lost where the
\* client cannot know of it yet: for any number of changes, and for numbers of
\* any width as long as fewer events are lost than there are numbers.
THEOREM FreshUnlessLostHolds == SystemSpec => []FreshUnlessLost
BY FreshInvariant, FreshEnough, PTL

LEMMA GapStep == RunInv /\ FreshInv /\ [SystemNext]_systemVars => [GapIsReal]_systemVars
<1> SUFFICES ASSUME RunInv, FreshInv, SystemNext,
                    recovery = "HEALTHY", recovery' = "RESYNC_REQUIRED"
             PROVE  \/ budget'.faults < budget.faults
                    \/ /\ span # NoSpan
                       /\ \E e \in eventWire.lost : span[2] < e.at /\ e.at < First.at
  BY DEF GapIsReal
<1>0. /\ SystemTypeOK /\ RuntimeInv /\ RestTypeOK /\ WireTypeOK(eventWire)
      /\ clock \in Nat /\ number \in MaybeSequences /\ budget.drops \in Nat
      /\ span \in Nat \X Nat /\ lastSeq \in MaybeSequences
      /\ WiresInv /\ PositionInv
  <2>1. 0..MaxChanges \subseteq Nat
    BY SystemAssumption
  <2> QED
    BY <2>1, FreshTypes DEF RunInv, FreshInv, RestTypeOK, TypeOK
<1>1. CASE BridgeStep
  BY <1>1 DEF BridgeStep, Change, Restart, vars
<1>2. CASE StartEvents \/ StartRpc \/ StartFails \/ StartSynchronize \/ StartReconnect
           \/ ReconnectSecond \/ ReconnectRefused
  BY <1>2 DEF StartEvents, StartRpc, StartFails, StartSynchronize, StartReconnect, ReconnectSecond,
     ReconnectRefused, ConnectEvents, ConnectRpc, ConnectFails, Synchronize, Reconnect,
     ReconnectRpc, ReconnectEventsFails, ReconnectRpcFails, Backout
<1>3. CASE SynchronizeQuery
  <2>1. SyncEffect
    BY <1>0, <1>3, SynchronizeCases
  <2> QED
    BY <2>1 DEF SyncEffect, Snapshot
<1>4. CASE ReconnectQuery
  <2>1. ReconnectEffect
    BY <1>0, <1>4, ReconnectCases
  <2> QED
    BY <2>1 DEF ReconnectEffect, Snapshot
<1>5. ASSUME NEW t \in Topics, AskAgain(t) PROVE FALSE
  <2>1. AskEffect(t)
    BY <1>0, <1>5, AskCases
  <2> QED
    BY <2>1 DEF AskEffect
<1>6. CASE ReceiveQuiet
  BY <1>6 DEF ReceiveQuiet, ReceiveNothing, ReceiveLost
<1>7. CASE ReceiveArrived
  <2>1. CASE TakeEvent
    BY <2>1 DEF TakeEvent, ReceiveEvent
  <2>2. CASE ReceiveForeign(First.session)
    BY <2>2 DEF ReceiveForeign
  <2>3. CASE Spend
    BY <1>0, <2>3, SpendType
  <2>4. CASE ReceiveGap(First.session, First.number)
    <3>1. lastSeq # 0 /\ First.number # NextSequence(lastSeq)
      BY <2>4 DEF ReceiveGap, InSequence
    <3>2. span # NoSpan /\ ReadingInv(eventWire, session, number, clock, span[2], lastSeq)
          /\ span[2] \in Nat
      BY <1>0, <3>1 DEF PositionInv
    <3>3. /\ First \in Events /\ First \in InFlight(eventWire)
          /\ \A e \in InFlight(eventWire) : First.at <= e.at
          /\ PaidLosses(eventWire, budget.drops)
      BY <1>0, <1>7, ArrivedCases DEF WiresInv
    <3> HIDE DEF First, Events
    <3>4. \E e \in eventWire.lost : span[2] < e.at /\ e.at < First.at
      BY <1>0, <3>1, <3>2, <3>3, NextClock
    <3> QED
      BY <3>2, <3>4
  <2> QED
    BY <1>7, <2>1, <2>2, <2>3, <2>4 DEF ReceiveArrived, DropEvent
<1> QED
  BY <1>1, <1>2, <1>3, <1>4, <1>5, <1>6, <1>7 DEF SystemNext, ClientStep

\* A resynchronisation is asked for only when an event between two of those read
\* since the last snapshot was lost, or a frame was bad: no wraparound of the
\* sequence number, no restart and no old baseline looks like a gap.
THEOREM NoSpuriousResyncHolds == SystemSpec => NoSpuriousResync
BY FreshInvariant, GapStep, PTL DEF SystemSpec, NoSpuriousResync
=============================================================================
