----------------------------- MODULE BridgeWire -----------------------------
(***************************************************************************)
(* The numbers of the version 4 protocol that the client does arithmetic   *)
(* on: session identifiers and event sequence numbers are non-zero uint32, *)
(* request identifiers are uint32 including zero.  UINT32_MAX is a         *)
(* parameter so that TLC reaches both wraparounds within a few steps.      *)
(***************************************************************************)
EXTENDS Integers

CONSTANTS
    UINT32_MAX,     \* models.UINT32_MAX, 2^32 - 1 in the code
    Sessions        \* the session identifiers a Bridge may report

ASSUME WireAssumption ==
    /\ UINT32_MAX \in Nat \ {0}
    /\ Sessions \subseteq 1..UINT32_MAX

\* _generated/protocol.py: event_sequence and session_id carry ge=1, so zero
\* is free to stand for the None and the "no session yet" of the client.
EventSequences == 1..UINT32_MAX
MaybeSessions == {0} \cup Sessions
MaybeSequences == 0..UINT32_MAX

\* Seeded fault: the number does not wrap around.
Fault_NextSequence(n) == n + 1

\* The number that must follow n on the event connection.
NextSequence(n) == (n % UINT32_MAX) + 1

RequestIds == 0..UINT32_MAX

\* Seeded fault: the identifier does not wrap around.
Fault_NextRequestId(id) == id + 1

\* The request identifier after id; the mask of the code is this modulus.
NextRequestId(id) == (id + 1) % (UINT32_MAX + 1)
=============================================================================
