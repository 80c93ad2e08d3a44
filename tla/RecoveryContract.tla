-------------------------- MODULE RecoveryContract --------------------------
(***************************************************************************)
(* What a BridgeClient promises its caller, without sockets, queries or    *)
(* the steps of a recovery: between two reconnections everything handed    *)
(* out belongs to one session, events handed out between two snapshots are *)
(* consecutive, nothing is handed out while a recovery is due, and a lost  *)
(* session is left behind only by replacing both connections.              *)
(***************************************************************************)
EXTENDS Integers, Sequences

CONSTANTS
    ContractSessions,       \* identifiers of the sessions
    LastSequence            \* the sequence number followed by 1

VARIABLES
    mode,       \* "HEALTHY", "RESYNC_REQUIRED", "RECONNECT_REQUIRED" or "CLOSED"
    pinned,     \* the session everything must belong to, 0 before the first
    told,       \* sessions of all that was handed out since the last replacement
    stream      \* sequence numbers handed out since the last snapshot

contract == <<mode, pinned, told, stream>>

Init ==
    /\ mode = "HEALTHY"
    /\ pinned = 0
    /\ told = {}
    /\ stream = <<>>

Fits(s) == pinned \in {0, s}

Consecutive(a, b) == b = IF a = LastSequence THEN 1 ELSE a + 1

\* Something of session s pins the session: an answer or a remote error, which
\* the caller is told of, or another exception after an answer it asked for
\* behind the client, which it is not.
Tell(s) ==
    /\ mode \in {"HEALTHY", "RESYNC_REQUIRED"}
    /\ Fits(s)
    /\ pinned' = s
    /\ told' \in {told, told \cup {s}}
    /\ UNCHANGED <<mode, stream>>

DeliverEvent(s, n) ==
    /\ mode = "HEALTHY"
    /\ Fits(s)
    /\ stream # <<>> => Consecutive(stream[Len(stream)], n)
    /\ pinned' = s
    /\ told' = told \cup {s}
    /\ stream' = Append(stream, n)
    /\ UNCHANGED mode

Degrade ==
    /\ \/ mode = "HEALTHY" /\ mode' \in {"RESYNC_REQUIRED", "RECONNECT_REQUIRED"}
       \/ mode = "RESYNC_REQUIRED" /\ mode' = "RECONNECT_REQUIRED"
    /\ UNCHANGED <<pinned, told, stream>>

\* synchronize(): a new baseline in the same session.
Snapshot(s) ==
    /\ mode \in {"HEALTHY", "RESYNC_REQUIRED"}
    /\ Fits(s)
    /\ mode' = "HEALTHY"
    /\ pinned' = s
    /\ told' = told \cup {s}
    /\ stream' = <<>>

\* reconnect(): a new baseline in any session.
Replace(s) ==
    /\ mode # "CLOSED"
    /\ mode' = "HEALTHY"
    /\ pinned' = s
    /\ told' = {s}
    /\ stream' = <<>>

Shut ==
    /\ mode # "CLOSED"
    /\ mode' = "CLOSED"
    /\ UNCHANGED <<pinned, told, stream>>

Next ==
    \/ \E s \in ContractSessions :
          \/ Tell(s)
          \/ \E n \in 1..LastSequence : DeliverEvent(s, n)
          \/ Snapshot(s)
          \/ Replace(s)
    \/ Degrade
    \/ Shut

Spec == Init /\ [][Next]_contract
=============================================================================
