---------------------------- MODULE TurnContract ----------------------------
(***************************************************************************)
(* What one turn promises its caller, without attempts, candidates, keys   *)
(* or backoffs: at most one backend call is pending at a time, a further   *)
(* call is made only after a transient failure and only while the budget   *)
(* lasts, and the stream ends exactly once, with the answer of the last    *)
(* call or with a failure.                                                 *)
(***************************************************************************)
EXTENDS Naturals

CONSTANT Budget     \* calls one turn may make

VARIABLES
    status,     \* of the caller's stream
    calls,      \* backend calls made so far
    last        \* state of the latest call, or "key" while one is looked for

turn == <<status, calls, last>>

TurnInit == status = "open" /\ calls = 0 /\ last = "none"

LookForKey ==
    /\ status = "open"
    /\ last \in {"none", "transient"}
    /\ last' = "key"
    /\ UNCHANGED <<status, calls>>

\* The profile just called is called again with the key it has.
Call ==
    /\ status = "open"
    /\ last \in {"key", "transient"}
    /\ calls < Budget
    /\ last' = "pending"
    /\ calls' = calls + 1
    /\ UNCHANGED status

Transient ==
    /\ status = "open" /\ last = "pending"
    /\ last' = "transient"
    /\ UNCHANGED <<status, calls>>

Reply ==
    /\ status = "open" /\ last = "pending"
    /\ status' = "replied" /\ last' = "answered"
    /\ UNCHANGED calls

Fail ==
    /\ status = "open"
    /\ status' = "failed" /\ last' = "answered"
    /\ UNCHANGED calls

TurnNext == LookForKey \/ Call \/ Transient \/ Reply \/ Fail

TurnSpec == TurnInit /\ [][TurnNext]_turn

\* A turn is left open for ever only by a key that never comes.
TurnLive == <>(status # "open") \/ <>[](last = "key")

TurnContractSpec == TurnSpec /\ TurnLive
=============================================================================
