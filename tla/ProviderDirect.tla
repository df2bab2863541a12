--------------------------- MODULE ProviderDirect ---------------------------
(***************************************************************************)
(* A turn whose profiles are called directly: the dispatcher of Dispatch   *)
(* over the transports of DirectTransport, sharing the caller's signal.    *)
(* Unlike the queue transport these bound nearly every wait by a timer of  *)
(* their own, so the turn ends with no help from the worker.  KeyedTurn    *)
(* says which key each of the requests bears, and the fairness.            *)
(***************************************************************************)
EXTENDS Dispatch

VARIABLES kind, probe, phase, wire, reply, scope, result, cause, transient

D == INSTANCE DirectTransport WITH signal <- aborted

direct == <<kind, probe, phase, wire, reply, scope, result, cause, transient>>
turn   == <<vars, direct>>

TInit == Init /\ D!DirectInit

\* The attempts on the primary keep its kind; a fallback has one of its own.
BeginCall == \E k \in D!Kinds : /\ cand = 0 /\ attempt > 1 => k = kind
                              /\ D!Begin(k) /\ ~probe'

\* The dispatcher retries what its transport marked.
AnyErrorMarked == TRUE
Marked == transient

Dispatching ==
    \/ PrimaryKeyResolves /\ BeginCall
    \/ CandidateKeyResolves /\ BeginCall
    \/ BackoffElapses /\ pc' = "transport" /\ BeginCall
    \/ BackoffElapses /\ pc' # "transport" /\ UNCHANGED direct

Settling ==
    /\ phase = "done"
    /\ \/ result # "error" /\ TransportSucceeds
       \/ result = "error" /\ TransportFails(IF Marked THEN "transient" ELSE "fatal")
    /\ UNCHANGED direct

Elsewhere ==
    /\ Start \/ PrimaryKeyFails \/ BackoffAborts \/ CandidateKeyFails \/ CandidateGone
    /\ UNCHANGED direct

Provider == Dispatching \/ Settling \/ Elsewhere
Calling  == D!Direct /\ UNCHANGED vars
Timer    == D!TimerFires /\ UNCHANGED vars
\* Pods are probed with no signal, and a probe shares nothing with a turn: it is
\* enough to let probes follow a turn that called nobody.
Probing  == /\ pc = "end" /\ ~aborted
            /\ phase = "idle" \/ (phase = "done" /\ probe)
            /\ \E k \in D!Kinds \ {"lb"} : D!Begin(k) /\ probe'
            /\ UNCHANGED vars
Others   == \/ D!Peer /\ UNCHANGED vars
            \/ ~probe /\ Abort /\ D!SignalAborts
            \/ (\E n \in Removable : RemoveProfile(n)) /\ UNCHANGED direct

TNext == Provider \/ Calling \/ Timer \/ Probing \/ Others

TSpec == TInit /\ [][TNext]_turn

-----------------------------------------------------------------------------
\* A call or probe leaves no timer and no listener behind, on any way out of it,
\* whoever began it and whatever the signal did meanwhile.
ScopeEndsWithCall == D!ScopeEndsWithCall

\* "Deterministic failures and caller-side aborts/timeouts are never retryable"
\* (transport/types.ts), of the calls a turn makes.
AbortsNeverRetry == D!AbortsNeverRetry

\* "the profile's request timeout bound[s] the call": a call that has begun is
\* over some day although no peer may ever answer.  Only the body of a lookup's
\* answer, which is read outside its scope, can keep it waiting.
DirectEnds == (phase \notin {"idle", "done"}) ~> (phase = "done" \/ [](phase = "lookupBody"))

\* Every turn ends, with no fairness of the workers at all, unless it hangs in
\* one of the two awaits that have neither timer nor signal: the body of a
\* lookup's answer, and a key that a command is to print.
TurnEnds == <>(pc = "end") \/ <>[](phase = "lookupBody") \/ <>[]KeyAwaited

\* "aborts and timeouts never retry": a turn whose call of a worker timed out
\* ends, however many attempts and fallbacks it has left, looked-up pods
\* included; so does one whose timer fired while a JSON body was read, which the
\* code calls a shape error.  The two exceptions the code makes: the timeout of
\* the lookup itself, and a worker that has already said HTTP 5xx.
TimeoutEndsTurn ==
    [][pc = "transport" /\ cause \in {"timeout", "shape"} /\ pc' # "transport"
         => pc' = "end"]_turn

\* An aborted turn asks no worker and no control plane again, whichever await
\* the abort met.
NoWorkerAfterAbort ==
    [][aborted /\ wire' = "sent" /\ phase' \in D!Heads => wire = "sent" /\ phase = phase']_turn
=============================================================================
