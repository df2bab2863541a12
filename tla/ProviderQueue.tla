--------------------------- MODULE ProviderQueue ---------------------------
(***************************************************************************)
(* A turn whose profiles are all queue endpoints: the dispatcher of        *)
(* Dispatch over the transport of QueueTransport, sharing the caller's     *)
(* abort signal.  Each dispatch starts a call of the transport; the value  *)
(* it returns, or the error it throws, is what the dispatcher's await      *)
(* sees.  Jobs of earlier attempts stay at the service and go on.          *)
(***************************************************************************)
EXTENDS Dispatch

CONSTANTS Modes, Parts, TTL, Interval, Faults       \* as in QueueTransport

ASSUME CompositionAssumption ==
    /\ Modes \subseteq {"sync", "async", "stream"}
    /\ Parts \in Nat
    /\ TTL \in Nat \ {0} /\ Interval \in Nat \ {0}
    /\ Faults \subseteq {"5xx", "4xx", "drop", "bad"}

VARIABLES mode, phase, wire, reply, part, jobs, elapsed, nap, result, cause

Q == INSTANCE QueueTransport WITH signal <- aborted

queue == <<mode, phase, wire, reply, part, jobs, elapsed, nap, result, cause>>
all   == <<vars, queue>>

PInit == Init /\ Q!QueueInit

\* The attempts on the primary keep its mode; a fallback has one of its own.
BeginCall == \E m \in Modes : (cand = 0 /\ attempt > 1 => m = mode) /\ Q!Begin(m)

\* readJson marks HTTP 5xx only; whatever a rejected fetch throws is unmarked.
MarkedRetryable(c) == c = "5xx"

Dispatching ==
    \/ PrimaryKeyResolves /\ BeginCall
    \/ CandidateKeyResolves /\ BeginCall
    \/ BackoffElapses /\ pc' = "transport" /\ BeginCall
    \/ BackoffElapses /\ pc' # "transport" /\ UNCHANGED queue

Settling ==
    /\ phase = "done"
    /\ \/ result # "error" /\ TransportSucceeds
       \/ result = "error" /\ TransportFails(IF MarkedRetryable(cause) THEN "transient" ELSE "fatal")
    /\ UNCHANGED queue

Elsewhere ==
    /\ Start \/ PrimaryKeyFails \/ BackoffAborts \/ CandidateKeyFails \/ CandidateGone
    /\ UNCHANGED queue

Environment ==
    \/ (Abort \/ \E n \in Removable : RemoveProfile(n)) /\ UNCHANGED queue
    \/ (Q!Network \/ Q!Workers) /\ UNCHANGED vars

Provider == Dispatching \/ Settling \/ Elsewhere
QueueRun == Q!Transport /\ UNCHANGED vars
Serving  == Q!Service /\ UNCHANGED vars
Clock    == Q!Tick /\ UNCHANGED vars

PNext == Provider \/ QueueRun \/ Serving \/ Clock \/ Environment

\* As FairSpec, but that its transports settle is left to their own parts.
PSpec == /\ PInit /\ [][PNext]_all
         /\ WF_all(~KeyAwaited /\ Provider) /\ WF_all(QueueRun) /\ WF_all(Serving) /\ WF_all(Clock)

-----------------------------------------------------------------------------
\* The composition is a dispatcher whose transports settle: the fairness that
\* Dispatch assumes of its transports is what the queue transport delivers.
ImplementsDispatch == FairSpec

\* A turn that replies with a response replies with that of the job its last
\* call submitted, which is completed; and no call leaves more than one job.
AnswerIsTheJobs ==
    /\ stream = <<"start", "done">> /\ result = "response" =>
          jobs[Len(jobs)].state = "completed"
    /\ Len(jobs) <= Calls(journal)

\* An aborted turn sends no further request, however far its retry had come.
NothingSentAfterAbort == [][aborted /\ wire # "sent" => wire' # "sent"]_all

\* "never a healthy result derived from a non-terminal job": a turn whose job is
\* not known to have ended is not replied to as a normal, finished answer.
ExpiryIsNoAnswer == stream = <<"start", "done">> => result # "expired"
=============================================================================
