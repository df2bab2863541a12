--------------------------- MODULE QueueTransport ---------------------------
(***************************************************************************)
(* The managed-queue transport, executeQueueTransport in                   *)
(* src/src/transport/queue.ts, against the Runpod job service it talks to. *)
(* A call submits one job and follows it in the profile's mode:            *)
(*   sync    POST /runsync, polling /status when the wait elapses;         *)
(*   async   POST /run, then poll /status;                                 *)
(*   stream  POST /run, one GET /stream, polling when it has no chunk.     *)
(*                                                                         *)
(* Each handler of the transport runs from one await to the next.  The     *)
(* service, its workers, the network, the clock and the caller's signal    *)
(* act in between.  The service is modelled from how the transport uses it *)
(* and from the replies its code tells apart.                              *)
(***************************************************************************)
EXTENDS Integers, Sequences

CONSTANTS
    Modes,      \* request.mode of the profiles that may be called
    Parts,      \* chunks a generator worker puts out
    TTL,        \* polling.ttlMs, in clock ticks
    Interval,   \* polling.intervalMs, in clock ticks
    Faults      \* what may go wrong with an HTTP exchange

ASSUME QueueAssumption ==
    /\ Modes \subseteq {"sync", "async", "stream"}
    /\ Parts \in Nat
    /\ TTL \in Nat \ {0} /\ Interval \in Nat \ {0}      \* parsePositiveNumber
    /\ Faults \subseteq {"5xx", "4xx", "drop", "bad"}

VARIABLES
    mode,       \* mode of the call
    phase,      \* the await at which the call is suspended
    wire,       \* how far the HTTP exchange in progress has come
    reply,      \* the answer on its way back
    part,       \* chunks in that answer
    jobs,       \* the jobs of the service
    elapsed,    \* ticks since startedAt, as far as the TTL can tell
    nap,        \* ticks left of the polling interval
    result,     \* what the call returned or threw
    cause,      \* why it threw
    signal      \* signal.aborted

call    == <<mode, phase, wire, reply, part, elapsed, nap, result, cause>>
qvars   == <<call, jobs, signal>>

Fetching  == {"submit", "stream", "status"}
Causes    == Faults \cup {"none", "abort", "bad", "config", "job", "shape"}
JobStates == {"queued", "running", "completed", "failed"}
Job       == [state : JobStates, parts : 0..Parts]
Live(i)   == jobs[i].state \in {"queued", "running"}

QueueInit ==
    /\ mode = "none" /\ phase = "idle"
    /\ wire = "none" /\ reply = "none" /\ part = 0
    /\ jobs = <<>>
    /\ elapsed = 0 /\ nap = 0
    /\ result = "none" /\ cause = "none"
    /\ signal \in BOOLEAN

-----------------------------------------------------------------------------
(* The transport.  Every handler sets all of `call`.                        *)

Throw(c) ==
    /\ phase' = "done" /\ result' = "error" /\ cause' = c
    /\ wire' = "none" /\ reply' = "none" /\ part' = 0
    /\ UNCHANGED <<mode, elapsed, nap>>

\* A result, with the chunks it carries.
Return(r, n) ==
    /\ phase' = "done" /\ result' = r /\ part' = n
    /\ wire' = "none" /\ reply' = "none"
    /\ UNCHANGED <<mode, elapsed, nap, cause>>

FetchUnchecked(p) ==
    /\ phase' = p /\ wire' = "sent" /\ reply' = "none" /\ part' = 0
    /\ UNCHANGED <<mode, elapsed, nap, result, cause>>
\* postJson and getJson look at the signal before they fetch.
Fetch(p) ==
    \/ /\ signal
       /\ Throw("abort")
    \/ /\ ~signal
       /\ phase' = p /\ wire' = "sent" /\ reply' = "none" /\ part' = 0
       /\ UNCHANGED <<mode, elapsed, nap, result, cause>>

\* executeQueueTransport up to its submit.  A profile without invokeUrl, with
\* the module adapter, without a key, or whose messages cannot be encoded is
\* refused before anything is sent.
Begin(m) ==
    /\ phase \in {"idle", "done"}
    /\ \/ /\ signal /\ phase' = "done" /\ wire' = "none" /\ result' = "error" /\ cause' = "abort"
       \/ /\ phase' = "done" /\ wire' = "none" /\ result' = "error" /\ cause' = "config"
       \/ /\ ~signal /\ phase' = "submit" /\ wire' = "sent" /\ result' = "none" /\ cause' = "none"
    /\ mode' = m
    /\ elapsed' = 0 /\ nap' = 0
    /\ reply' = "none" /\ part' = 0
    /\ UNCHANGED <<jobs, signal>>

\* readJson: HTTP errors and unreadable bodies; a rejected fetch passes through.
ReceiveFault ==
    /\ phase \in Fetching /\ wire = "answered" /\ reply \in Faults
    /\ Throw(reply)
    /\ UNCHANGED <<jobs, signal>>

\* fetch rejects once the signal is aborted; so does the reading of its body,
\* which readJson takes for an unreadable one.
FetchAborts ==
    /\ phase \in Fetching /\ signal
    /\ Throw("abort") \/ Throw("bad")
    /\ UNCHANGED <<jobs, signal>>

Answered(p) == phase = p /\ wire = "answered" /\ reply \notin Faults

PendingIsDone(r, n) ==
    \/ reply \in {"completed", "pending"} /\ (Return(r, n) \/ Throw("shape"))
    \/ reply = "failed" /\ Throw("job")
\* A terminal job: its output decodes or has an unsupported shape, or it failed.
Conclude(r, n) ==
    \/ reply = "completed" /\ (Return(r, n) \/ Throw("shape"))
    \/ reply = "failed" /\ Throw("job")

\* pollUntilTerminal starts its clock and asks at once: no time has passed.
StartPolling ==
    \/ /\ signal
       /\ Throw("abort")
    \/ /\ ~signal
       /\ phase' = "status" /\ wire' = "sent" /\ reply' = "none" /\ part' = 0
       /\ elapsed' = 0
       /\ UNCHANGED <<mode, nap, result, cause>>

ReceiveRunsync ==
    /\ Answered("submit") /\ mode = "sync"
    /\ \/ Conclude("response", 0)
       \/ reply = "pending" /\ StartPolling
    /\ UNCHANGED <<jobs, signal>>

ReceiveRun ==
    /\ Answered("submit") /\ mode # "sync"
    /\ \/ mode = "async" /\ StartPolling
       \/ mode = "stream" /\ Fetch("stream")
    /\ UNCHANGED <<jobs, signal>>

\* No chunk, or no stream document at all: downgrade to polling.  Otherwise
\* the chunks of this one answer are the result, whatever status it carries.
ReceiveStream ==
    /\ Answered("stream")
    /\ \/ part = 0 /\ StartPolling
       \/ part > 0 /\ (Return("events", part) \/ Throw("shape"))
    /\ UNCHANGED <<jobs, signal>>

\* A job still in progress, or in a status unknown to the code, is asked again
\* after the interval.
ReceiveStatus ==
    /\ Answered("status")
    /\ \/ Conclude("response", 0)
       \/ /\ reply = "pending"
          /\ \/ signal /\ Throw("abort")
             \/ /\ ~signal
                /\ phase' = "sleep" /\ nap' = Interval
                /\ wire' = "none" /\ reply' = "none" /\ part' = 0
                /\ UNCHANGED <<mode, elapsed, result, cause>>
    /\ UNCHANGED <<jobs, signal>>

\* Each round of the poll checks the TTL before it asks.
PollForEver ==
    /\ phase = "sleep" /\ nap = 0 /\ ~signal
    /\ Fetch("status")
    /\ UNCHANGED <<jobs, signal>>
SubmitAgain ==
    /\ phase = "sleep" /\ nap = 0 /\ ~signal
    /\ Fetch("submit")
    /\ UNCHANGED <<jobs, signal>>
Wake ==
    /\ phase = "sleep" /\ nap = 0 /\ ~signal
    /\ \/ elapsed > TTL /\ Return("expired", 0)
       \/ elapsed <= TTL /\ Fetch("status")
    /\ UNCHANGED <<jobs, signal>>

SleepAborts ==
    /\ phase = "sleep" /\ signal
    /\ Throw("abort")
    /\ UNCHANGED <<jobs, signal>>

Transport ==
    \/ ReceiveFault \/ FetchAborts
    \/ ReceiveRunsync \/ ReceiveRun \/ ReceiveStream \/ ReceiveStatus
    \/ Wake \/ SleepAborts

-----------------------------------------------------------------------------
(* The service and the network.  The exchange is with the latest job.       *)

Answer(r, n) ==
    /\ wire' = "answered" /\ reply' = r /\ part' = n
    /\ UNCHANGED <<mode, phase, elapsed, nap, result, cause>>

\* A submit that reaches the service creates its job, whatever comes back.
SubmitArrives ==
    /\ phase = "submit" /\ wire = "sent"
    /\ jobs' = Append(jobs, [state |-> "queued", parts |-> 0])
    /\ wire' = "arrived"
    /\ UNCHANGED <<mode, phase, reply, part, elapsed, nap, result, cause, signal>>

\* An answer about a job tells its state at this moment, not when it is read.
StateOf(i) == IF Live(i) THEN "pending" ELSE jobs[i].state

SubmitAnswered ==
    /\ phase = "submit" /\ wire = "arrived"
    /\ Answer(IF mode = "sync" THEN StateOf(Len(jobs)) ELSE "pending", 0)
    /\ UNCHANGED <<jobs, signal>>

StatusAnswered ==
    /\ phase = "status" /\ wire = "sent"
    /\ Answer(StateOf(Len(jobs)), 0)
    /\ UNCHANGED <<jobs, signal>>

StreamAnswered ==
    /\ phase = "stream" /\ wire = "sent"
    /\ Answer(StateOf(Len(jobs)), jobs[Len(jobs)].parts)
    /\ UNCHANGED <<jobs, signal>>

\* The exchange fails on its way there, at the service, or on its way back.
ExchangeFails(f) ==
    /\ phase \in Fetching /\ wire \in {"sent", "arrived"}
    /\ Answer(f, 0)
    /\ UNCHANGED <<jobs, signal>>

\* A worker takes a job, puts out chunks if it is a generator, and ends it.
WorkerSteps(i) ==
    /\ \/ /\ jobs[i].state = "queued"
          /\ jobs' = [jobs EXCEPT ![i].state = "running"]
       \/ /\ jobs[i].state = "running" /\ jobs[i].parts < Parts
          /\ jobs' = [jobs EXCEPT ![i].parts = @ + 1]
       \/ /\ jobs[i].state = "running" /\ jobs[i].parts \in {0, Parts}
          /\ jobs' = [jobs EXCEPT ![i].state = "completed"]
       \/ /\ Live(i)
          /\ jobs' = [jobs EXCEPT ![i].state = "failed"]
    /\ UNCHANGED <<call, signal>>

\* Time passes while the call polls; beyond the TTL it makes no difference.
Tick ==
    /\ phase \in {"status", "sleep"}
    /\ nap > 0 \/ elapsed <= TTL
    /\ nap' = (IF nap > 0 THEN nap - 1 ELSE 0)
    /\ elapsed' = (IF elapsed <= TTL THEN elapsed + 1 ELSE elapsed)
    /\ UNCHANGED <<mode, phase, wire, reply, part, result, cause, jobs, signal>>

AbortSignal ==
    /\ ~signal
    /\ signal' = TRUE
    /\ UNCHANGED <<call, jobs>>

Network == \E f \in Faults : ExchangeFails(f)
Service == SubmitArrives \/ SubmitAnswered \/ StatusAnswered \/ StreamAnswered
Workers == \E i \in DOMAIN jobs : WorkerSteps(i)

\* One call.
Call == phase = "idle" /\ \E m \in Modes : Begin(m)

QueueNext == Call \/ Transport \/ Service \/ Network \/ Workers \/ Tick \/ AbortSignal

\* The service answers, or the connection breaks: an exchange settles.  Workers
\* owe nothing: a job may stay queued for ever.
QueueSpec ==
    /\ QueueInit /\ [][QueueNext]_qvars
    /\ WF_qvars(Call) /\ WF_qvars(Transport) /\ WF_qvars(Service) /\ WF_qvars(Tick)

-----------------------------------------------------------------------------
\* Every variable of a call has its type; elapsed and nap stay within the TTL and
\* the polling interval.
QueueTypeOK ==
    /\ mode \in Modes \cup {"none"}
    /\ phase \in Fetching \cup {"idle", "sleep", "done"}
    /\ wire \in {"none", "sent", "arrived", "answered"}
    /\ reply \in Faults \cup {"none", "pending", "completed", "failed"}
    /\ part \in 0..Parts
    /\ jobs \in Seq(Job)
    /\ elapsed \in 0..(TTL + 1)
    /\ nap \in 0..Interval
    /\ result \in {"none", "response", "events", "expired", "error"}
    /\ cause \in Causes
    /\ signal \in BOOLEAN

\* What a call says of its job is true of the job: a response comes from a
\* completed job and a job failure from a failed one, however long the answer
\* travelled and whatever the worker did meanwhile.
VerdictIsTrue ==
    phase = "done" =>
        /\ result = "response" => jobs[Len(jobs)].state = "completed"
        /\ cause = "job" => jobs[Len(jobs)].state = "failed"
        /\ result = "events" => part > 0 /\ part <= jobs[Len(jobs)].parts

\* A call submits at most one job, in every mode, downgrades included.
OneJobPerCall == Len(jobs) <= 1

\* An aborted call sends nothing more: only an exchange already on its way may
\* still reach the service.
QuietAfterAbort == [][signal /\ wire # "sent" => wire' # "sent"]_qvars

\* A call ends although its worker may never: the TTL bounds the polling.
CallEnds == <>(phase = "done")
=============================================================================
