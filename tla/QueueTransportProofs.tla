------------------------ MODULE QueueTransportProofs ------------------------
(* The queue transport's invariants for every mode, number of chunks, TTL,   *)
(* polling interval and set of faults.                                       *)
EXTENDS QueueTransport, SequenceTheorems, TLAPS

Submitted == Len(jobs) = 1

\* Where the call is tells whether its job exists: none before the submit
\* arrives, one from the first good answer on.
JobOfPhase ==
    /\ Len(jobs) <= 1
    /\ phase = "idle" => Len(jobs) = 0
    /\ phase = "submit" /\ wire = "sent" => Len(jobs) = 0
    /\ phase = "submit" /\ wire = "arrived" => Submitted
    /\ Answered("submit") => Submitted
    /\ phase \in {"stream", "status", "sleep"} => Submitted /\ wire # "arrived"
    /\ phase # "done" => result = "none" /\ cause = "none"

\* An answer, once given, stays true of the job while it travels.
ReplyIsTrue ==
    /\ reply = "completed" => Submitted /\ jobs[1].state = "completed"
    /\ reply = "failed" => Submitted /\ jobs[1].state = "failed"
    /\ part > 0 => Submitted /\ part <= jobs[1].parts

\* What was concluded from it stays true as well.
ResultIsTrue ==
    /\ result = "response" => Submitted /\ jobs[1].state = "completed"
    /\ result = "events" => Submitted /\ part > 0 /\ part <= jobs[1].parts
    /\ cause = "job" => Submitted /\ jobs[1].state = "failed"

QInv == QueueTypeOK /\ JobOfPhase /\ ReplyIsTrue /\ ResultIsTrue

-----------------------------------------------------------------------------
\* Job i becomes `job`.
Becomes(i, job) ==
    /\ jobs' = [jobs EXCEPT ![i] = job]
    /\ jobs[i].parts <= job.parts
    /\ jobs[i].state \in {"queued", "running"}

\* A step of a worker changes one job, keeps the others, never takes a chunk
\* back and never leaves a final state.
LEMMA WorkerKeeps ==
  ASSUME jobs \in Seq(Job), NEW i \in DOMAIN jobs, WorkerSteps(i)
  PROVE  /\ jobs' \in Seq(Job)
         /\ Len(jobs') = Len(jobs)
         /\ \A k \in DOMAIN jobs :
              /\ jobs[k].state \in {"completed", "failed"} => jobs'[k].state = jobs[k].state
              /\ jobs[k].parts <= jobs'[k].parts
<1>1. /\ i \in 1..Len(jobs) /\ DOMAIN jobs = 1..Len(jobs)
      /\ \A k \in 1..Len(jobs) : jobs[k] \in Job
  OBVIOUS
<1>2. PICK job \in Job : Becomes(i, job)
  <2>0. jobs[i] \in Job /\ jobs[i].parts \in Int
    BY <1>1, QueueAssumption DEF Job
  <2>a. ASSUME NEW s \in JobStates, jobs' = [jobs EXCEPT ![i].state = s],
               jobs[i].state \in {"queued", "running"}
        PROVE  \E job \in Job : Becomes(i, job)
    <3>1. [jobs[i] EXCEPT !.state = s] \in Job
      BY <2>0 DEF Job
    <3>2. [jobs[i] EXCEPT !.state = s].parts = jobs[i].parts
      BY <2>0 DEF Job
    <3>3. jobs' = [jobs EXCEPT ![i] = [jobs[i] EXCEPT !.state = s]]
      BY <2>a
    <3>4. Becomes(i, [jobs[i] EXCEPT !.state = s])
      BY <2>0, <2>a, <3>2, <3>3 DEF Becomes
    <3> QED BY <3>1, <3>4
  <2>1. CASE jobs[i].state = "queued" /\ jobs' = [jobs EXCEPT ![i].state = "running"]
    BY <2>1, <2>a DEF JobStates
  <2>2. CASE /\ jobs[i].state = "running" /\ jobs[i].parts < Parts
             /\ jobs' = [jobs EXCEPT ![i].parts = @ + 1]
    <3>1. [jobs[i] EXCEPT !.parts = @ + 1] \in Job
      BY <2>0, <2>2, QueueAssumption DEF Job
    <3>2. [jobs[i] EXCEPT !.parts = @ + 1].parts = jobs[i].parts + 1
      BY <2>0 DEF Job
    <3>3. jobs' = [jobs EXCEPT ![i] = [jobs[i] EXCEPT !.parts = @ + 1]]
      BY <2>2
    <3>4. Becomes(i, [jobs[i] EXCEPT !.parts = @ + 1])
      BY <2>0, <2>2, <3>2, <3>3 DEF Becomes
    <3> QED BY <3>1, <3>4
  <2>3. CASE /\ jobs[i].state = "running"
             /\ jobs' = [jobs EXCEPT ![i].state = "completed"]
    BY <2>3, <2>a DEF JobStates
  <2>4. CASE Live(i) /\ jobs' = [jobs EXCEPT ![i].state = "failed"]
    BY <2>4, <2>a DEF JobStates, Live
  <2> QED BY <2>1, <2>2, <2>3, <2>4 DEF WorkerSteps
<1>3. /\ jobs' \in Seq(Job) /\ Len(jobs') = Len(jobs)
      /\ \A k \in 1..Len(jobs) : jobs'[k] = IF k = i THEN job ELSE jobs[k]
  BY <1>1, <1>2, ExceptSeq DEF Becomes
<1>4. \A k \in 1..Len(jobs) : jobs[k].parts \in Int
  BY <1>1, QueueAssumption DEF Job
<1> QED BY <1>1, <1>2, <1>3, <1>4 DEF Becomes

-----------------------------------------------------------------------------
\* The first state.
LEMMA QInitInv == QueueInit => QInv
BY QueueAssumption
   DEF QueueInit, QInv, QueueTypeOK, JobOfPhase, ReplyIsTrue, ResultIsTrue, Submitted,
       Answered, Causes, Fetching

\* A call that throws keeps the invariant, if it says "job" only of a failed job.
LEMMA ThrowStep ==
  ASSUME QInv, NEW c \in Causes, Throw(c), UNCHANGED <<jobs, signal>>,
         c = "job" => Submitted /\ jobs[1].state = "failed"
  PROVE  QInv'
BY QueueAssumption
   DEF QInv, QueueTypeOK, JobOfPhase, ReplyIsTrue, ResultIsTrue, Submitted, Answered, Throw

\* So does one that returns what is true of its job.
LEMMA ReturnStep ==
  ASSUME QInv, NEW r \in {"response", "events", "expired"}, NEW n \in 0..Parts, Return(r, n),
         UNCHANGED <<jobs, signal>>, phase # "done",
         r = "response" => Submitted /\ jobs[1].state = "completed",
         r = "events" => n > 0,
         n > 0 => Submitted /\ n <= jobs[1].parts
  PROVE  QInv'
BY QueueAssumption
   DEF QInv, QueueTypeOK, JobOfPhase, ReplyIsTrue, ResultIsTrue, Submitted, Answered, Return

\* So does a further request of a call whose job exists.
LEMMA FetchStep ==
  ASSUME QInv, NEW p \in {"stream", "status"}, Fetch(p) \/ (p = "status" /\ StartPolling),
         UNCHANGED <<jobs, signal>>, phase # "done", Submitted
  PROVE  QInv'
<1>1. CASE Throw("abort")
  BY <1>1, ThrowStep DEF Causes
<1>2. CASE ~Throw("abort")
  BY <1>2, QueueAssumption
     DEF QInv, QueueTypeOK, JobOfPhase, ReplyIsTrue, ResultIsTrue, Submitted, Answered,
         Fetch, StartPolling, Fetching
<1> QED BY <1>1, <1>2

\* A terminal job's answer becomes the verdict.
LEMMA ConcludeStep ==
  ASSUME QInv, Conclude("response", 0), UNCHANGED <<jobs, signal>>, phase # "done"
  PROVE  QInv'
<1>1. CASE reply = "completed" /\ Return("response", 0)
  BY <1>1, ReturnStep, QueueAssumption DEF QInv, ReplyIsTrue
<1>2. CASE Throw("shape")
  BY <1>2, ThrowStep DEF Causes
<1>3. CASE reply = "failed" /\ Throw("job")
  BY <1>3, ThrowStep DEF QInv, ReplyIsTrue, Causes
<1> QED BY <1>1, <1>2, <1>3 DEF Conclude

\* An answer that tells the truth about the job.
LEMMA AnswerStep ==
  ASSUME QInv, NEW r \in Faults \cup {"pending", "completed", "failed"}, NEW n \in 0..Parts,
         Answer(r, n), UNCHANGED <<jobs, signal>>, phase \in Fetching,
         r \notin Faults => Submitted,
         r \in {"completed", "failed"} => Submitted /\ jobs[1].state = r,
         n > 0 => Submitted /\ n <= jobs[1].parts
  PROVE  QInv'
BY QueueAssumption
   DEF QInv, QueueTypeOK, JobOfPhase, ReplyIsTrue, ResultIsTrue, Submitted, Answered, Answer,
       Fetching

\* Every step keeps the invariant.
LEMMA QStepInv == QInv /\ [QueueNext]_qvars => QInv'
<1> SUFFICES ASSUME QInv, [QueueNext]_qvars PROVE QInv'
  OBVIOUS
<1>0. /\ QueueTypeOK /\ JobOfPhase /\ ReplyIsTrue /\ ResultIsTrue
      /\ jobs \in Seq(Job)
      /\ {"abort", "bad", "config", "job", "shape"} \cup Faults \subseteq Causes
  BY DEF QInv, QueueTypeOK, Causes
<1>j. ASSUME Submitted
      PROVE  /\ jobs[Len(jobs)] = jobs[1] /\ jobs[1] \in Job
             /\ StateOf(Len(jobs)) \in {"pending", "completed", "failed"}
             /\ StateOf(Len(jobs)) \in {"completed", "failed"} => jobs[1].state = StateOf(Len(jobs))
             /\ jobs[1].parts \in 0..Parts
  <2>1. jobs[1] \in Job
    BY <1>0, <1>j DEF Submitted
  <2> QED BY <1>j, <2>1 DEF Submitted, StateOf, Live, Job, JobStates
<1>1. CASE Call
  <2>1. PICK m \in Modes : Begin(m)
    BY <1>1 DEF Call
  <2> QED BY <1>0, <1>1, <2>1, QueueAssumption
          DEF Call, Begin, QInv, QueueTypeOK, JobOfPhase, ReplyIsTrue, ResultIsTrue,
              Submitted, Answered, Fetching, Causes
<1>2. CASE ReceiveFault
  BY <1>0, <1>2, ThrowStep, QueueAssumption DEF ReceiveFault
<1>3. CASE FetchAborts
  BY <1>0, <1>3, ThrowStep DEF FetchAborts
<1>4. CASE ReceiveRunsync
  BY <1>0, <1>4, ConcludeStep, FetchStep DEF ReceiveRunsync, Answered, JobOfPhase
<1>5. CASE ReceiveRun
  BY <1>0, <1>5, FetchStep DEF ReceiveRun, Answered, JobOfPhase
<1>6. CASE ReceiveStream
  <2>1. phase # "done" /\ Submitted
    BY <1>0, <1>6 DEF ReceiveStream, Answered, JobOfPhase
  <2>2. part \in 0..Parts /\ (part > 0 => part <= jobs[1].parts)
    BY <1>0 DEF QueueTypeOK, ReplyIsTrue
  <2> QED BY <1>0, <1>6, <2>1, <2>2, FetchStep, ReturnStep, ThrowStep DEF ReceiveStream
<1>7. CASE ReceiveStatus
  <2>1. phase = "status" /\ Submitted
    BY <1>0, <1>7 DEF ReceiveStatus, Answered, JobOfPhase
  <2>2. CASE Conclude("response", 0)
    BY <1>7, <2>1, <2>2, ConcludeStep DEF ReceiveStatus
  <2>3. CASE Throw("abort")
    BY <1>0, <1>7, <2>3, ThrowStep DEF ReceiveStatus
  <2>4. CASE phase' = "sleep"
    BY <1>0, <1>7, <2>1, <2>4, QueueAssumption
       DEF ReceiveStatus, Conclude, Return, Throw, QInv, QueueTypeOK, JobOfPhase, ReplyIsTrue,
           ResultIsTrue, Submitted, Answered
  <2> QED BY <1>7, <2>2, <2>3, <2>4 DEF ReceiveStatus
<1>8. CASE Wake
  <2>1. phase = "sleep" /\ Submitted
    BY <1>0, <1>8 DEF Wake, JobOfPhase
  <2> QED BY <1>0, <1>8, <2>1, FetchStep, ReturnStep, QueueAssumption DEF Wake
<1>9. CASE SleepAborts
  BY <1>0, <1>9, ThrowStep DEF SleepAborts
<1>10. CASE SubmitArrives
  <2>1. [state |-> "queued", parts |-> 0] \in Job
    BY QueueAssumption DEF Job, JobStates
  <2>2. Len(jobs) = 0
    BY <1>0, <1>10 DEF SubmitArrives, JobOfPhase
  <2>3. jobs' \in Seq(Job) /\ Len(jobs') = 1
    BY <1>0, <1>10, <2>1, <2>2, AppendProperties DEF SubmitArrives
  <2> QED BY <1>0, <1>10, <2>2, <2>3
          DEF SubmitArrives, QInv, QueueTypeOK, JobOfPhase, ReplyIsTrue, ResultIsTrue,
              Submitted, Answered
<1>11. CASE SubmitAnswered
  <2>1. Submitted
    BY <1>0, <1>11 DEF SubmitAnswered, JobOfPhase
  <2> QED BY <1>11, <1>j, <2>1, AnswerStep, QueueAssumption DEF SubmitAnswered, Fetching
<1>12. CASE StatusAnswered
  <2>1. Submitted
    BY <1>0, <1>12 DEF StatusAnswered, JobOfPhase
  <2> QED BY <1>12, <1>j, <2>1, AnswerStep, QueueAssumption DEF StatusAnswered, Fetching
<1>13. CASE StreamAnswered
  <2>1. Submitted
    BY <1>0, <1>13 DEF StreamAnswered, JobOfPhase
  <2>2. jobs[Len(jobs)].parts \in 0..Parts /\ jobs[Len(jobs)].parts <= jobs[1].parts
    BY <1>j, <2>1, QueueAssumption
  <2> QED BY <1>13, <1>j, <2>1, <2>2, AnswerStep DEF StreamAnswered, Fetching
<1>14. CASE Network
  <2>1. PICK f \in Faults : ExchangeFails(f)
    BY <1>14 DEF Network
  <2>2. f \notin {"completed", "failed"} /\ 0 \in 0..Parts
    BY QueueAssumption
  <2> QED BY <2>1, <2>2, AnswerStep DEF ExchangeFails
<1>15. CASE Workers
  <2>1. PICK i \in DOMAIN jobs : WorkerSteps(i)
    BY <1>15 DEF Workers
  <2>2. /\ jobs' \in Seq(Job) /\ Len(jobs') = Len(jobs)
        /\ Submitted =>
             /\ jobs[1].state \in {"completed", "failed"} => jobs'[1].state = jobs[1].state
             /\ jobs[1].parts <= jobs'[1].parts
             /\ jobs[1].parts \in Int /\ jobs'[1].parts \in Int
    <3>1. /\ jobs' \in Seq(Job) /\ Len(jobs') = Len(jobs)
          /\ \A k \in DOMAIN jobs :
               /\ jobs[k].state \in {"completed", "failed"} => jobs'[k].state = jobs[k].state
               /\ jobs[k].parts <= jobs'[k].parts
      BY <1>0, <2>1, WorkerKeeps
    <3>2. Submitted => 1 \in DOMAIN jobs /\ jobs[1] \in Job /\ jobs'[1] \in Job
      BY <1>0, <3>1 DEF Submitted
    <3>3. \A job \in Job : job.parts \in Int
      BY QueueAssumption DEF Job
    <3> QED BY <3>1, <3>2, <3>3
  <2>3. UNCHANGED <<call, signal>>
    BY <2>1 DEF WorkerSteps
  <2> QED BY <1>0, <2>2, <2>3
          DEF call, QInv, QueueTypeOK, JobOfPhase, ReplyIsTrue, ResultIsTrue, Submitted, Answered
<1>16. CASE Tick
  BY <1>0, <1>16, QueueAssumption
     DEF Tick, QInv, QueueTypeOK, JobOfPhase, ReplyIsTrue, ResultIsTrue, Submitted, Answered
<1>17. CASE AbortSignal
  BY <1>0, <1>17
     DEF AbortSignal, call, QInv, QueueTypeOK, JobOfPhase, ReplyIsTrue, ResultIsTrue,
         Submitted, Answered
<1>18. CASE UNCHANGED qvars
  BY <1>0, <1>18
     DEF qvars, call, QInv, QueueTypeOK, JobOfPhase, ReplyIsTrue, ResultIsTrue, Submitted,
         Answered
<1> QED
  BY <1>1, <1>2, <1>3, <1>4, <1>5, <1>6, <1>7, <1>8, <1>9, <1>10, <1>11, <1>12, <1>13, <1>14,
     <1>15, <1>16, <1>17, <1>18 DEF QueueNext, Transport, Service

-----------------------------------------------------------------------------
\* The inductive invariant holds in every reachable state, types included.
THEOREM QueueInvariance == QueueSpec => []QInv
BY QInitInv, QStepInv, PTL DEF QueueSpec

\* The variables of a call keep their types; the clock stays within the TTL.
THEOREM QueueTypeCorrect == QueueSpec => []QueueTypeOK
BY QueueInvariance, PTL DEF QInv

\* No call, in any mode and after any downgrade, submits a second job.
THEOREM SubmitsOnce == QueueSpec => []OneJobPerCall
<1>1. QInv => OneJobPerCall
  BY DEF QInv, JobOfPhase, OneJobPerCall
<1> QED BY <1>1, QueueInvariance, PTL

\* What a call returns or throws about its job is true of the job for ever.
THEOREM VerdictHolds == QueueSpec => []VerdictIsTrue
<1>1. QInv => VerdictIsTrue
  BY DEF QInv, ResultIsTrue, Submitted, VerdictIsTrue
<1> QED BY <1>1, QueueInvariance, PTL

\* No handler of an aborted call starts another exchange.
THEOREM SilentOnceAborted == QueueSpec => QuietAfterAbort
<1>1. [QueueNext]_qvars => [signal /\ wire # "sent" => wire' # "sent"]_qvars
  BY DEF QueueNext, qvars, call, Call, Begin, Transport, ReceiveFault, FetchAborts,
         ReceiveRunsync, ReceiveRun, ReceiveStream, ReceiveStatus, Wake, SleepAborts,
         Conclude, StartPolling, Fetch, Throw, Return, Service, SubmitArrives,
         SubmitAnswered, StatusAnswered, StreamAnswered, Answer, Network, ExchangeFails,
         Workers, WorkerSteps, Tick, AbortSignal
<1> QED BY <1>1, PTL DEF QueueSpec, QuietAfterAbort
=============================================================================
