------------------------ MODULE ProviderQueueProofs ------------------------
(* A turn over the queue transport: it is a dispatcher, so that everything   *)
(* proved of Dispatch holds of it, and what it answers is its job's.         *)
EXTENDS ProviderQueue, DispatchProofs, SequenceTheorems

\* Every step of the composition is one of the dispatcher, or invisible to it.
LEMMA DispatcherStep == [PNext]_all => [Next]_vars
<1> SUFFICES ASSUME [PNext]_all PROVE [Next]_vars
  OBVIOUS
<1>1. CASE Dispatching
  BY <1>1 DEF Dispatching, Next, Run
<1>2. CASE Settling
  <2>1. \A c : (IF MarkedRetryable(c) THEN "transient" ELSE "fatal") \in {"transient", "fatal"}
    OBVIOUS
  <2> QED BY <1>2, <2>1 DEF Settling, Next, Run
<1>3. CASE Elsewhere
  BY <1>3 DEF Elsewhere, Next, Run
<1>4. CASE Environment
  BY <1>4 DEF Environment, Next
<1>5. CASE QueueRun \/ Serving \/ Clock \/ UNCHANGED all
  BY <1>5 DEF QueueRun, Serving, Clock, all
<1> QED BY <1>1, <1>2, <1>3, <1>4, <1>5 DEF PNext, Provider

\* The composition is a dispatcher: the safety part of ImplementsDispatch.
THEOREM RefinesDispatcher == PSpec => Spec
<1>1. PInit => Init
  BY DEF PInit
<1> QED BY <1>1, DispatcherStep, PTL DEF PSpec, Spec

\* No step of an aborted turn sends a request, in the dispatcher or below it.
THEOREM QuietTurn == PSpec => NothingSentAfterAbort
<1>1. [PNext]_all => [aborted /\ wire # "sent" => wire' # "sent"]_all
  <2> SUFFICES ASSUME PNext, aborted, wire # "sent" PROVE wire' # "sent"
    OBVIOUS
  <2>1. ASSUME BeginCall PROVE wire' # "sent"
    BY <2>1 DEF BeginCall, Q!Begin
  <2>2. CASE Provider
    BY <2>1, <2>2 DEF Provider, Dispatching, Settling, Elsewhere, queue
  <2>3. CASE QueueRun
    BY <2>3 DEF QueueRun, Q!Transport, Q!ReceiveFault, Q!FetchAborts, Q!ReceiveRunsync,
            Q!ReceiveRun, Q!ReceiveStream, Q!ReceiveStatus, Q!Wake, Q!SleepAborts, Q!Conclude,
            Q!StartPolling, Q!Fetch, Q!Throw, Q!Return
  <2>4. CASE Serving
    BY <2>4 DEF Serving, Q!Service, Q!SubmitArrives, Q!SubmitAnswered, Q!StatusAnswered,
            Q!StreamAnswered, Q!Answer
  <2>5. CASE Clock
    BY <2>5 DEF Clock, Q!Tick
  <2>6. CASE Environment
    BY <2>6 DEF Environment, queue, Q!Network, Q!ExchangeFails, Q!Answer, Q!Workers,
            Q!WorkerSteps, Q!call
  <2> QED BY <2>2, <2>3, <2>4, <2>5, <2>6 DEF PNext
<1> QED BY <1>1, PTL DEF PSpec, NothingSentAfterAbort

-----------------------------------------------------------------------------
\* Where the transport is tells which calls have their job.  The call in
\* progress is the last one dispatched: until its submit arrives there is one
\* job less than calls.
JobsOfCalls ==
    /\ Len(jobs) <= Calls(journal)
    /\ phase = "submit" /\ wire = "sent" => Len(jobs) < Calls(journal)
    /\ phase = "submit" /\ wire = "arrived" => Len(jobs) > 0
    /\ Q!Answered("submit") => Len(jobs) > 0
    /\ phase \in {"stream", "status", "sleep"} => Len(jobs) > 0 /\ wire # "arrived"
    /\ phase # "done" => result = "none"
    /\ wire # "answered" => reply = "none"

LastCompleted == Len(jobs) > 0 /\ jobs[Len(jobs)].state = "completed"

\* Whatever is said of the last job is true of it, on its way and afterwards.
LastJob ==
    /\ reply = "completed" => LastCompleted
    /\ result = "response" => LastCompleted

PInv == IInv /\ jobs \in Seq(Q!Job) /\ JobsOfCalls /\ LastJob

\* Each call of the dispatcher counts one; nothing else changes the count.
LEMMA CallsGrow ==
  ASSUME IInv, IInv', [Next]_vars
  PROVE  /\ Calls(journal) \in Nat /\ Calls(journal') \in Nat
         /\ Calls(journal') >= Calls(journal)
         /\ pc # "transport" /\ pc' = "transport" => Calls(journal') = Calls(journal) + 1
<1>1. Calls(journal) \in Nat /\ Calls(journal') \in Nat
  BY CallsNat DEF IInv, TypeOK
<1>2. [Turn!TurnNext]_(Turn!turn)
  BY TurnStep
<1>3. pc \in {"start", "primaryKey", "transport", "backoff", "candidateKey", "end"}
  BY DEF IInv, TypeOK
<1> DEFINE last == IF pc = "end" THEN "answered"
                   ELSE IF pc = "transport" THEN "pending"
                   ELSE IF pc = "backoff" THEN "transient"
                   ELSE IF pc \in {"primaryKey", "candidateKey"} THEN "key" ELSE "none"
<1>4. \/ last' = "pending" /\ Calls(journal') = Calls(journal) + 1
      \/ Calls(journal') = Calls(journal) /\ (last' # "pending" \/ last' = last)
  BY <1>2 DEF Turn!turn, Turn!TurnNext, Turn!LookForKey, Turn!Call, Turn!Transient, Turn!Reply, Turn!Fail
<1>5. pc # "transport" /\ pc' = "transport" => last # "pending" /\ last' = "pending"
  BY <1>3
<1> HIDE DEF last
<1> QED BY <1>1, <1>4, <1>5

\* A worker's step keeps the number of jobs and every final state.
LEMMA WorkerStays ==
  ASSUME jobs \in Seq(Q!Job), NEW i \in DOMAIN jobs, Q!WorkerSteps(i)
  PROVE  /\ jobs' \in Seq(Q!Job) /\ Len(jobs') = Len(jobs)
         /\ LastCompleted => LastCompleted'
<1>1. /\ i \in 1..Len(jobs) /\ jobs[i] \in Q!Job /\ jobs[i].parts \in 0..Parts /\ Parts \in Nat
  <2>1. i \in 1..Len(jobs) /\ jobs[i] \in Q!Job
    OBVIOUS
  <2> QED BY <2>1, CompositionAssumption DEF Q!Job
<1>a. ASSUME NEW job \in Q!Job, jobs' = [jobs EXCEPT ![i] = job], jobs[i].state # "completed"
      PROVE  /\ jobs' \in Seq(Q!Job) /\ Len(jobs') = Len(jobs)
             /\ LastCompleted => LastCompleted'
  <2>1. /\ jobs' \in Seq(Q!Job) /\ Len(jobs') = Len(jobs)
        /\ \A k \in 1..Len(jobs) : jobs'[k] = IF k = i THEN job ELSE jobs[k]
    BY <1>1, <1>a, ExceptSeq
  <2> QED BY <1>1, <1>a, <2>1 DEF LastCompleted
<1>b. ASSUME NEW s \in Q!JobStates, jobs' = [jobs EXCEPT ![i].state = s],
             jobs[i].state # "completed"
      PROVE  /\ jobs' \in Seq(Q!Job) /\ Len(jobs') = Len(jobs)
             /\ LastCompleted => LastCompleted'
  <2>1. [jobs[i] EXCEPT !.state = s] \in Q!Job
    BY <1>1 DEF Q!Job
  <2>2. jobs' = [jobs EXCEPT ![i] = [jobs[i] EXCEPT !.state = s]]
    BY <1>b
  <2> QED BY <1>a, <1>b, <2>1, <2>2
<1>2. CASE jobs[i].state = "queued" /\ jobs' = [jobs EXCEPT ![i].state = "running"]
  BY <1>2, <1>b DEF Q!JobStates
<1>3. CASE /\ jobs[i].state = "running" /\ jobs[i].parts < Parts
           /\ jobs' = [jobs EXCEPT ![i].parts = @ + 1]
  <2>1. [jobs[i] EXCEPT !.parts = @ + 1] \in Q!Job
    <3>1. jobs[i].parts + 1 \in 0..Parts
      BY <1>1, <1>3
    <3> QED BY <1>1, <3>1 DEF Q!Job
  <2>2. jobs' = [jobs EXCEPT ![i] = [jobs[i] EXCEPT !.parts = @ + 1]]
    BY <1>3
  <2> QED BY <1>a, <1>3, <2>1, <2>2
<1>4. CASE jobs[i].state = "running" /\ jobs' = [jobs EXCEPT ![i].state = "completed"]
  BY <1>4, <1>b DEF Q!JobStates
<1>5. CASE Q!Live(i) /\ jobs' = [jobs EXCEPT ![i].state = "failed"]
  BY <1>5, <1>b DEF Q!JobStates, Q!Live
<1> QED BY <1>2, <1>3, <1>4, <1>5 DEF Q!WorkerSteps

\* What the transport does with a call keeps the jobs and says what is true.
LEMMA TransportStays ==
  ASSUME jobs \in Seq(Q!Job), JobsOfCalls, LastJob, Q!Transport, UNCHANGED vars
  PROVE  UNCHANGED jobs /\ JobsOfCalls' /\ LastJob'
<1>0. /\ UNCHANGED <<jobs, aborted, journal>> /\ Calls(journal') = Calls(journal)
      /\ "completed" \notin Faults /\ Len(jobs) \in Nat
  BY CompositionAssumption
     DEF vars, Q!Transport, Q!ReceiveFault, Q!FetchAborts, Q!ReceiveRunsync, Q!ReceiveRun,
         Q!ReceiveStream, Q!ReceiveStatus, Q!Wake, Q!SleepAborts
<1>a. ASSUME NEW c, Q!Throw(c)
      PROVE  JobsOfCalls' /\ LastJob'
  BY <1>0, <1>a DEF Q!Throw, Q!Answered, JobsOfCalls, LastJob, LastCompleted
<1>b. ASSUME NEW r, NEW n, Q!Return(r, n), r = "response" => LastCompleted
      PROVE  JobsOfCalls' /\ LastJob'
  BY <1>0, <1>b DEF Q!Return, Q!Answered, JobsOfCalls, LastJob, LastCompleted
<1>c. ASSUME NEW p \in {"stream", "status"}, Q!Fetch(p) \/ (p = "status" /\ Q!StartPolling),
             Len(jobs) > 0, phase # "done"
      PROVE  JobsOfCalls' /\ LastJob'
  BY <1>0, <1>a, <1>c
     DEF Q!Fetch, Q!StartPolling, Q!Answered, JobsOfCalls, LastJob, LastCompleted
<1>d. ASSUME Q!Conclude("response", 0)
      PROVE  JobsOfCalls' /\ LastJob'
  BY <1>a, <1>b, <1>d DEF Q!Conclude, LastJob
<1>1. CASE Q!ReceiveFault \/ Q!FetchAborts \/ Q!SleepAborts
  BY <1>a, <1>1 DEF Q!ReceiveFault, Q!FetchAborts, Q!SleepAborts
<1>2. CASE Q!ReceiveRunsync
  BY <1>c, <1>d, <1>2 DEF Q!ReceiveRunsync, Q!Answered, JobsOfCalls
<1>3. CASE Q!ReceiveRun
  BY <1>c, <1>3 DEF Q!ReceiveRun, Q!Answered, JobsOfCalls
<1>4. CASE Q!ReceiveStream
  BY <1>a, <1>b, <1>c, <1>4 DEF Q!ReceiveStream, Q!Answered, JobsOfCalls
<1>5. CASE Q!ReceiveStatus
  <2>1. phase = "status" /\ Len(jobs) > 0
    BY <1>5 DEF Q!ReceiveStatus, Q!Answered, JobsOfCalls
  <2>2. CASE phase' = "sleep" /\ wire' = "none" /\ reply' = "none" /\ UNCHANGED result
    BY <1>0, <2>1, <2>2 DEF Q!Answered, JobsOfCalls, LastJob, LastCompleted
  <2> QED BY <1>a, <1>d, <1>5, <2>2 DEF Q!ReceiveStatus
<1>6. CASE Q!Wake
  BY <1>b, <1>c, <1>6 DEF Q!Wake, JobsOfCalls
<1> QED BY <1>0, <1>1, <1>2, <1>3, <1>4, <1>5, <1>6 DEF Q!Transport

\* The service answers with the state the last job has.
LEMMA ServiceStays ==
  ASSUME jobs \in Seq(Q!Job), JobsOfCalls, LastJob, Q!Service, UNCHANGED vars,
         Calls(journal) \in Nat
  PROVE  jobs' \in Seq(Q!Job) /\ JobsOfCalls' /\ LastJob'
<1>0. /\ UNCHANGED journal /\ Calls(journal') = Calls(journal)
      /\ Len(jobs) \in Nat
  BY DEF vars
<1>1. CASE Q!SubmitArrives
  <2> DEFINE job == [state |-> "queued", parts |-> 0]
  <2>1. job \in Q!Job
    BY CompositionAssumption DEF Q!Job, Q!JobStates
  <2>2. jobs' \in Seq(Q!Job) /\ Len(jobs') = Len(jobs) + 1
    BY <1>1, <2>1, AppendProperties DEF Q!SubmitArrives
  <2>4. phase = "submit" /\ wire = "sent" /\ result = "none" /\ Len(jobs) < Calls(journal)
    BY <1>1 DEF Q!SubmitArrives, JobsOfCalls
  <2>5. wire' = "arrived" /\ phase' = phase /\ result' = result /\ reply' = reply
    BY <1>1 DEF Q!SubmitArrives
  <2>6. JobsOfCalls'
    BY <1>0, <2>2, <2>4, <2>5 DEF JobsOfCalls, Q!Answered
  <2>7. reply = "none"
    BY <2>4 DEF JobsOfCalls
  <2> QED BY <2>2, <2>4, <2>5, <2>6, <2>7 DEF LastJob
<1>2. CASE Q!SubmitAnswered \/ Q!StatusAnswered \/ Q!StreamAnswered
  <2>1. /\ UNCHANGED <<jobs, phase, result>> /\ wire' = "answered"
        /\ reply' \in {Q!StateOf(Len(jobs)), "pending"}
        /\ Len(jobs) > 0 /\ phase # "done"
    BY <1>2 DEF Q!SubmitAnswered, Q!StatusAnswered, Q!StreamAnswered, Q!Answer, JobsOfCalls
  <2>2. reply' = "completed" => LastCompleted
    BY <2>1 DEF Q!StateOf, Q!Live, LastCompleted
  <2> QED BY <1>0, <2>1, <2>2 DEF JobsOfCalls, LastJob, LastCompleted, Q!Answered
<1> QED BY <1>1, <1>2 DEF Q!Service

\* A new call begins with an empty exchange; its job is still to come.
LEMMA BeginStays ==
  ASSUME jobs \in Seq(Q!Job), JobsOfCalls, BeginCall, Calls(journal) \in Nat,
         Calls(journal') = Calls(journal) + 1
  PROVE  UNCHANGED jobs /\ JobsOfCalls' /\ LastJob'
<1>1. PICK m \in Modes : Q!Begin(m)
  BY DEF BeginCall
<1> QED BY <1>1 DEF Q!Begin, JobsOfCalls, LastJob, Q!Answered

\* Every step of the composition keeps its invariant.
LEMMA PStepInv == PInv /\ [PNext]_all => PInv'
<1> SUFFICES ASSUME PInv, [PNext]_all PROVE PInv'
  OBVIOUS
<1>0. /\ IInv /\ jobs \in Seq(Q!Job) /\ JobsOfCalls /\ LastJob /\ Len(jobs) \in Nat
      /\ [Next]_vars
  BY DispatcherStep DEF PInv
<1>1. IInv'
  BY <1>0, StepInv
<1>2. /\ Calls(journal) \in Nat /\ Calls(journal') \in Nat /\ Calls(journal') >= Calls(journal)
      /\ pc # "transport" /\ pc' = "transport" => Calls(journal') = Calls(journal) + 1
  BY <1>0, <1>1, CallsGrow
<1>a. ASSUME UNCHANGED queue
      PROVE  PInv'
  BY <1>0, <1>1, <1>2, <1>a DEF queue, PInv, JobsOfCalls, LastJob, LastCompleted, Q!Answered
<1>b. ASSUME BeginCall, pc # "transport", pc' = "transport"
      PROVE  PInv'
  BY <1>0, <1>1, <1>2, <1>b, BeginStays DEF PInv
<1>3. CASE Dispatching
  BY <1>a, <1>b, <1>3
     DEF Dispatching, PrimaryKeyResolves, CandidateKeyResolves, BackoffElapses, Invoke
<1>4. CASE Settling \/ Elsewhere
  BY <1>a, <1>4 DEF Settling, Elsewhere
<1>5. CASE QueueRun
  BY <1>0, <1>1, <1>5, TransportStays DEF QueueRun, PInv
<1>6. CASE Serving
  BY <1>0, <1>1, <1>2, <1>6, ServiceStays DEF Serving, PInv
<1>7. CASE Clock
  BY <1>0, <1>1, <1>7
     DEF Clock, Q!Tick, vars, PInv, JobsOfCalls, LastJob, LastCompleted, Q!Answered
<1>8. CASE Environment
  <2>1. CASE UNCHANGED queue
    BY <1>a, <2>1
  <2>2. ASSUME NEW f \in Faults, Q!ExchangeFails(f), UNCHANGED vars
        PROVE  PInv'
    <3>1. f # "completed"
      BY CompositionAssumption
    <3> QED BY <1>0, <1>1, <2>2, <3>1
            DEF Q!ExchangeFails, Q!Answer, Q!Fetching, vars, PInv, JobsOfCalls, LastJob,
                LastCompleted, Q!Answered
  <2>3. ASSUME NEW i \in DOMAIN jobs, Q!WorkerSteps(i), UNCHANGED vars
        PROVE  PInv'
    <3>1. jobs' \in Seq(Q!Job) /\ Len(jobs') = Len(jobs) /\ (LastCompleted => LastCompleted')
      BY <1>0, <2>3, WorkerStays
    <3>2. UNCHANGED <<phase, wire, reply, result, journal>>
      BY <2>3 DEF Q!WorkerSteps, Q!call, vars
    <3> QED BY <1>0, <1>1, <3>1, <3>2 DEF PInv, JobsOfCalls, LastJob, Q!Answered
  <2> QED BY <1>8, <2>1, <2>2, <2>3 DEF Environment, Q!Network, Q!Workers
<1>9. CASE UNCHANGED all
  BY <1>a, <1>9 DEF all
<1> QED BY <1>3, <1>4, <1>5, <1>6, <1>7, <1>8, <1>9 DEF PNext, Provider

\* A response a turn replies with is that of the last job it submitted, and the
\* turn has submitted no more jobs than the dispatcher made calls.
THEOREM AnswersItsJob == PSpec => []AnswerIsTheJobs
<1>1. PInit => PInv
  <2> SUFFICES ASSUME PInit PROVE PInv
    OBVIOUS
  <2>1. Init /\ IInv /\ jobs = <<>>
    BY InitInv DEF PInit, Q!QueueInit
  <2>2. Calls(journal) \in Nat
    BY <2>1, CallsNat DEF IInv, TypeOK
  <2> QED BY <2>1, <2>2 DEF PInit, Q!QueueInit, PInv, JobsOfCalls, LastJob, Q!Answered
<1>2. PInv => AnswerIsTheJobs
  BY DEF PInv, JobsOfCalls, LastJob, LastCompleted, AnswerIsTheJobs
<1> QED BY <1>1, <1>2, PStepInv, PTL DEF PSpec
=============================================================================
