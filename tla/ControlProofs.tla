--------------------------- MODULE ControlProofs ---------------------------
(* The control plane for any number of users and models that act at the same *)
(* time: which endpoint a request may reach, which outcome is reported, and  *)
(* who may change what the platform runs.                                    *)
EXTENDS Control, TLAPS

Call == [step : {"idle", "confirm", "control", "fetch", "done"}, op : Ops \cup {"none"},
         family : Names \cup {"none"}, podId : BOOLEAN, yes : BOOLEAN, keyed : BOOLEAN,
         sent : BOOLEAN, status : {"none", "2xx", "403", "4xx", "5xx", "drop"},
         outcome : {"none", "ok", "failure", "unsupported", "unknown"}]

\* Every variable has its type.
ControlTypeOK ==
    /\ hasUI \in [Users -> BOOLEAN]
    /\ call \in [Callers -> Call]
    /\ jobs \in {"queued", "running", "ended"}
    /\ pod \in {"RUNNING", "EXITED"}

\* How far an operation is, and what it has touched: nothing before the
\* capability has been decided, and a request only what it is capable of.
Stage(k) ==
    /\ k.step \in {"idle", "confirm", "control"} =>
          ~k.sent /\ ~k.keyed /\ k.outcome = "none" /\ k.status = "none"
    /\ k.step = "fetch" => k.sent /\ k.outcome = "none"
    /\ k.step # "idle" => k.op \in Ops
    /\ k.sent => Capable(k.op, k.family, k.podId)
    /\ k.sent /\ k.op \in PlaneOps /\ k.family = "pod" => k.podId
    /\ k.sent => k.family # "gone"
    /\ k.outcome \in {"unsupported", "unknown"} => ~k.sent /\ ~k.keyed

\* A command has been asked about before it changes anything; a tool changes
\* nothing.
Entitled(c, k) ==
    /\ k.step # "idle" => IF c \in Users THEN k.op \in CommandOps ELSE k.op \in ToolOps
    /\ k.yes => c \in Users /\ hasUI[c]
    /\ k.op \in Mutations /\ k.step \in {"control", "fetch", "done"} => k.yes

KInv == /\ ControlTypeOK
        /\ \A c \in Callers : Stage(call[c]) /\ Entitled(c, call[c])

-----------------------------------------------------------------------------
\* Replacing one operation by a sound one keeps the invariant.
LEMMA CallStep ==
  ASSUME KInv, NEW c \in Callers, NEW k \in Call, call' = [call EXCEPT ![c] = k],
         Stage(k), Entitled(c, k), UNCHANGED hasUI,
         jobs' \in {"queued", "running", "ended"}, pod' \in {"RUNNING", "EXITED"}
  PROVE  KInv'
<1>1. call' \in [Callers -> Call]
  BY DEF KInv, ControlTypeOK
<1>2. \A d \in Callers : call'[d] = IF d = c THEN k ELSE call[d]
  BY DEF KInv, ControlTypeOK
<1>3. ControlTypeOK'
  BY <1>1 DEF KInv, ControlTypeOK
<1>4. \A d \in Callers : Stage(call'[d]) /\ Entitled(d, call'[d])
  BY <1>2 DEF KInv
<1>5. (\A d \in Callers : Stage(call[d]) /\ Entitled(d, call[d]))'
  BY <1>4 DEF Stage, Entitled
<1> QED BY <1>3, <1>5 DEF KInv

\* What is read of an operation has its type.
LEMMA Lookup ==
  ASSUME KInv, NEW c \in Callers
  PROVE  call[c] \in Call /\ Stage(call[c]) /\ Entitled(c, call[c])
BY DEF KInv, ControlTypeOK

LEMMA InitStep == ControlInit => KInv
<1> SUFFICES ASSUME ControlInit PROVE KInv
  OBVIOUS
<1>1. ControlTypeOK
  BY DEF ControlInit, ControlTypeOK, NoCall, Call
<1>2. \A c \in Callers : call[c] = NoCall
  BY DEF ControlInit
<1>3. \A c \in Callers : Stage(NoCall) /\ Entitled(c, NoCall)
  BY DEF Stage, Entitled, NoCall, Mutations
<1> QED BY <1>1, <1>2, <1>3 DEF KInv

LEMMA CommandStep ==
  ASSUME KInv, NEW u \in Users, NEW op \in CommandOps, NEW family \in Families,
         RunCommand(u, op, family)
  PROVE  KInv'
<1> DEFINE k == [NoCall EXCEPT !.op = op, !.family = family,
                    !.step = IF op \in Mutations THEN "confirm" ELSE "control"]
<1>1. u \in Callers /\ op \in Ops /\ family \in Names
  BY DEF Callers, CommandOps, Mutations, Ops, QueueOps, PodOps, PlaneOps, Names
<1>2. k \in Call
  BY <1>1 DEF NoCall, Call
<1>3. Stage(k)
  BY <1>1 DEF Stage, NoCall
<1>4. Entitled(u, k)
  BY DEF Entitled, NoCall, RunCommand
<1>5. call' = [call EXCEPT ![u] = k] /\ UNCHANGED <<hasUI, jobs, pod>>
  BY DEF RunCommand
<1> HIDE DEF k
<1> QED BY <1>1, <1>2, <1>3, <1>4, <1>5, CallStep DEF KInv, ControlTypeOK

LEMMA ConfirmStep ==
  ASSUME KInv, NEW u \in Users,
         Confirmed(u) \/ NotConfirmed(u) \/ (\E family \in Names : Reconfigured(u, family))
  PROVE  KInv'
<1>1. u \in Callers
  BY DEF Callers
<1>2. call[u] \in Call /\ Stage(call[u]) /\ Entitled(u, call[u])
  BY <1>1, Lookup
<1>3. CASE Confirmed(u)
  <2> DEFINE k == [call[u] EXCEPT !.step = "control", !.yes = TRUE]
  <2>1. k \in Call
    BY <1>2 DEF Call
  <2>2. Stage(k)
    BY <1>2, <1>3 DEF Stage, Confirmed, At, Call
  <2>3. Entitled(u, k)
    BY <1>2, <1>3 DEF Entitled, Confirmed, At, CanAsk, Call
  <2>4. call' = [call EXCEPT ![u] = k] /\ UNCHANGED <<hasUI, jobs, pod>>
    BY <1>1, <1>3 DEF Confirmed, KInv, ControlTypeOK
  <2> HIDE DEF k
  <2> QED BY <1>1, <2>1, <2>2, <2>3, <2>4, CallStep DEF KInv, ControlTypeOK
<1>4. CASE NotConfirmed(u)
  <2>1. NoCall \in Call /\ Stage(NoCall) /\ Entitled(u, NoCall)
    BY DEF NoCall, Call, Stage, Entitled, Mutations
  <2> QED BY <1>1, <1>4, <2>1, CallStep DEF NotConfirmed, KInv, ControlTypeOK
<1>5. ASSUME NEW family \in Names, Reconfigured(u, family) PROVE KInv'
  <2> DEFINE k == [call[u] EXCEPT !.family = family]
  <2>1. k \in Call
    BY <1>2 DEF Call
  <2>2. Stage(k)
    BY <1>2, <1>5 DEF Stage, Reconfigured, At, Call
  <2>3. Entitled(u, k)
    BY <1>2, <1>5 DEF Entitled, Reconfigured, At, Call
  <2>4. call' = [call EXCEPT ![u] = k] /\ UNCHANGED <<hasUI, jobs, pod>>
    BY <1>1, <1>5 DEF Reconfigured, KInv, ControlTypeOK
  <2> HIDE DEF k
  <2> QED BY <1>1, <2>1, <2>2, <2>3, <2>4, CallStep DEF KInv, ControlTypeOK
<1> QED BY <1>3, <1>4, <1>5

LEMMA ToolStep ==
  ASSUME KInv, NEW m \in Models, NEW op \in ToolOps, NEW family \in Names,
         RunTool(m, op, family)
  PROVE  KInv'
<1> DEFINE k == [NoCall EXCEPT !.op = op, !.family = family, !.step = "control"]
<1>1. m \in Callers /\ m \notin Users /\ op \in Ops /\ op \notin Mutations
  BY ControlAssumption DEF Callers, ToolOps, Mutations, Ops, QueueOps, PodOps, PlaneOps
<1>2. k \in Call
  BY <1>1 DEF NoCall, Call
<1>3. Stage(k)
  BY <1>1 DEF Stage, NoCall
<1>4. Entitled(m, k)
  BY <1>1 DEF Entitled, NoCall
<1>5. call' = [call EXCEPT ![m] = k] /\ UNCHANGED <<hasUI, jobs, pod>>
  BY DEF RunTool
<1> HIDE DEF k
<1> QED BY <1>1, <1>2, <1>3, <1>4, <1>5, CallStep DEF KInv, ControlTypeOK

LEMMA NoProfileStep ==
  ASSUME KInv, NEW c \in Callers, NoProfile(c)
  PROVE  KInv'
<1>1. call[c] \in Call /\ Stage(call[c]) /\ Entitled(c, call[c]) /\ call[c].step = "control"
  BY Lookup DEF NoProfile, At
<1> DEFINE k == [call[c] EXCEPT !.step = "done", !.outcome = "unknown"]
<1>2. k \in Call /\ call' = [call EXCEPT ![c] = k]
  BY <1>1 DEF NoProfile, End, Call, KInv, ControlTypeOK
<1>3. Stage(k)
  BY <1>1 DEF Stage, Call
<1>4. Entitled(c, k)
  BY <1>1 DEF Entitled, Call
<1> HIDE DEF k
<1> QED BY <1>2, <1>3, <1>4, CallStep DEF NoProfile, KInv, ControlTypeOK

LEMMA DispatchStep ==
  ASSUME KInv, NEW c \in Callers, Dispatch(c)
  PROVE  KInv'
<1>1. call[c] \in Call /\ Stage(call[c]) /\ Entitled(c, call[c]) /\ call[c].step = "control"
      /\ call[c].family # "gone"
  BY Lookup DEF Dispatch, At
<1>2. PICK podId \in PodIds : \E k \in Call :
          /\ call' = [call EXCEPT ![c] = k] /\ Stage(k)
          /\ k.step \in {"fetch", "done"} /\ k.op = call[c].op /\ k.family = call[c].family
          /\ k.yes = call[c].yes
  <2>1. PICK podId \in PodIds :
          \/ /\ ~Capable(call[c].op, call[c].family, podId)
             /\ End(c, "unsupported")
          \/ End(c, "failure")
          \/ call' = [call EXCEPT ![c].step = "done", ![c].outcome = "failure", ![c].keyed = TRUE]
          \/ /\ Capable(call[c].op, call[c].family, podId)
             /\ call[c].op \in PlaneOps /\ call[c].family = "pod" => podId
             /\ call' = [call EXCEPT ![c].step = "fetch", ![c].sent = TRUE, ![c].podId = podId,
                                     ![c].keyed = call[c].op # "ping"]
    BY DEF Dispatch
  <2>2. podId \in BOOLEAN
    BY ControlAssumption
  <2>3. ASSUME NEW outcome \in {"unsupported", "failure"}, End(c, outcome)
        PROVE  \E k \in Call :
          /\ call' = [call EXCEPT ![c] = k] /\ Stage(k)
          /\ k.step \in {"fetch", "done"} /\ k.op = call[c].op /\ k.family = call[c].family
          /\ k.yes = call[c].yes
    <3> DEFINE k == [call[c] EXCEPT !.step = "done", !.outcome = outcome]
    <3>1. k \in Call /\ call' = [call EXCEPT ![c] = k]
      BY <1>1, <2>3 DEF Call, End, KInv, ControlTypeOK
    <3>2. Stage(k)
      BY <1>1, <2>3 DEF Stage, Call
    <3>3. /\ k.step \in {"fetch", "done"} /\ k.op = call[c].op /\ k.family = call[c].family
          /\ k.yes = call[c].yes
      BY <1>1 DEF Call
    <3> HIDE DEF k
    <3> QED BY <3>1, <3>2, <3>3
  <2>4. CASE call' = [call EXCEPT ![c].step = "done", ![c].outcome = "failure", ![c].keyed = TRUE]
    <3> DEFINE k == [call[c] EXCEPT !.step = "done", !.outcome = "failure", !.keyed = TRUE]
    <3>1. k \in Call /\ call' = [call EXCEPT ![c] = k]
      BY <1>1, <2>4 DEF Call, KInv, ControlTypeOK
    <3>2. Stage(k)
      BY <1>1 DEF Stage, Call
    <3>3. /\ k.step \in {"fetch", "done"} /\ k.op = call[c].op /\ k.family = call[c].family
          /\ k.yes = call[c].yes
      BY <1>1 DEF Call
    <3> HIDE DEF k
    <3> QED BY <3>1, <3>2, <3>3
  <2>5. CASE /\ Capable(call[c].op, call[c].family, podId)
             /\ call[c].op \in PlaneOps /\ call[c].family = "pod" => podId
             /\ call' = [call EXCEPT ![c].step = "fetch", ![c].sent = TRUE, ![c].podId = podId,
                                     ![c].keyed = call[c].op # "ping"]
    <3> DEFINE k == [call[c] EXCEPT !.step = "fetch", !.sent = TRUE, !.podId = podId,
                                    !.keyed = call[c].op # "ping"]
    <3>1. k \in Call /\ call' = [call EXCEPT ![c] = k]
      BY <1>1, <2>2, <2>5 DEF Call, KInv, ControlTypeOK
    <3>2. /\ k.step = "fetch" /\ k.op = call[c].op /\ k.family = call[c].family
          /\ k.yes = call[c].yes /\ k.sent /\ k.podId = podId /\ k.outcome = call[c].outcome
      BY <1>1 DEF Call
    <3>3. Stage(k)
      BY <1>1, <2>5, <3>2 DEF Stage
    <3> HIDE DEF k
    <3> QED BY <3>1, <3>2, <3>3
  <2> QED BY <2>1, <2>3, <2>4, <2>5
<1>3. PICK k \in Call :
          /\ call' = [call EXCEPT ![c] = k] /\ Stage(k)
          /\ k.step \in {"fetch", "done"} /\ k.op = call[c].op /\ k.family = call[c].family
          /\ k.yes = call[c].yes
  BY <1>2
<1>4. Entitled(c, k)
  BY <1>1, <1>3 DEF Entitled
<1> QED BY <1>3, <1>4, CallStep DEF KInv, ControlTypeOK, Dispatch

\* The platform's answer, and what carrying out the request has done.
LEMMA AnswerStep ==
  ASSUME KInv, NEW c \in Callers, Accepted(c) \/ Refused(c)
  PROVE  KInv'
<1>1. call[c] \in Call /\ Stage(call[c]) /\ Entitled(c, call[c]) /\ call[c].step = "fetch"
  BY Lookup DEF Accepted, Refused, At
<1>2. PICK status \in {"2xx", "403", "4xx", "5xx", "drop"} :
         call' = [call EXCEPT ![c].status = status]
  BY DEF Accepted, Refused
<1> DEFINE k == [call[c] EXCEPT !.status = status]
<1>3. k \in Call /\ call' = [call EXCEPT ![c] = k]
  BY <1>1, <1>2 DEF Call, KInv, ControlTypeOK
<1>4. Stage(k)
  BY <1>1 DEF Stage, Call
<1>5. Entitled(c, k)
  BY <1>1 DEF Entitled, Call
<1>6. jobs' \in {"queued", "running", "ended"} /\ pod' \in {"RUNNING", "EXITED"}
  BY DEF Accepted, Refused, Effect, KInv, ControlTypeOK
<1>7. UNCHANGED hasUI
  BY DEF Accepted, Refused
<1> HIDE DEF k
<1> QED BY <1>3, <1>4, <1>5, <1>6, <1>7, CallStep

LEMMA ReceiveStep ==
  ASSUME KInv, NEW c \in Callers, Receive(c)
  PROVE  KInv'
<1>1. call[c] \in Call /\ Stage(call[c]) /\ Entitled(c, call[c]) /\ call[c].step = "fetch"
  BY Lookup DEF Receive, At
<1> DEFINE outcome == IF Succeeds(call[c].op, call[c].status) THEN "ok" ELSE "failure"
           k == [call[c] EXCEPT !.step = "done", !.outcome = outcome]
<1>2. k \in Call /\ call' = [call EXCEPT ![c] = k]
  BY <1>1 DEF Receive, End, Call, KInv, ControlTypeOK
<1>3. /\ k.step = "done" /\ k.outcome = outcome /\ k.op = call[c].op /\ k.family = call[c].family
      /\ k.podId = call[c].podId /\ k.sent = call[c].sent /\ k.status = call[c].status
      /\ k.yes = call[c].yes
  BY <1>1 DEF Call
<1>4. Stage(k)
  BY <1>1, <1>3 DEF Stage
<1>5. Entitled(c, k)
  BY <1>1, <1>3 DEF Entitled
<1> HIDE DEF k
<1> QED BY <1>2, <1>4, <1>5, CallStep DEF Receive, KInv, ControlTypeOK

LEMMA QuietStep ==
  ASSUME KInv, Platform \/ UNCHANGED kvars
  PROVE  KInv'
<1>1. ControlTypeOK'
  BY DEF KInv, ControlTypeOK, Platform, kvars
<1>2. UNCHANGED <<hasUI, call>>
  BY DEF Platform, kvars
<1> QED BY <1>1, <1>2 DEF KInv, Stage, Entitled

LEMMA NextStep == KInv /\ [ControlNext]_kvars => KInv'
<1> SUFFICES ASSUME KInv, [ControlNext]_kvars PROVE KInv'
  OBVIOUS
<1> QED BY CommandStep, ConfirmStep, ToolStep, NoProfileStep, DispatchStep, AnswerStep, ReceiveStep, QuietStep
        DEF ControlNext, Requests

\* In every reachable state an operation has touched only what its stage and
\* its caller allow.
THEOREM ControlInvariance == ControlSpec => []KInv
BY InitStep, NextStep, PTL DEF ControlSpec

\* Types hold for any number of callers.
THEOREM ControlTypeCorrect == ControlSpec => []ControlTypeOK
<1>1. KInv => ControlTypeOK
  BY DEF KInv
<1> QED BY <1>1, ControlInvariance, PTL

-----------------------------------------------------------------------------
\* "Capability is enforced before any key resolution or network", whoever
\* asks and however many ask at once.
THEOREM CapabilityEnforced == ControlSpec => []CapabilityFirst
<1>1. KInv => CapabilityFirst
  <2> SUFFICES ASSUME KInv, NEW c \in Callers
               PROVE  /\ call[c].outcome \in {"unsupported", "unknown"} => ~call[c].sent /\ ~call[c].keyed
                      /\ call[c].sent => call[c].family # "gone"
                      /\ call[c].sent /\ call[c].op \in QueueOps => call[c].family = "queue"
                      /\ call[c].sent /\ call[c].op = "ping" => call[c].family = "load-balanced"
                      /\ call[c].sent /\ call[c].family = "pod" => call[c].podId
    BY DEF CapabilityFirst
  <2>1. Stage(call[c])
    BY Lookup
  <2> QED BY <2>1 DEF Stage, Capable, QueueOps, PodOps, PlaneOps
<1> QED BY <1>1, ControlInvariance, PTL

\* Of the operations only mutations change anything.
LEMMA InspectionsChangeNothing ==
  ASSUME NEW op \in Ops \ Mutations, Effect(op)
  PROVE  UNCHANGED <<jobs, pod>>
BY DEF Effect, Mutations, Ops, QueueOps, PodOps, PlaneOps

\* Whatever changes on the platform by a request, some user confirmed it: no
\* model, and no other session's dialog, can stand in for that.
THEOREM ChangesAreConfirmed == ControlSpec => OnlyConfirmedChanges
<1>1. KInv /\ [ControlNext]_kvars =>
         [<<jobs', pod'>> # <<jobs, pod>> /\ call' # call =>
             \E u \in Users : /\ call'[u] # call[u] /\ hasUI[u] /\ call[u].yes
                             /\ call[u].op \in Mutations]_kvars
  <2> SUFFICES ASSUME KInv, ControlNext, <<jobs', pod'>> # <<jobs, pod>>, call' # call
               PROVE  \E u \in Users : /\ call'[u] # call[u] /\ hasUI[u] /\ call[u].yes
                                       /\ call[u].op \in Mutations
    OBVIOUS
  <2>1. PICK c \in Callers : Accepted(c)
    BY DEF ControlNext, RunCommand, Confirmed, NotConfirmed, Reconfigured, RunTool, NoProfile, Dispatch, Receive, Requests,
           Refused, Platform
  <2>2. call[c] \in Call /\ Stage(call[c]) /\ Entitled(c, call[c])
    BY Lookup
  <2>3. call[c].step = "fetch" /\ call[c].status = "none" /\ call[c].op \in Ops
    BY <2>1, <2>2 DEF Accepted, At, Stage
  <2>4. call[c].op \in Mutations
    BY <2>1, <2>3, InspectionsChangeNothing DEF Accepted
  <2>5. c \in Users /\ hasUI[c] /\ call[c].yes
    BY <2>2, <2>3, <2>4 DEF Entitled
  <2>6. PICK status \in {"2xx", "drop"} : call' = [call EXCEPT ![c].status = status]
    BY <2>1 DEF Accepted
  <2>7. call'[c].status = status
    BY <2>2, <2>6 DEF KInv, ControlTypeOK, Call
  <2>8. call'[c] # call[c]
    BY <2>3, <2>7
  <2> QED BY <2>4, <2>5, <2>8
<1> QED BY <1>1, ControlInvariance, PTL DEF ControlSpec, OnlyConfirmedChanges
=============================================================================
