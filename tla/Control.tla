------------------------------- MODULE Control -------------------------------
(***************************************************************************)
(* The control plane: executeControl in src/src/control.ts with the two    *)
(* parties that reach it, the `/runpod` commands of commands.ts (a user at *)
(* a dialog) and the tools of operations.ts (a model), through the         *)
(* dispatcher createControlWrapper of index.ts.  Several sessions, each    *)
(* with its user and its model, act at the same time on what the platform  *)
(* runs: the jobs of a queue endpoint and a pod.                           *)
(*                                                                         *)
(* The platform is modelled from the routes the code calls; it may refuse  *)
(* a request, and a connection may break before or after it has been       *)
(* carried out.                                                            *)
(***************************************************************************)
EXTENDS Naturals, FiniteSets

CONSTANTS
    Users,      \* who types commands, one for each session
    Models,     \* who calls tools, several at a time in a session
    Families,   \* endpointType of the profiles; a name may also be of none of them
    PodIds      \* whether executeControl is given the pod's id: see Dispatch

ASSUME ControlAssumption ==
    /\ Users \cap Models = {}
    /\ Families \subseteq {"queue", "load-balanced", "pod"}
    /\ PodIds \subseteq BOOLEAN

Callers  == Users \cup Models
Names    == Families \cup {"gone"}     \* what a profile's name may stand for
QueueOps == {"health", "status", "cancel", "retry", "purge"}
PodOps   == {"pod-status", "pod-start", "pod-stop", "pod-restart"}
PlaneOps == {"workers", "catalog", "billing"}
Ops      == QueueOps \cup PodOps \cup PlaneOps \cup {"ping"}

\* What a command may ask for, what it asks the user first, and what a tool may.
Mutations  == {"cancel", "retry", "purge", "pod-start", "pod-stop", "pod-restart"}
CommandOps == Mutations \cup {"pod-status"} \cup PlaneOps
AnyTool    == Ops
ToolOps    == {"health", "ping", "status", "pod-status"}

VARIABLES
    hasUI,      \* per user: the session can show a dialog
    call,       \* per caller: the operation in progress
    jobs,       \* of the queue endpoint: "queued", "running" or "ended"
    pod         \* "RUNNING" or "EXITED"

kvars == <<hasUI, call, jobs, pod>>

NoCall == [step |-> "idle", op |-> "none", family |-> "none", podId |-> FALSE, yes |-> FALSE,
           keyed |-> FALSE, sent |-> FALSE, status |-> "none", outcome |-> "none"]

ControlInit ==
    /\ hasUI \in [Users -> BOOLEAN]
    /\ call = [c \in Callers |-> NoCall]
    /\ jobs \in {"queued", "running", "ended"}
    /\ pod \in {"RUNNING", "EXITED"}

At(c, step) == call[c].step = step
End(c, outcome) == call' = [call EXCEPT ![c].step = "done", ![c].outcome = outcome]

-----------------------------------------------------------------------------
\* The family each command demands of its profile before anything else.
Fits(op, family) ==
    /\ op \in {"cancel", "retry", "purge"} => family = "queue"
    /\ op \in PodOps => family = "pod"
    /\ op \in {"workers", "catalog"} => family # "pod"     \* report asks pod-status instead

\* runQueueMutation, runPodCommand and runCostCommand up to the control plane.
RunCommand(u, op, family) ==
    /\ call[u].step \in {"idle", "done"}
    /\ Fits(op, family)
    /\ call' = [call EXCEPT ![u] = [NoCall EXCEPT !.op = op, !.family = family,
                    !.step = IF op \in Mutations THEN "confirm" ELSE "control"]]
    /\ UNCHANGED <<hasUI, jobs, pod>>

\* confirm: without a dialog there is nobody to say yes.
CanAsk(u) == hasUI[u]
Confirmed(u) ==
    /\ At(u, "confirm") /\ CanAsk(u)
    /\ call' = [call EXCEPT ![u].step = "control", ![u].yes = TRUE]
    /\ UNCHANGED <<hasUI, jobs, pod>>

\* While the dialog waits, nothing in the code keeps the session from reloading
\* its profiles; which one the name stands for is looked up again afterwards.
Reconfigured(u, family) ==
    /\ At(u, "confirm")
    /\ call' = [call EXCEPT ![u].family = family]
    /\ UNCHANGED <<hasUI, jobs, pod>>

NotConfirmed(u) ==
    /\ At(u, "confirm")
    /\ call' = [call EXCEPT ![u] = NoCall]
    /\ UNCHANGED <<hasUI, jobs, pod>>

\* makeTool and makePodTool: the model names any profile it likes.
RunTool(m, op, family) ==
    /\ call[m].step \in {"idle", "done"}
    /\ op \in ToolOps
    /\ call' = [call EXCEPT ![m] = [NoCall EXCEPT !.op = op, !.family = family, !.step = "control"]]
    /\ UNCHANGED <<hasUI, jobs, pod>>

\* executeControl: which family may serve an operation at all.
EveryFamily(op, family, podId) == TRUE
Capable(op, family, podId) ==
    \/ op = "ping" /\ family = "load-balanced"
    \/ op \in PodOps /\ family = "pod" /\ podId
    \/ op \in PlaneOps
    \/ op \in QueueOps /\ family = "queue"

\* createControlWrapper, when no profile has the name.
NoProfile(c) ==
    /\ At(c, "control") /\ call[c].family = "gone"
    /\ End(c, "unknown")
    /\ UNCHANGED <<hasUI, jobs, pod>>

\* executeControl up to its request.  createControlWrapper never tells the
\* pod's id; other callers of executeControl may.
Dispatch(c) ==
    /\ At(c, "control") /\ call[c].family # "gone"
    /\ \E podId \in PodIds :
          \/ /\ ~Capable(call[c].op, call[c].family, podId)
             /\ End(c, "unsupported")
             \* no job id, no endpoint id in invokeUrl, or a pod without its id
          \/ /\ Capable(call[c].op, call[c].family, podId)
             /\ call[c].op \in {"status"} \cup PlaneOps
             /\ End(c, "failure")
             \* ping needs no key; a key may not resolve
          \/ /\ Capable(call[c].op, call[c].family, podId) /\ call[c].op # "ping"
             /\ call' = [call EXCEPT ![c].step = "done", ![c].outcome = "failure", ![c].keyed = TRUE]
          \/ /\ Capable(call[c].op, call[c].family, podId)
             /\ call[c].op \in PlaneOps /\ call[c].family = "pod" => podId
             /\ call' = [call EXCEPT ![c].step = "fetch", ![c].sent = TRUE, ![c].podId = podId,
                                     ![c].keyed = call[c].op # "ping"]
    /\ UNCHANGED <<hasUI, jobs, pod>>

\* What carrying out a request does to the platform.
Effect(op) ==
    /\ jobs' \in (CASE op \in {"cancel", "purge"} -> {"ended"}
                    [] op = "retry"               -> {"queued"}
                    [] OTHER                      -> {jobs})
    /\ pod' = (CASE op \in {"pod-start", "pod-restart"} -> "RUNNING"
                 [] op = "pod-stop"                     -> "EXITED"
                 [] OTHER                               -> pod)

\* The platform accepts a request, or refuses it, or the connection breaks.
Accepted(c) ==
    /\ At(c, "fetch") /\ call[c].status = "none"
    /\ Effect(call[c].op)
    /\ \E status \in {"2xx", "drop"} : call' = [call EXCEPT ![c].status = status]
    /\ UNCHANGED hasUI

Refused(c) ==
    /\ At(c, "fetch") /\ call[c].status = "none"
    /\ \E status \in {"403", "4xx", "5xx", "drop"} : call' = [call EXCEPT ![c].status = status]
    /\ UNCHANGED <<hasUI, jobs, pod>>

\* runPodOperation and runControlPlaneOperation look at the status; runPing
\* and runQueueOperation only at whether there was an answer: a cancel that
\* the platform refused is reported as done.
Succeeds(op, status) ==
    \/ status = "2xx"
    \/ op \in QueueOps \cup {"ping"} /\ status # "drop"

Receive(c) ==
    /\ At(c, "fetch") /\ call[c].status # "none"
    /\ End(c, IF Succeeds(call[c].op, call[c].status) THEN "ok" ELSE "failure")
    /\ UNCHANGED <<hasUI, jobs, pod>>

\* The platform on its own: a worker takes a job or ends it, a pod exits.
Platform ==
    /\ \/ jobs = "queued" /\ jobs' \in {"running", "ended"} /\ UNCHANGED pod
       \/ jobs = "running" /\ jobs' = "ended" /\ UNCHANGED pod
       \/ pod = "RUNNING" /\ pod' = "EXITED" /\ UNCHANGED jobs
    /\ UNCHANGED <<hasUI, call>>

Requests == \E c \in Callers : Accepted(c) \/ Refused(c)

ControlNext ==
    \/ \E u \in Users : \/ \E op \in CommandOps, family \in Families : RunCommand(u, op, family)
                       \/ Confirmed(u) \/ NotConfirmed(u)
                       \/ \E family \in Names : Reconfigured(u, family)
    \/ \E m \in Models, op \in ToolOps, family \in Names : RunTool(m, op, family)
    \/ \E c \in Callers : NoProfile(c) \/ Dispatch(c) \/ Receive(c)
    \/ Requests
    \/ Platform

ControlSpec == ControlInit /\ [][ControlNext]_kvars

-----------------------------------------------------------------------------
\* "A model can inspect a queue, but cannot cancel, retry, or purge it";
\* "headless sessions fail closed": whatever a request changes on the platform,
\* its user has confirmed it in a dialog, and it is what the user was asked about.
OnlyConfirmedChanges ==
    [][<<jobs', pod'>> # <<jobs, pod>> /\ call' # call =>
          \E u \in Users : /\ call'[u] # call[u] /\ hasUI[u] /\ call[u].yes
                          /\ call[u].op \in Mutations]_kvars

\* "Capability is enforced before any key resolution or network" and "An
\* unknown profile name yields a safe unsupported outcome with zero network or
\* key work": an operation turned down has touched neither, and no request ever
\* reaches an endpoint of another family, not even when the profile a command
\* was checked against became another one while its dialog waited.
CapabilityFirst ==
    \A c \in Callers :
        /\ call[c].outcome \in {"unsupported", "unknown"} => ~call[c].sent /\ ~call[c].keyed
        /\ call[c].sent => call[c].family # "gone"
        /\ call[c].sent /\ call[c].op \in QueueOps => call[c].family = "queue"
        /\ call[c].sent /\ call[c].op = "ping" => call[c].family = "load-balanced"
        /\ call[c].sent /\ call[c].family = "pod" => call[c].podId

\* "Start the pod after interactive confirmation": what the user confirmed for
\* a pod profile is not turned down as something pod profiles cannot do.
PodCommandsServed ==
    \A c \in Callers : call[c].yes /\ call[c].op \in PodOps /\ call[c].family = "pod" =>
        call[c].outcome # "unsupported"
=============================================================================
