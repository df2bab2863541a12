-------------------------- MODULE DirectTransport --------------------------
(***************************************************************************)
(* The transports that call a worker directly, and the readiness probes    *)
(* that share their code: src/src/transport/load-balanced.ts and pod.ts.   *)
(* A pod without a static invokeUrl is looked up at the control plane      *)
(* first; from then on it is called as a load-balanced endpoint is.        *)
(*                                                                         *)
(* Every HTTP exchange runs under an abort scope: the caller's signal and  *)
(* a timer abort one controller, and the first of the two gives it its     *)
(* reason.  The classification of a failure depends on that reason, on     *)
(* the signal and on the await at which the failure is seen, so all three  *)
(* are state.  Nothing is assumed of the peers: they may never answer.     *)
(***************************************************************************)
EXTENDS Integers

\* The profiles that may be called.
Kinds == {"lb",          \* a load-balanced endpoint
          "podStatic",   \* a pod with an invokeUrl
          "podTcp"}      \* a pod to be looked up

VARIABLES
    kind,       \* kind of the profile called
    probe,      \* it is a health probe, not an inference call
    phase,      \* the await at which the call is suspended
    wire,       \* "sent": the peer has been asked; "answered": reply is here
    reply,      \* what arrived at this await
    scope,      \* "off", "open" (timer armed), or why the controller aborted
    result,     \* what the call returned, or "error"
    cause,      \* what the error says
    transient,  \* the error is marked retryable
    signal      \* signal.aborted

dcall == <<kind, probe, phase, wire, reply, scope, result, cause, transient>>
dvars == <<dcall, signal>>

Bodies == {"lookupBody", "errorBody", "jsonBody", "sseBody"}
Heads  == {"lookup", "request"}

\* What an answer can be at each await, as far as the code tells.
Replies(p) ==
    CASE p = "lookup"     -> {"ok", "5xx", "4xx", "drop"}
      [] p = "lookupBody" -> {"address", "unusable"}
      [] p = "request"    -> {"json", "sse", "204", "5xx", "4xx", "drop"}
      [] p = "errorBody"  -> {"5xx", "4xx"}
      [] OTHER            -> {"good", "shape", "drop"}

DirectInit ==
    /\ kind = "none" /\ probe = FALSE
    /\ phase = "idle" /\ wire = "none" /\ reply = "none" /\ scope = "off"
    /\ result = "none" /\ cause = "none" /\ transient = FALSE
    /\ signal \in BOOLEAN

-----------------------------------------------------------------------------
LeavesTimer(r) ==
    /\ phase' = "done" /\ result' = r /\ cause' = "none" /\ transient' = FALSE
    /\ wire' = "none" /\ reply' = "none"
    /\ UNCHANGED <<kind, probe, scope>>
\* The call ends; `finally` disposes the scope.
Return(r) ==
    /\ phase' = "done" /\ result' = r /\ cause' = "none" /\ transient' = FALSE
    /\ wire' = "none" /\ reply' = "none" /\ scope' = "off"
    /\ UNCHANGED <<kind, probe>>

\* A probe turns every failure into a state.
Throw(c, t) ==
    \/ probe /\ Return("unhealthy")
    \/ /\ ~probe
       /\ phase' = "done" /\ result' = "error" /\ cause' = c /\ transient' = t
       /\ wire' = "none" /\ reply' = "none" /\ scope' = "off"
       /\ UNCHANGED <<kind, probe>>

\* A fetch under a new scope.  An aborted signal aborts the scope at once and
\* nothing is sent.
SendUnderAbort(p) ==
    /\ phase' = p /\ reply' = "none"
    /\ scope' = "open" /\ wire' = "sent"
SendUntimed(p) ==
    /\ phase' = p /\ reply' = "none"
    /\ scope' = "off" /\ wire' = "sent"
Send(p) ==
    /\ phase' = p /\ reply' = "none"
    /\ \/ signal /\ scope' = "abort" /\ wire' = "none"
       \/ ~signal /\ scope' = "open" /\ wire' = "sent"

\* The rest of an answer, to be read under the scope s.
Read(p, r, s) ==
    /\ phase' = p /\ wire' = "sent" /\ reply' = r /\ scope' = s
    /\ UNCHANGED <<kind, probe, result, cause, transient>>

\* executeLoadBalancedTransport, executePodTransport and the two probes up to
\* their first fetch.  A key reference the transport cannot resolve is refused.
Begin(k) ==
    /\ phase \in {"idle", "done"}
    /\ kind' = k /\ probe' \in BOOLEAN
    /\ \/ /\ Send(IF k = "podTcp" THEN "lookup" ELSE "request")
          /\ result' = "none" /\ cause' = "none" /\ transient' = FALSE
       \/ /\ phase' = "done" /\ wire' = "none" /\ reply' = "none" /\ scope' = "off"
          /\ \/ probe' /\ k # "lb" /\ result' = "unhealthy" /\ cause' = "none"
             \/ ~(probe' /\ k # "lb") /\ result' = "error" /\ cause' = "config"
          /\ transient' = FALSE
    /\ UNCHANGED signal

At(p)     == phase = p /\ wire = "answered"
Aborted   == scope \in {"abort", "timeout"}
Broken    == wire = "answered" /\ reply = "drop"
Rejected  == phase \in Heads \cup Bodies /\ (Broken \/ Aborted)

\* abortAwareError: the caller's abort, then the timeout, then the failure.
TimeoutForgotten ==
    \/ signal /\ Throw("abort", FALSE)
    \/ ~signal /\ Throw("network", TRUE)
AbortAware ==
    \/ signal /\ Throw("abort", FALSE)
    \/ ~signal /\ Aborted /\ Throw("timeout", FALSE)
    \/ ~signal /\ ~Aborted /\ Throw("network", TRUE)

-----------------------------------------------------------------------------
(* The lookup of a pod's address.                                           *)

\* Only an AbortError counts as an abort; the timer gives the controller a
\* reason of another name.
LookupRejected ==
    /\ phase = "lookup" /\ Rejected
    /\ \/ scope = "abort" /\ Throw("abort", FALSE)
       \/ scope = "timeout" /\ Throw("lookupTimeout", TRUE)
       \/ Broken /\ Throw("network", TRUE)
    /\ UNCHANGED signal

\* The scope is disposed as soon as the head is in: the body is read without.
LookupAnswered ==
    /\ At("lookup")
    /\ \/ reply = "5xx" /\ Throw("5xx", TRUE)
       \/ reply = "4xx" /\ Throw("4xx", FALSE)
       \/ reply = "ok" /\ Read("lookupBody", "none", "off")
    /\ UNCHANGED signal

\* A pod that runs and has a port is called; its inference token may turn out
\* to be a reference the transport cannot resolve.
LookupRead ==
    /\ At("lookupBody")
    /\ \/ reply = "unusable" /\ Throw("unusable", FALSE)
       \/ /\ reply = "address"
          /\ \/ Throw("config", FALSE)
             \/ Send("request") /\ UNCHANGED <<kind, probe, result, cause, transient>>
    /\ UNCHANGED signal

-----------------------------------------------------------------------------
(* The call of the worker.                                                  *)

RequestRejected ==
    /\ phase = "request" /\ Rejected
    /\ AbortAware
    /\ UNCHANGED signal

\* A probe needs the status only.
Healthy(r) == IF r \in {"json", "sse"} THEN "healthy"
              ELSE IF r = "204" THEN "initializing" ELSE "unhealthy"

RequestAnswered ==
    /\ At("request") /\ reply # "drop"
    /\ \/ probe /\ Return(Healthy(reply))
       \/ ~probe /\ reply \in {"5xx", "4xx"} /\ Read("errorBody", reply, scope)
       \/ ~probe /\ reply = "sse" /\ Read("sseBody", "none", scope)
       \/ ~probe /\ reply \in {"json", "204"} /\ Read("jsonBody", "none", scope)
    /\ UNCHANGED signal

\* httpError: whether its body can be read or not, the status decides.
TransientStatus(status) == status = "5xx"
ErrorRead ==
    /\ phase = "errorBody" /\ (wire = "answered" \/ Aborted)
    /\ Throw(reply, TransientStatus(reply))
    /\ UNCHANGED signal

\* parseJsonResponse: whatever is not an AbortError is a shape error.
JsonRead ==
    /\ phase = "jsonBody"
    /\ \/ wire = "answered" /\ reply = "good" /\ Return("response")
       \/ wire = "answered" /\ reply \in {"shape", "drop"} /\ Throw("shape", FALSE)
       \/ scope = "abort" /\ AbortAware
       \/ scope = "timeout" /\ Throw("shape", FALSE)
    /\ UNCHANGED signal

\* parseSseResponse: the whole document is read before any frame is parsed.
SseRead ==
    /\ phase = "sseBody"
    /\ \/ wire = "answered" /\ reply = "good" /\ Return("response")
       \/ wire = "answered" /\ reply = "shape" /\ Throw("shape", FALSE)
       \/ Rejected /\ AbortAware
    /\ UNCHANGED signal

Direct == \/ LookupRejected \/ LookupAnswered \/ LookupRead
          \/ RequestRejected \/ RequestAnswered \/ ErrorRead \/ JsonRead \/ SseRead

-----------------------------------------------------------------------------
\* The peer answers, or the connection breaks, at the await the call is at.
PeerAnswers(r) ==
    /\ phase \in Heads \cup Bodies /\ wire = "sent"
    /\ r \in Replies(phase) /\ (phase = "errorBody" => r = reply)
    /\ wire' = "answered" /\ reply' = r
    /\ UNCHANGED <<kind, probe, phase, scope, result, cause, transient, signal>>

TimerFires ==
    /\ scope = "open"
    /\ scope' = "timeout"
    /\ UNCHANGED <<kind, probe, phase, wire, reply, result, cause, transient, signal>>

\* The listener of an open scope aborts its controller.
SignalAborts ==
    /\ ~signal
    /\ signal' = TRUE
    /\ scope' = (IF scope = "open" THEN "abort" ELSE scope)
    /\ UNCHANGED <<kind, probe, phase, wire, reply, result, cause, transient>>

Peer == \E p \in Heads \cup Bodies : \E r \in Replies(p) : PeerAnswers(r)

-----------------------------------------------------------------------------
\* Nothing outlives the call: its timer and listener are gone when it settles,
\* on every path out of it.
ScopeEndsWithCall == phase \in {"idle", "done"} => scope = "off"

\* "Deterministic failures and caller-side aborts/timeouts are never retryable":
\* a call that ends after its controller was aborted is not marked, unless the
\* worker had already answered it with an HTTP 5xx.  A lookup's head is the
\* exception the code makes: its catch goes by the error's name, which a
\* timeout does not have.
AbortsNeverRetry ==
    [][Aborted /\ phase \notin {"lookup", "done"} /\ reply # "5xx" /\ phase' = "done"
         => ~transient']_dvars
=============================================================================
