---------------------------- MODULE MCConfigStore ----------------------------
(* Two profile names, so that a write can touch one and keep the other; and  *)
(* a session that reads a layer written by hand and adds to it, whose entry  *)
(* has one value exchanged for another, or any two of its fields spoilt.     *)
EXTENDS ConfigStore, TLC

MCNames == {"default", "y"}
\* Sessions are alike, and no property tells one from another.
MCSymmetry == Permutations(Sessions)
MCGuided == {Built("queue", "url", "text", "planned", "absent"),
             Built("load-balanced", "text", "absent", "planned", "absent"),
             Built("pod", "absent", "absent", "planned", "text")}

\* An entry with as little as it may have, and one with all there is.
Bare == [Built("load-balanced", "url", "absent", "planned", "absent") EXCEPT
            !["request"] = "absent", !["request.polling"] = "absent",
            !["request.queueAdapter"] = "absent", !["policy"] = "absent",
            !["request.mode"] = "absent", !["request.timeoutMs"] = "absent",
            !["request.polling.intervalMs"] = "absent", !["request.polling.ttlMs"] = "absent",
            !["request.polling.focusAware"] = "absent", !["request.queueAdapter.kind"] = "absent",
            !["request.loadBalancedPath"] = "absent",
            !["policy.maxAttempts"] = "absent", !["policy.fallbackProfiles"] = "absent"]
Rich == [Built("queue", "url", "text", "planned", "absent") EXCEPT
            !["request.mode"] = "stream", !["request.timeoutMs"] = "fraction",
            !["request.polling.intervalMs"] = "fraction", !["request.polling.ttlMs"] = "int",
            !["request.polling.focusAware"] = "false", !["request.queueAdapter.kind"] = "module",
            !["request.queueAdapter.module"] = "text", !["request.queueAdapter.export"] = "text",
            !["request.loadBalancedPath"] = "text", !["request.toolAllowlist"] = "names",
            !["policy.maxAttempts"] = "int", !["policy.fallbackProfiles"] = "blanks"]
Pod == [Built("pod", "absent", "text", "int", "text") EXCEPT !["pod.inferenceApiKey"] = "text",
            !["pod.inferenceApiKey.ref"] = "absent"]

\* A field that is no object has no fields.
Close1(r) == [f \in Paths |->
    IF \E parent \in DOMAIN Fields : f \in Fields[parent] /\ r[parent] # "object"
    THEN "absent" ELSE r[f]]
Close(r) == Close1(Close1(Close1(r)))

MCHandWritten ==
    {Close([b EXCEPT ![f] = v]) : b \in {Bare, Rich, Pod}, f \in Paths, v \in Values}
    \cup {Close([b EXCEPT ![f] = "null", ![g] = "zero"]) : b \in {Rich, Pod}, f \in Paths, g \in Paths}

Malformed == [kind |-> "malformed", doc |-> Empty]
MCFiles == {NoFile, Malformed, Whole("default" :> Rich @@ "y" :> [Rich EXCEPT !["model.name"] = "int"])}
MCNoEntries == {}
=============================================================================
