---------------------------- MODULE ProfileSchema ----------------------------
(***************************************************************************)
(* What a profile of a configuration layer has to look like, and what is   *)
(* read from it: parseProfile of src/src/profile-schema.ts, and what       *)
(* serializeProfile of src/src/config.ts writes of it again.               *)
(*                                                                         *)
(* A profile is a function from the paths of its fields to the kinds of    *)
(* value found there.  The same form serves for what a user wrote, for the *)
(* profile the program keeps and for what it writes: "absent" is a field   *)
(* that is not there, and "planned" the number a field has by default.     *)
(***************************************************************************)
EXTENDS Naturals, Sequences

EndpointTypes == {"queue", "load-balanced", "pod"}
RequestModes  == {"sync", "async", "stream"}
BuiltIn       == {"openai-shaped", "messages-text"}
AdapterKinds  == BuiltIn \cup {"module"}

\* Kinds of value.  A non-empty string may be one the code knows, a URL it can
\* call, a URL of another protocol, or any other text.
Strings  == EndpointTypes \cup RequestModes \cup AdapterKinds
            \cup {"adapter", "completions", "url", "otherUrl", "text"}
Booleans == {"true", "false"}
Integers == {"int", "planned"}                  \* above zero
Positive == Integers \cup {"fraction"}
Named    == {"none", "modes", "names"}          \* arrays of non-empty strings
Values   == Strings \cup Booleans \cup Positive \cup Named
            \cup {"absent", "null", "empty", "zero", "infinite", "blanks", "mixed", "object"}

ModelText   == {"model.id", "model.name"}
ModelCounts == {"model.contextWindow", "model.maxTokens"}
ModelFlags  == {"model.reasoning", "model.supportsTools", "model.supportsVision"}
ModelFields == ModelText \cup ModelCounts \cup ModelFlags \cup {"model.input"}
PollingFields == {"request.polling.intervalMs", "request.polling.ttlMs", "request.polling.focusAware"}
AdapterFields == {"request.queueAdapter.kind", "request.queueAdapter.module",
                  "request.queueAdapter.export"}
RequestFields == {"request.mode", "request.timeoutMs", "request.polling", "request.queueAdapter",
                  "request.loadBalancedPath", "request.toolAllowlist"}
PolicyFields  == {"policy.maxAttempts", "policy.fallbackProfiles"}
PodFields     == {"pod.id", "pod.port", "pod.inferenceApiKey"}
PodPaths      == {"pod", "pod.inferenceApiKey.ref"} \cup PodFields
EntryFields   == {"endpointType", "invokeUrl", "apiKey", "model", "request", "policy", "pod"}

Paths == {"entry", "apiKey.ref"} \cup EntryFields \cup ModelFields \cup RequestFields
         \cup PollingFields \cup AdapterFields \cup PolicyFields \cup PodPaths

\* The fields an object may have.
Fields == [parent \in {"entry", "apiKey", "model", "request", "request.polling",
                       "request.queueAdapter", "policy", "pod", "pod.inferenceApiKey"} |->
    CASE parent = "entry"  -> EntryFields
      [] parent = "apiKey" -> {"apiKey.ref"}
      [] parent = "model"  -> ModelFields
      [] parent = "policy" -> PolicyFields
      [] parent = "pod"    -> PodFields
      [] parent = "request" -> RequestFields
      [] parent = "request.polling" -> PollingFields
      [] parent = "request.queueAdapter" -> AdapterFields
      [] parent = "pod.inferenceApiKey" -> {"pod.inferenceApiKey.ref"}]

\* Only an object has fields.
Raw == {r \in [Paths -> Values] :
          \A parent \in DOMAIN Fields :
             r[parent] # "object" => \A f \in Fields[parent] : r[f] = "absent"}

-----------------------------------------------------------------------------
(* The checks of one field.  Each that fails retains one error, named here   *)
(* for its field, and gives null.                                            *)

Allowed(f) ==
    CASE f = "endpointType" -> EndpointTypes
      [] f = "invokeUrl" -> {"url"}
      [] f \in ModelText \cup {"pod.id", "request.queueAdapter.module"} -> Strings
      [] f \in ModelCounts -> Integers
      [] f \in ModelFlags -> Booleans
      [] f = "model.input" -> {"modes"}
      [] f \in {"pod.port", "policy.maxAttempts"} -> Integers \cup {"absent"}
      [] f \in {"request", "request.polling", "policy"} -> {"object", "absent"}
      [] f = "request.mode" -> RequestModes \cup {"absent"}
      [] f \in {"request.timeoutMs", "request.polling.intervalMs", "request.polling.ttlMs"} ->
            Positive \cup {"absent"}
      [] f = "request.polling.focusAware" -> Booleans \cup {"absent"}
      [] f \in {"request.queueAdapter.export", "request.loadBalancedPath"} ->
            Strings \cup {"absent"}
      [] f = "request.toolAllowlist" -> Named \cup {"absent"}
      [] f = "policy.fallbackProfiles" -> Named \cup {"blanks", "absent"}

Bad(r, f) == r[f] \notin Allowed(f)

\* parseApiKey, of a key that is there: a reference, or an object that has one.
Ref(key) == IF key = "apiKey" THEN "apiKey.ref" ELSE "pod.inferenceApiKey.ref"
BadKey(r, key) ==
    /\ r[key] # "absent" /\ r[key] \notin Strings
    /\ r[key] = "object" => r[Ref(key)] \notin Strings

\* parseQueueAdapter, before it looks at a module's fields: a kind of its own
\* has neither of them.
BadAdapter(r) ==
    /\ r["request.queueAdapter"] # "absent"
    /\ r["request.queueAdapter.kind"] \in AdapterKinds =>
          /\ r["request.queueAdapter.kind"] \in BuiltIn
          /\ \/ r["request.queueAdapter.module"] # "absent"
             \/ r["request.queueAdapter.export"] # "absent"

\* The checks that return at the first failure, in the order they are made.
Ordered == <<"apiKey", "request", "request.mode", "request.timeoutMs", "request.polling",
             "request.polling.intervalMs", "request.polling.ttlMs", "request.polling.focusAware",
             "request.queueAdapter", "request.queueAdapter.module", "request.queueAdapter.export",
             "request.loadBalancedPath", "request.toolAllowlist",
             "policy", "policy.maxAttempts", "policy.fallbackProfiles">>

Fails(r, f) ==
    CASE f = "apiKey" -> BadKey(r, f)
      [] f = "request.queueAdapter" -> BadAdapter(r)
      [] f \in {"request.queueAdapter.module", "request.queueAdapter.export"} ->
            r["request.queueAdapter.kind"] = "module" /\ Bad(r, f)
      [] OTHER -> Bad(r, f)

Failing(r) == {i \in DOMAIN Ordered : Fails(r, Ordered[i])}

\* Endpoint type, pod, URL and model are all looked at before any of them ends
\* the matter.  A pod without a URL has its address derived when it is called.
IsPod(r)      == r["endpointType"] = "pod"
NeedsUrl(r)   == ~(IsPod(r) /\ r["invokeUrl"] = "absent")
PodErrors(r)  == IF r["pod"] # "object" THEN {"pod"}
                 ELSE {f \in {"pod.id", "pod.port"} : Bad(r, f)}
                      \cup {f \in {"pod.inferenceApiKey"} : BadKey(r, f)}
ModelErrors(r) == IF r["model"] # "object" THEN {"model"} ELSE {f \in ModelFields : Bad(r, f)}

\* What parsePod and parseModel compare with null before they build the result.
PodNull(r)    == \/ r["pod"] # "object" \/ BadKey(r, "pod.inferenceApiKey")
                 \/ Bad(r, "pod.id") \/ Bad(r, "pod.port")
ModelNull(r)  == \/ r["model"] # "object"
                 \/ \E f \in ModelText \cup ModelCounts \cup ModelFlags \cup {"model.input"} : Bad(r, f)

FirstErrors(r) == {f \in {"endpointType"} : Bad(r, f)}
                  \cup (IF IsPod(r) THEN PodErrors(r) ELSE {})
                  \cup {f \in {"invokeUrl"} : NeedsUrl(r) /\ Bad(r, f)}
                  \cup ModelErrors(r)
FirstNull(r)   == \/ Bad(r, "endpointType")
                  \/ IsPod(r) /\ PodNull(r)
                  \/ NeedsUrl(r) /\ Bad(r, "invokeUrl")
                  \/ ModelNull(r)

\* parseProfile: the errors it retains, and whether the profile is excluded.
Errors(r) ==
    IF r["entry"] # "object" THEN {"entry"}
    ELSE FirstErrors(r) \cup
         IF FirstNull(r) THEN {}
         ELSE {Ordered[i] : i \in {j \in Failing(r) : \A k \in Failing(r) : j <= k}}

Excluded(r) == r["entry"] # "object" \/ FirstNull(r) \/ Failing(r) # {}

-----------------------------------------------------------------------------
\* The value a field has when it is absent.  A module's export is "adapter";
\* a built-in kind has none.
Planned(r, f) ==
    CASE f \in {"request", "request.polling", "request.queueAdapter", "policy"} -> "object"
      [] f \in {"request.timeoutMs", "request.polling.intervalMs", "request.polling.ttlMs",
                "policy.maxAttempts"} -> "planned"
      [] f = "request.mode" -> "sync"
      [] f = "request.polling.focusAware" -> "true"
      [] f = "request.queueAdapter.kind" -> "openai-shaped"
      [] f = "request.queueAdapter.export" ->
            IF r["request.queueAdapter.kind"] = "module" THEN "adapter" ELSE "absent"
      [] f = "request.loadBalancedPath" -> "completions"
      [] f \in {"request.toolAllowlist", "policy.fallbackProfiles"} -> "none"
      [] f = "pod.port" -> "planned"
      [] OTHER -> "absent"

\* A key is kept as a reference object whichever form it was written in.
KeyObject(r, key) == IF r[key] \in Strings THEN "object" ELSE r[key]
KeyRef(r, key)    == IF r[key] \in Strings THEN r[key] ELSE r[Ref(key)]

\* The profile the program keeps of an entry that is not excluded.
Parsed(r) == [f \in Paths |->
    IF f \in PodPaths /\ ~IsPod(r) THEN "absent"
    ELSE IF f \in {"apiKey", "pod.inferenceApiKey"} THEN KeyObject(r, f)
    ELSE IF f = "apiKey.ref" THEN KeyRef(r, "apiKey")
    ELSE IF f = "pod.inferenceApiKey.ref" THEN KeyRef(r, "pod.inferenceApiKey")
    ELSE IF r[f] = "absent" THEN Planned(r, f) ELSE r[f]]

\* serializeProfile writes neither pod nor toolAllowlist.
Unwritten == PodPaths \cup {"request.toolAllowlist"}
ForgetsExport(p) == [f \in Paths |->
    IF f \in Unwritten \cup {"request.queueAdapter.export", "policy.fallbackProfiles"}
    THEN "absent" ELSE p[f]]
Serialized(p) == [f \in Paths |-> IF f \in Unwritten THEN "absent" ELSE p[f]]

-----------------------------------------------------------------------------
\* What can be stored and read back: all that the code reads of a profile, the
\* allowlist apart.
Sound(p) ==
    /\ p["endpointType"] \in EndpointTypes
    /\ IsPod(p) <=> p["pod"] = "object"
    /\ IsPod(p) => p["pod.id"] \in Strings /\ p["pod.port"] \in Integers
    /\ ~IsPod(p) => p["invokeUrl"] = "url"
    /\ \A key \in {"apiKey", "pod.inferenceApiKey"} :
          IF p[key] = "object" THEN p[Ref(key)] \in Strings ELSE p[key] = "absent"
    /\ \A f \in ModelText : p[f] \in Strings
    /\ \A f \in ModelCounts : p[f] \in Integers
    /\ \A f \in ModelFlags : p[f] \in Booleans
    /\ p["model.input"] = "modes"
    /\ p["request.mode"] \in RequestModes
    /\ \A f \in {"request.timeoutMs", "request.polling.intervalMs", "request.polling.ttlMs"} :
          p[f] \in Positive
    /\ p["request.polling.focusAware"] \in Booleans
    /\ p["request.queueAdapter.kind"] \in AdapterKinds
    /\ IF p["request.queueAdapter.kind"] = "module"
       THEN p["request.queueAdapter.module"] \in Strings /\ p["request.queueAdapter.export"] \in Strings
       ELSE p["request.queueAdapter.module"] = "absent" /\ p["request.queueAdapter.export"] = "absent"
    /\ p["request.loadBalancedPath"] \in Strings
    /\ p["policy.maxAttempts"] \in Integers
    /\ p["policy.fallbackProfiles"] \in Named \cup {"blanks"}

\* What the dispatcher, the request builder and the transports take for granted.
WellFormed(p) == Sound(p) /\ p["request.toolAllowlist"] \in Named

Profile == {p \in [Paths -> Values] : WellFormed(p)}
=============================================================================
