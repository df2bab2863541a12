-------------------------- MODULE ConfigStoreProofs --------------------------
(* Profiles and the layers they are kept in.  Of a profile: what parsing     *)
(* guarantees, whatever a user wrote, and what comes back of what is written. *)
(* Of the layers: any number of sessions and profile names, any contents and *)
(* any number of commands and restarts.                                      *)
EXTENDS ConfigStore, WellFoundedInduction, TLAPS

\* The checks of an entry that is not excluded have all succeeded.
LEMMA AllSucceed ==
  ASSUME NEW r \in Raw, ~Excluded(r)
  PROVE  /\ \A f \in {Ordered[i] : i \in 1..16} : ~Fails(r, f)
         /\ ~FirstNull(r) /\ r["entry"] = "object"
<1>1. DOMAIN Ordered = 1..16
  BY DEF Ordered
<1> QED BY <1>1 DEF Excluded, Failing

LEMMA OrderedFields ==
  {Ordered[i] : i \in 1..16} =
     {"apiKey", "request", "request.mode", "request.timeoutMs", "request.polling",
      "request.polling.intervalMs", "request.polling.ttlMs", "request.polling.focusAware",
      "request.queueAdapter", "request.queueAdapter.module", "request.queueAdapter.export",
      "request.loadBalancedPath", "request.toolAllowlist",
      "policy", "policy.maxAttempts", "policy.fallbackProfiles"}
<1>1. 1..16 = {1, 2, 3, 4, 5, 6, 7, 8, 9, 10, 11, 12, 13, 14, 15, 16}
  OBVIOUS
<1> QED BY <1>1 DEF Ordered

\* The values a field has by default are values.
LEMMA PlannedType ==
  ASSUME NEW r \in Raw, NEW f \in Paths
  PROVE  Planned(r, f) \in Values
<1>1. {"object", "planned", "sync", "true", "openai-shaped", "adapter", "absent", "completions", "none"}
         \subseteq Values
  BY DEF Values, Strings, RequestModes, AdapterKinds, BuiltIn, Booleans, Positive, Integers, Named
<1>2. Planned(r, f) \in {"object", "planned", "sync", "true", "openai-shaped", "adapter", "absent",
                         "completions", "none"}
  BY DEF Planned
<1> QED BY <1>1, <1>2

\* What is kept is made of values.
LEMMA ParsedType ==
  ASSUME NEW r \in Raw
  PROVE  Parsed(r) \in [Paths -> Values]
<1>1. \A f \in Paths : r[f] \in Values /\ Planned(r, f) \in Values
  BY PlannedType DEF Raw
<1>2. "absent" \in Values /\ "object" \in Values
  BY DEF Values
<1>3. {"apiKey", "pod.inferenceApiKey", "apiKey.ref", "pod.inferenceApiKey.ref"} \subseteq Paths
  BY DEF Paths, EntryFields, PodPaths, PodFields
<1>4. \A key \in {"apiKey", "pod.inferenceApiKey"} : KeyObject(r, key) \in Values /\ KeyRef(r, key) \in Values
  BY <1>1, <1>2, <1>3 DEF KeyObject, KeyRef, Ref
<1> SUFFICES ASSUME NEW f \in Paths PROVE Parsed(r)[f] \in Values
  BY DEF Parsed
<1> QED BY <1>1, <1>2, <1>4 DEF Parsed

\* A field that is neither a key nor part of a pod keeps its value or gets the
\* planned one.
LEMMA ParsedField ==
  ASSUME NEW r \in Raw, NEW f \in Paths, f \notin PodPaths, f \notin {"apiKey", "apiKey.ref"}
  PROVE  Parsed(r)[f] = IF r[f] = "absent" THEN Planned(r, f) ELSE r[f]
BY DEF Parsed, PodPaths, PodFields

\* What the checks ask of the fields, and what the fields are when absent.
LEMMA AllowedValues ==
  /\ Allowed("endpointType") = EndpointTypes
  /\ Allowed("invokeUrl") = {"url"}
  /\ \A f \in ModelText : Allowed(f) = Strings
  /\ \A f \in ModelCounts : Allowed(f) = Integers
  /\ \A f \in ModelFlags : Allowed(f) = Booleans
  /\ Allowed("pod.id") = Strings
  /\ Allowed("request.queueAdapter.module") = Strings
  /\ \A f \in {"pod.port", "policy.maxAttempts"} : Allowed(f) = Integers \cup {"absent"}
  /\ Allowed("request.mode") = RequestModes \cup {"absent"}
  /\ \A f \in {"request.timeoutMs", "request.polling.intervalMs", "request.polling.ttlMs"} :
        Allowed(f) = Positive \cup {"absent"}
  /\ \A f \in {"request.queueAdapter.export", "request.loadBalancedPath"} :
        Allowed(f) = Strings \cup {"absent"}
BY DEF Allowed, ModelText, ModelCounts, ModelFlags

LEMMA PlannedValues ==
  ASSUME NEW r \in Raw
  PROVE  /\ \A f \in {"request.timeoutMs", "request.polling.intervalMs", "request.polling.ttlMs",
                      "policy.maxAttempts", "pod.port"} : Planned(r, f) = "planned"
         /\ Planned(r, "request.mode") = "sync"
         /\ Planned(r, "request.loadBalancedPath") = "completions"
         /\ Planned(r, "request.queueAdapter.kind") = "openai-shaped"
         /\ Planned(r, "request.queueAdapter.module") = "absent"
         /\ r["request.queueAdapter.kind"] = "module" => Planned(r, "request.queueAdapter.export") = "adapter"
         /\ r["request.queueAdapter.kind"] # "module" => Planned(r, "request.queueAdapter.export") = "absent"
         /\ \A f \in ModelText \cup ModelCounts \cup ModelFlags \cup {"endpointType", "invokeUrl"} :
               Planned(r, f) = "absent"
BY DEF Planned, ModelText, ModelCounts, ModelFlags

\* None of them is "absent", and each has its kind.
LEMMA KindsOfValue ==
  /\ "absent" \notin EndpointTypes \cup Strings \cup Integers \cup Booleans
  /\ "url" \in Strings /\ "completions" \in Strings /\ "adapter" \in Strings
  /\ "planned" \in Integers /\ Integers \subseteq Positive
  /\ "sync" \in RequestModes /\ "openai-shaped" \in BuiltIn /\ "module" \notin BuiltIn
  /\ AdapterKinds = BuiltIn \cup {"module"} /\ "absent" \notin AdapterKinds
BY DEF EndpointTypes, Strings, Integers, Booleans, Positive, RequestModes, BuiltIn, AdapterKinds

\* What is kept is what the transports rely on.
THEOREM ParsedWellFormed ==
  ASSUME NEW r \in Raw, ~Excluded(r)
  PROVE  Parsed(r) \in Profile
<1> DEFINE p == Parsed(r)
<1>0. /\ \A f \in {Ordered[i] : i \in 1..16} : ~Fails(r, f)
      /\ ~FirstNull(r) /\ r["entry"] = "object"
  BY AllSucceed
<1>1. ~BadKey(r, "apiKey") /\ ~BadAdapter(r)
  BY <1>0, OrderedFields DEF Fails
<1>2. \A f \in {"request.mode", "request.timeoutMs", "request.polling.intervalMs",
                "request.polling.ttlMs", "request.loadBalancedPath", "policy.maxAttempts"} : r[f] \in Allowed(f)
  BY <1>0, OrderedFields DEF Fails, Bad
<1>3. r["request.queueAdapter.kind"] = "module" =>
         /\ r["request.queueAdapter.module"] \in Strings
         /\ r["request.queueAdapter.export"] \in Strings \cup {"absent"}
  BY <1>0, OrderedFields, AllowedValues DEF Fails, Bad
<1>4. /\ r["endpointType"] \in EndpointTypes /\ ~ModelNull(r)
      /\ IsPod(r) => ~PodNull(r)
      /\ NeedsUrl(r) => r["invokeUrl"] = "url"
  BY <1>0, AllowedValues DEF FirstNull, Bad
<1>fields. /\ \A f \in ModelText \cup ModelCounts \cup ModelFlags
                       \cup {"endpointType", "invokeUrl", "request.mode", "request.timeoutMs",
                             "request.polling.intervalMs", "request.polling.ttlMs",
                             "request.queueAdapter.kind", "request.queueAdapter.module",
                             "request.queueAdapter.export",
                             "request.loadBalancedPath", "policy.maxAttempts"} :
                  f \in Paths /\ f \notin PodPaths /\ f \notin {"apiKey", "apiKey.ref"}
  BY DEF Paths, EntryFields, ModelText, ModelCounts, ModelFlags, ModelFields, RequestFields, PollingFields,
         AdapterFields, PolicyFields, PodPaths, PodFields
<1>5. p["endpointType"] = r["endpointType"] /\ (IsPod(p) <=> IsPod(r))
  BY <1>4, <1>fields, KindsOfValue, ParsedField DEF IsPod
<1>6. p["pod"] = IF IsPod(r) THEN r["pod"] ELSE "absent"
  <2>1. "pod" \in Paths /\ "pod" \in PodPaths
    BY DEF Paths, PodPaths
  <2>2. Planned(r, "pod") = "absent"
    BY DEF Planned
  <2> QED BY <2>1, <2>2 DEF Parsed
<1>7. IsPod(p) <=> p["pod"] = "object"
  BY <1>4, <1>5, <1>6 DEF PodNull
<1>8. IsPod(p) => p["pod.id"] \in Strings /\ p["pod.port"] \in Integers
  <2>1. SUFFICES ASSUME IsPod(r) PROVE p["pod.id"] \in Strings /\ p["pod.port"] \in Integers
    BY <1>5
  <2>2. r["pod.id"] \in Strings /\ r["pod.port"] \in Integers \cup {"absent"}
    BY <1>4, <2>1, AllowedValues DEF PodNull, Bad
  <2>3. {"pod.id", "pod.port"} \subseteq Paths
    BY DEF Paths, PodPaths, PodFields
  <2> QED BY <2>1, <2>2, <2>3, KindsOfValue, PlannedValues DEF Parsed
<1>9. ~IsPod(p) => p["invokeUrl"] = "url"
  BY <1>4, <1>5, <1>fields, ParsedField DEF NeedsUrl
<1>10. \A key \in {"apiKey", "pod.inferenceApiKey"} :
          IF p[key] = "object" THEN p[Ref(key)] \in Strings ELSE p[key] = "absent"
  <2>1. {"apiKey", "apiKey.ref", "pod.inferenceApiKey", "pod.inferenceApiKey.ref"} \subseteq Paths
    BY DEF Paths, EntryFields, PodPaths, PodFields
  <2>2. /\ {"apiKey", "apiKey.ref"} \cap PodPaths = {}
        /\ {"pod.inferenceApiKey", "pod.inferenceApiKey.ref"} \subseteq PodPaths
    BY DEF PodPaths, PodFields
  <2>3. "object" \notin Strings /\ "absent" \notin Strings
    BY DEF Strings, EndpointTypes, RequestModes, AdapterKinds, BuiltIn
  <2>4. /\ p["apiKey"] = KeyObject(r, "apiKey") /\ p["apiKey.ref"] = KeyRef(r, "apiKey")
        /\ IsPod(r) => /\ p["pod.inferenceApiKey"] = KeyObject(r, "pod.inferenceApiKey")
                       /\ p["pod.inferenceApiKey.ref"] = KeyRef(r, "pod.inferenceApiKey")
        /\ ~IsPod(r) => p["pod.inferenceApiKey"] = "absent"
    BY <2>1, <2>2 DEF Parsed
  <2>5. IsPod(r) => ~BadKey(r, "pod.inferenceApiKey")
    BY <1>4 DEF PodNull
  <2> QED BY <1>1, <2>3, <2>4, <2>5 DEF BadKey, KeyObject, KeyRef, Ref
<1>11. /\ \A f \in ModelText : p[f] \in Strings
       /\ \A f \in ModelCounts : p[f] \in Integers
       /\ \A f \in ModelFlags : p[f] \in Booleans
  <2>1. \A f \in ModelText \cup ModelCounts \cup ModelFlags : r[f] \in Allowed(f)
    BY <1>4 DEF ModelNull, Bad
  <2> QED BY <2>1, <1>fields, ParsedField, AllowedValues, KindsOfValue
<1>12. /\ p["request.mode"] \in RequestModes
       /\ \A f \in {"request.timeoutMs", "request.polling.intervalMs", "request.polling.ttlMs"} :
             p[f] \in Positive
       /\ p["request.loadBalancedPath"] \in Strings
       /\ p["policy.maxAttempts"] \in Integers
  BY <1>2, <1>fields, ParsedField, AllowedValues, PlannedValues, KindsOfValue
<1>13. /\ p["request.queueAdapter.kind"] \in AdapterKinds
       /\ IF p["request.queueAdapter.kind"] = "module"
          THEN p["request.queueAdapter.module"] \in Strings /\ p["request.queueAdapter.export"] \in Strings
          ELSE p["request.queueAdapter.module"] = "absent" /\ p["request.queueAdapter.export"] = "absent"
  <2>1. /\ r["request.queueAdapter.kind"] \in AdapterKinds \/ r["request.queueAdapter"] = "absent"
        /\ r["request.queueAdapter.kind"] \in BuiltIn =>
              r["request.queueAdapter.module"] = "absent" /\ r["request.queueAdapter.export"] = "absent"
    <3>1. CASE r["request.queueAdapter"] # "absent"
      BY <1>1, <3>1, KindsOfValue DEF BadAdapter
    <3>2. CASE r["request.queueAdapter"] = "absent"
      BY <3>2 DEF Raw, Fields, AdapterFields
    <3> QED BY <3>1, <3>2
  <2>2. r["request.queueAdapter"] = "absent" =>
           /\ r["request.queueAdapter.kind"] = "absent" /\ r["request.queueAdapter.module"] = "absent"
           /\ r["request.queueAdapter.export"] = "absent"
    BY DEF Raw, Fields, AdapterFields
  <2> QED BY <1>3, <2>1, <2>2, <1>fields, ParsedField, PlannedValues, KindsOfValue
<1>14. /\ p["model.input"] = "modes" /\ p["request.polling.focusAware"] \in Booleans
       /\ p["policy.fallbackProfiles"] \in Named \cup {"blanks"} /\ p["request.toolAllowlist"] \in Named
  <2>1. /\ Allowed("model.input") = {"modes"} /\ Allowed("request.polling.focusAware") = Booleans \cup {"absent"}
        /\ Allowed("policy.fallbackProfiles") = Named \cup {"blanks", "absent"}
        /\ Allowed("request.toolAllowlist") = Named \cup {"absent"}
    BY DEF Allowed, ModelText, ModelCounts, ModelFlags
  <2>2. /\ r["model.input"] = "modes" /\ r["request.polling.focusAware"] \in Booleans \cup {"absent"}
        /\ r["policy.fallbackProfiles"] \in Named \cup {"blanks", "absent"}
        /\ r["request.toolAllowlist"] \in Named \cup {"absent"}
    BY <1>0, <2>1, OrderedFields DEF Fails, Bad, FirstNull, ModelNull
  <2>3. /\ Planned(r, "request.polling.focusAware") = "true" /\ Planned(r, "policy.fallbackProfiles") = "none"
        /\ Planned(r, "request.toolAllowlist") = "none"
    BY DEF Planned
  <2>4. \A f \in {"model.input", "request.polling.focusAware", "policy.fallbackProfiles",
                  "request.toolAllowlist"} :
           f \in Paths /\ f \notin PodPaths /\ f \notin {"apiKey", "apiKey.ref"}
    BY DEF Paths, ModelFields, RequestFields, PollingFields, PolicyFields, PodPaths, PodFields
  <2> QED BY <2>2, <2>3, <2>4, ParsedField DEF Booleans, Named
<1>15. Sound(p)
  BY <1>4, <1>5, <1>7, <1>8, <1>9, <1>10, <1>11, <1>12, <1>13, <1>14 DEF Sound
<1> QED BY <1>14, <1>15, ParsedType DEF Profile, WellFormed

-----------------------------------------------------------------------------
\* A profile with everything it needs: what parsing gives, and the guided flow
\* when its URL is one.
Complete(p) ==
    /\ p \in Raw /\ Sound(p)
    /\ \A f \in {"entry", "model", "request", "request.polling", "request.queueAdapter", "policy"} :
          p[f] = "object"
    /\ ~IsPod(p) => \A f \in PodPaths : p[f] = "absent"

\* Only objects have fields, said field by field.
LEMMA RawFields ==
  ASSUME NEW p \in [Paths -> Values]
  PROVE  p \in Raw <=>
           /\ p["entry"] # "object" => \A f \in EntryFields : p[f] = "absent"
           /\ p["apiKey"] # "object" => p["apiKey.ref"] = "absent"
           /\ p["model"] # "object" => \A f \in ModelFields : p[f] = "absent"
           /\ p["request"] # "object" => \A f \in RequestFields : p[f] = "absent"
           /\ p["request.polling"] # "object" => \A f \in PollingFields : p[f] = "absent"
           /\ p["request.queueAdapter"] # "object" => \A f \in AdapterFields : p[f] = "absent"
           /\ p["policy"] # "object" => \A f \in PolicyFields : p[f] = "absent"
           /\ p["pod"] # "object" => \A f \in PodFields : p[f] = "absent"
           /\ p["pod.inferenceApiKey"] # "object" => p["pod.inferenceApiKey.ref"] = "absent"
<1>1. /\ Fields["entry"] = EntryFields /\ Fields["apiKey"] = {"apiKey.ref"} /\ Fields["model"] = ModelFields
      /\ Fields["request"] = RequestFields /\ Fields["request.polling"] = PollingFields
      /\ Fields["request.queueAdapter"] = AdapterFields /\ Fields["policy"] = PolicyFields
      /\ Fields["pod"] = PodFields /\ Fields["pod.inferenceApiKey"] = {"pod.inferenceApiKey.ref"}
  BY DEF Fields
<1>2. DOMAIN Fields = {"entry", "apiKey", "model", "request", "request.polling",
                       "request.queueAdapter", "policy", "pod", "pod.inferenceApiKey"}
  BY DEF Fields
<1> HIDE DEF Fields
<1>3. p \in Raw <=> \A parent \in DOMAIN Fields :
             p[parent] # "object" => \A f \in Fields[parent] : p[f] = "absent"
  BY DEF Raw
<1> QED BY <1>1, <1>2, <1>3

LEMMA ParsedComplete ==
  ASSUME NEW r \in Raw, ~Excluded(r)
  PROVE  Complete(Parsed(r))
<1> DEFINE p == Parsed(r)
<1>0. /\ \A f \in {Ordered[i] : i \in 1..16} : ~Fails(r, f)
      /\ ~FirstNull(r) /\ r["entry"] = "object"
  BY AllSucceed
<1>1. Sound(p) /\ p \in [Paths -> Values]
  BY ParsedWellFormed, ParsedType DEF Profile, WellFormed
<1>2. /\ \A f \in {"entry", "model", "model.input", "endpointType", "request", "request.polling",
                   "request.queueAdapter", "policy", "request.polling.focusAware", "policy.fallbackProfiles"} :
            /\ f \in Paths /\ f \notin PodPaths /\ f \notin {"apiKey", "apiKey.ref"}
            /\ p[f] = IF r[f] = "absent" THEN Planned(r, f) ELSE r[f]
  <2>1. \A f \in {"entry", "model", "model.input", "endpointType", "request", "request.polling",
                   "request.queueAdapter", "policy", "request.polling.focusAware", "policy.fallbackProfiles"} :
            f \in Paths /\ f \notin PodPaths /\ f \notin {"apiKey", "apiKey.ref"}
    BY DEF Paths, EntryFields, ModelFields, RequestFields, PollingFields, PolicyFields, PodPaths, PodFields
  <2> QED BY <2>1, ParsedField
<1>3. \A f \in {"entry", "model", "request", "request.polling", "request.queueAdapter", "policy"} :
         p[f] = "object"
  <2>1. \A f \in {"request", "request.polling", "policy"} : r[f] \in {"object", "absent"}
    <3>1. \A f \in {"request", "request.polling", "policy"} : Allowed(f) = {"object", "absent"}
      BY DEF Allowed, ModelText, ModelCounts, ModelFlags
    <3> QED BY <1>0, <3>1, OrderedFields DEF Fails, Bad
  <2>2. r["request.queueAdapter"] \in {"object", "absent"}
    <3>1. ~BadAdapter(r)
      BY <1>0, OrderedFields DEF Fails
    <3>2. CASE r["request.queueAdapter"] # "object"
      <4>1. r["request.queueAdapter.kind"] = "absent"
        BY <3>2 DEF Raw, Fields, AdapterFields
      <4> QED BY <3>1, <4>1, KindsOfValue DEF BadAdapter
    <3> QED BY <3>2
  <2>3. r["model"] = "object" /\ r["entry"] = "object"
    BY <1>0 DEF FirstNull, ModelNull
  <2>4. \A f \in {"request", "request.polling", "request.queueAdapter", "policy"} : Planned(r, f) = "object"
    BY DEF Planned
  <2> QED BY <1>2, <2>1, <2>2, <2>3, <2>4
<1>5. ~IsPod(p) => \A f \in PodPaths : p[f] = "absent"
  <2>1. IsPod(p) <=> IsPod(r)
    BY <1>2, <1>0, AllowedValues, KindsOfValue DEF FirstNull, Bad, IsPod
  <2>2. PodPaths \subseteq Paths
    BY DEF Paths
  <2> QED BY <2>1, <2>2 DEF Parsed
<1>6. p \in Raw
  <2>1. p["apiKey"] # "object" => p["apiKey.ref"] = "absent"
    <3>1. p["apiKey"] = KeyObject(r, "apiKey") /\ p["apiKey.ref"] = KeyRef(r, "apiKey")
      BY DEF Parsed, Paths, EntryFields, PodPaths, PodFields
    <3>2. r["apiKey"] # "object" => r["apiKey.ref"] = "absent"
      BY DEF Raw, Fields
    <3> QED BY <3>1, <3>2 DEF KeyObject, KeyRef, Ref
  <2>2. p["pod"] # "object" => \A f \in PodFields : p[f] = "absent"
    BY <1>1, <1>5 DEF Sound, PodPaths
  <2>3. p["pod.inferenceApiKey"] # "object" => p["pod.inferenceApiKey.ref"] = "absent"
    <3>1. CASE IsPod(p)
      <4>1. IsPod(r)
        BY <3>1, <1>2, <1>0, AllowedValues, KindsOfValue DEF FirstNull, Bad, IsPod
      <4>2. /\ p["pod.inferenceApiKey"] = KeyObject(r, "pod.inferenceApiKey")
            /\ p["pod.inferenceApiKey.ref"] = KeyRef(r, "pod.inferenceApiKey")
        BY <4>1 DEF Parsed, Paths, EntryFields, PodPaths, PodFields
      <4>3. r["pod.inferenceApiKey"] # "object" => r["pod.inferenceApiKey.ref"] = "absent"
        BY DEF Raw, Fields
      <4> QED BY <4>2, <4>3 DEF KeyObject, KeyRef, Ref
    <3>2. CASE ~IsPod(p)
      BY <1>5, <3>2 DEF PodPaths
    <3> QED BY <3>1, <3>2
  <2> QED BY <1>1, <1>3, <2>1, <2>2, <2>3, RawFields
<1> QED BY <1>1, <1>3, <1>5, <1>6 DEF Complete

\* What is written is the form of an entry again.
LEMMA SerializedRaw ==
  ASSUME NEW p \in Raw
  PROVE  Serialized(p) \in Raw
<1>1. p \in [Paths -> Values] /\ "absent" \in Values
  BY DEF Raw, Values
<1>2. Serialized(p) \in [Paths -> Values]
  BY <1>1 DEF Serialized
<1>3. \A f \in Paths : Serialized(p)[f] = "absent" \/ (Serialized(p)[f] = p[f] /\ f \notin Unwritten)
  BY <1>1 DEF Serialized
<1>4. \A f \in {"entry", "apiKey", "model", "request", "request.polling", "request.queueAdapter", "policy"} :
         f \in Paths /\ Serialized(p)[f] = p[f]
  BY <1>1 DEF Serialized, Unwritten, PodPaths, PodFields, Paths, EntryFields, RequestFields
<1>5. \A f \in PodPaths : Serialized(p)[f] = "absent"
  BY <1>1 DEF Serialized, Unwritten, Paths
<1>6. /\ EntryFields \subseteq Paths /\ ModelFields \subseteq Paths /\ RequestFields \subseteq Paths
      /\ PollingFields \subseteq Paths /\ AdapterFields \subseteq Paths /\ PolicyFields \subseteq Paths
      /\ "apiKey.ref" \in Paths
      /\ PodFields \subseteq PodPaths /\ {"pod.inferenceApiKey.ref"} \subseteq PodPaths
  BY DEF Paths, PodPaths
<1> QED BY <1>1, <1>2, <1>3, <1>4, <1>5, <1>6, RawFields

\* A complete profile that is no pod reads back as it was, but for the
\* allowlist.
THEOREM WrittenReadsBack ==
  ASSUME NEW p, Complete(p), ~IsPod(p)
  PROVE  /\ ~Excluded(Serialized(p))
         /\ \A f \in Paths \ {"request.toolAllowlist"} : Parsed(Serialized(p))[f] = p[f]
<1> DEFINE r == Serialized(p)
<1>1. p \in Raw /\ p \in [Paths -> Values] /\ Sound(p) /\ r \in Raw
  BY SerializedRaw DEF Complete, Raw
<1>2. /\ \A f \in Paths \ Unwritten : r[f] = p[f]
      /\ \A f \in Unwritten : r[f] = "absent"
      /\ Unwritten = PodPaths \cup {"request.toolAllowlist"} /\ Unwritten \subseteq Paths
  BY <1>1 DEF Serialized, Unwritten, Paths, RequestFields
<1>3. /\ \A f \in ModelFields \cup PollingFields \cup AdapterFields \cup PolicyFields
                  \cup {"entry", "apiKey", "apiKey.ref", "endpointType", "invokeUrl", "model", "request",
                        "policy", "request.mode", "request.timeoutMs", "request.polling",
                        "request.queueAdapter", "request.loadBalancedPath"} :
            f \in Paths \ Unwritten /\ r[f] = p[f]
  <2>1. ModelFields \cup PollingFields \cup AdapterFields \cup PolicyFields
                  \cup {"entry", "apiKey", "apiKey.ref", "endpointType", "invokeUrl", "model", "request",
                        "policy", "request.mode", "request.timeoutMs", "request.polling",
                        "request.queueAdapter", "request.loadBalancedPath"} \subseteq Paths \ Unwritten
    BY DEF Paths, EntryFields, ModelFields, ModelText, ModelCounts, ModelFlags, PollingFields, AdapterFields,
           PolicyFields, RequestFields, Unwritten, PodPaths, PodFields
  <2> QED BY <1>2, <2>1
<1>4. Paths = Unwritten \cup ModelFields \cup PollingFields \cup AdapterFields \cup PolicyFields
                  \cup {"entry", "apiKey", "apiKey.ref", "endpointType", "invokeUrl", "model", "request",
                        "policy", "request.mode", "request.timeoutMs", "request.polling",
                        "request.queueAdapter", "request.loadBalancedPath"}
  BY DEF Paths, EntryFields, ModelFields, RequestFields, Unwritten, PodPaths, PodFields
<1>5. ~IsPod(r) /\ r["endpointType"] \in EndpointTypes /\ r["invokeUrl"] = "url"
  BY <1>1, <1>3 DEF IsPod, Sound
<1>6. ~FirstNull(r)
  <2>1. ~Bad(r, "endpointType") /\ ~Bad(r, "invokeUrl")
    BY <1>5, AllowedValues DEF Bad
  <2>2. ~ModelNull(r)
    <3>1. \A f \in ModelText \cup ModelCounts \cup ModelFlags : f \in ModelFields
      BY DEF ModelFields
    <3>2. \A f \in ModelText \cup ModelCounts \cup ModelFlags : ~Bad(r, f)
      BY <1>1, <1>3, <3>1, AllowedValues DEF Bad, Sound
    <3>3. r["model.input"] = "modes" /\ r["model"] = "object"
      BY <1>1, <1>3 DEF Complete, Sound, ModelFields
    <3>4. Allowed("model.input") = {"modes"}
      BY DEF Allowed, ModelText, ModelCounts, ModelFlags
    <3> QED BY <3>2, <3>3, <3>4 DEF ModelNull, Bad
  <2> QED BY <1>5, <2>1, <2>2 DEF FirstNull
<1>7. ~BadKey(r, "apiKey") /\ ~BadAdapter(r)
  <2>1. ~BadKey(r, "apiKey")
    BY <1>1, <1>3 DEF Sound, BadKey, Ref
  <2>2. ~BadAdapter(r)
    <3>1. {"request.queueAdapter.kind", "request.queueAdapter.module", "request.queueAdapter.export"}
             \subseteq AdapterFields
      BY DEF AdapterFields
    <3> QED BY <1>1, <1>3, <3>1, KindsOfValue DEF Sound, BadAdapter
  <2> QED BY <2>1, <2>2
<1>8. \A i \in 1..16 : ~Fails(r, Ordered[i])
  <2>1. \A f \in {"request", "request.polling", "policy"} : ~Bad(r, f)
    <3>1. \A f \in {"request", "request.polling", "policy"} : Allowed(f) = {"object", "absent"}
      BY DEF Allowed, ModelText, ModelCounts, ModelFlags
    <3> QED BY <1>3, <3>1 DEF Complete, Bad
  <2>2. \A f \in {"request.mode", "request.timeoutMs", "request.polling.intervalMs",
                  "request.polling.ttlMs", "request.loadBalancedPath", "policy.maxAttempts"} : ~Bad(r, f)
    <3>1. {"request.polling.intervalMs", "request.polling.ttlMs"} \subseteq PollingFields
          /\ "policy.maxAttempts" \in PolicyFields
      BY DEF PollingFields, PolicyFields
    <3> QED BY <1>1, <1>3, <3>1, AllowedValues DEF Sound, Bad
  <2>3. r["request.queueAdapter.kind"] = "module" =>
           ~Bad(r, "request.queueAdapter.module") /\ ~Bad(r, "request.queueAdapter.export")
    <3>1. {"request.queueAdapter.kind", "request.queueAdapter.module", "request.queueAdapter.export"}
             \subseteq AdapterFields
      BY DEF AdapterFields
    <3> QED BY <1>1, <1>3, <3>1, AllowedValues DEF Sound, Bad
  <2>4. ~Bad(r, "request.toolAllowlist")
    <3>1. r["request.toolAllowlist"] = "absent"
      BY <1>2
    <3> QED BY <3>1 DEF Bad, Allowed, ModelText, ModelCounts, ModelFlags
  <2>5. ~Bad(r, "request.polling.focusAware") /\ ~Bad(r, "policy.fallbackProfiles")
    <3>1. /\ Allowed("request.polling.focusAware") = Booleans \cup {"absent"}
          /\ Allowed("policy.fallbackProfiles") = Named \cup {"blanks", "absent"}
      BY DEF Allowed, ModelText, ModelCounts, ModelFlags
    <3>2. "request.polling.focusAware" \in PollingFields /\ "policy.fallbackProfiles" \in PolicyFields
      BY DEF PollingFields, PolicyFields
    <3> QED BY <1>1, <1>3, <3>1, <3>2 DEF Sound, Bad
  <2>6. \A f \in {Ordered[i] : i \in 1..16} : ~Fails(r, f)
    BY <1>7, <2>1, <2>2, <2>3, <2>4, <2>5, OrderedFields DEF Fails
  <2> QED BY <2>6
<1>9. ~Excluded(r)
  <2>1. DOMAIN Ordered = 1..16
    BY DEF Ordered
  <2> QED BY <1>3, <1>6, <1>8, <2>1 DEF Complete, Excluded, Failing
<1>10. \A f \in Paths \ {"request.toolAllowlist"} : Parsed(r)[f] = p[f]
  <2>1. \A f \in PodPaths : Parsed(r)[f] = "absent" /\ p[f] = "absent"
    BY <1>2, <1>5 DEF Parsed, Complete
  <2>2. Parsed(r)["apiKey"] = p["apiKey"] /\ Parsed(r)["apiKey.ref"] = p["apiKey.ref"]
    <3>1. Parsed(r)["apiKey"] = KeyObject(r, "apiKey") /\ Parsed(r)["apiKey.ref"] = KeyRef(r, "apiKey")
      BY DEF Parsed, Paths, EntryFields, PodPaths, PodFields
    <3>2. p["apiKey"] \in {"object", "absent"}
      BY <1>1 DEF Sound
    <3>3. r["apiKey"] \notin Strings
      BY <1>3, <3>2 DEF Strings, EndpointTypes, RequestModes, AdapterKinds, BuiltIn
    <3> QED BY <1>3, <3>1, <3>3 DEF KeyObject, KeyRef, Ref
  <2>3. ASSUME NEW f \in Paths \ Unwritten, f \notin {"apiKey", "apiKey.ref"}
        PROVE  Parsed(r)[f] = p[f]
    <3>1. Parsed(r)[f] = IF r[f] = "absent" THEN Planned(r, f) ELSE r[f]
      <4>1. f \in Paths /\ f \notin PodPaths
        BY <1>2, <2>3
      <4> QED BY <1>1, <2>3, <4>1, ParsedField
    <3>2. CASE p[f] # "absent"
      BY <1>2, <3>1, <3>2
    <3>3. CASE p[f] = "absent"
      <4>1. f \in {"request.queueAdapter.module", "request.queueAdapter.export"}
        <5>1. f \notin ModelText \cup ModelCounts \cup ModelFlags \cup {"model.input"}
          BY <1>1, <3>3, KindsOfValue DEF Sound, Complete
        <5>2. f \notin {"request.mode", "request.timeoutMs", "request.polling.intervalMs",
                  "request.polling.ttlMs", "request.loadBalancedPath", "policy.maxAttempts",
                  "request.queueAdapter.kind", "request.polling.focusAware", "policy.fallbackProfiles",
                  "endpointType", "invokeUrl"}
          <6>1. "absent" \notin RequestModes \cup Positive \cup Strings \cup Integers \cup AdapterKinds
                   \cup Booleans \cup Named \cup EndpointTypes
            BY DEF RequestModes, Positive, Strings, Integers, AdapterKinds, BuiltIn, Booleans, Named, EndpointTypes
          <6> QED BY <1>1, <3>3, <6>1 DEF Sound, Complete
        <5>3. f \notin {"entry", "model", "request", "request.polling", "request.queueAdapter", "policy"}
          BY <3>3 DEF Complete
        <5> QED BY <1>4, <2>3, <5>1, <5>2, <5>3 DEF ModelFields, PollingFields, AdapterFields, PolicyFields
      <4>2. p["request.queueAdapter.kind"] = "module" => FALSE
        BY <1>1, <3>3, <4>1, KindsOfValue DEF Sound
      <4>3. r["request.queueAdapter.kind"] # "module"
        BY <1>3, <4>2 DEF AdapterFields
      <4>4. Planned(r, f) = "absent"
        BY <1>1, <4>1, <4>3, PlannedValues
      <4> QED BY <1>2, <3>1, <3>3, <4>4
    <3> QED BY <3>2, <3>3
  <2> QED BY <1>2, <2>1, <2>2, <2>3
<1> QED BY <1>9, <1>10

-----------------------------------------------------------------------------
LEMMA LeastOfOrdered ==
  ASSUME NEW S \in SUBSET (1..16), S # {}
  PROVE  \E i \in S : \A k \in S : i <= k
<1>1. S \subseteq Nat
  OBVIOUS
<1>2. \E i \in S : \A k \in S : <<k, i>> \notin OpToRel(<, Nat)
  BY <1>1, NatLessThanWellFounded, WFMin
<1> QED BY <1>1, <1>2 DEF OpToRel

\* A profile is excluded if and only if an error of it is retained.
THEOREM ExcludedReported ==
  ASSUME NEW r \in Raw
  PROVE  (Excluded(r) <=> Errors(r) # {}) /\ Errors(r) \subseteq Paths
<1>1. DOMAIN Ordered = 1..16
  BY DEF Ordered
<1>2. Failing(r) # {} => \E i \in Failing(r) : \A k \in Failing(r) : i <= k
  BY <1>1, LeastOfOrdered DEF Failing
<1>3. ModelNull(r) <=> ModelErrors(r) # {}
  BY DEF ModelNull, ModelErrors, ModelFields
<1>4. PodNull(r) <=> PodErrors(r) # {}
  BY DEF PodNull, PodErrors
<1>5. FirstNull(r) <=> FirstErrors(r) # {}
  BY <1>3, <1>4 DEF FirstNull, FirstErrors
<1>6. FirstErrors(r) \subseteq Paths
  BY DEF FirstErrors, PodErrors, ModelErrors, Paths, EntryFields, PodPaths, PodFields
<1>7. {Ordered[i] : i \in 1..16} \subseteq Paths /\ "entry" \in Paths
  BY OrderedFields DEF Paths, EntryFields, RequestFields, PollingFields, AdapterFields, PolicyFields
<1>8. Failing(r) \subseteq 1..16
  BY <1>1 DEF Failing
<1> QED BY <1>2, <1>5, <1>6, <1>7, <1>8 DEF Excluded, Errors

-----------------------------------------------------------------------------
(* The layers and the sessions. *)

Docs(S) == UNION {[N -> S] : N \in SUBSET Names}

\* Entries that a rewrite of their layer keeps, where it can keep any.
Storable == {p \in Raw : Survives(p) =>
                /\ ~Excluded(Serialized(p))
                /\ \A f \in Paths \ {"request.toolAllowlist"} : Parsed(Serialized(p))[f] = p[f]}

Contents == {c \in [kind : {"absent", "malformed", "partial", "doc"}, doc : Docs(Raw)] :
               c.kind # "doc" => c.doc = Empty}
Complaints == SUBSET [source : Layers \cup {"config"}, entry : Names \cup {Document},
                      field : Paths \cup {Document}]
Gots == UNION {[L -> Contents] : L \in SUBSET Layers}
Cmds  == [step : {"idle", "load", "confirm", "rename", "reload"},
          op : {"none", "configure", "add"}, scope : Layers, name : Names \cup {None},
          doc : Docs(Storable), got : Gots]

\* The types, the state as functions and records, and no layer cut short.
CInv == /\ ConfigTypeOK /\ FilesWhole
        /\ files \in [Layers -> Contents] /\ cmd \in [Sessions -> Cmds]
        /\ live \in [Sessions -> Docs(Profile)] /\ registered \in [Sessions -> Docs(Profile)]
        /\ errors \in [Sessions -> Complaints]

-----------------------------------------------------------------------------
\* A document is a function on some of the names.
LEMMA DocMeaning ==
  ASSUME NEW S, NEW d
  PROVE  d \in Docs(S) <=> IsDoc(d, S)
BY DEF Docs, IsDoc

LEMMA DocIntro ==
  ASSUME NEW S, NEW N \in SUBSET Names, NEW d \in [N -> S]
  PROVE  d \in Docs(S)
BY DEF Docs

LEMMA DocElim ==
  ASSUME NEW S, NEW d \in Docs(S)
  PROVE  DOMAIN d \in SUBSET Names /\ d \in [DOMAIN d -> S]
BY DEF Docs

LEMMA EmptyDoc == ASSUME NEW S PROVE Empty \in Docs(S) /\ DOMAIN Empty = {}
<1>1. DOMAIN Empty = {} /\ Empty = [n \in {} |-> n]
  BY DEF Empty
<1> QED BY <1>1, DocIntro

LEMMA ContentMeaning ==
  ASSUME NEW c
  PROVE  c \in Contents <=> IsContent(c)
BY DocMeaning DEF Contents, IsContent

\* What parsing keeps can be stored again.
LEMMA ParsedStorable ==
  ASSUME NEW r \in Raw, ~Excluded(r)
  PROVE  Parsed(r) \in Storable
<1>1. Complete(Parsed(r)) /\ Parsed(r) \in Raw
  BY ParsedComplete DEF Complete
<1> QED BY <1>1, WrittenReadsBack DEF Storable, Survives

\* The fields the guided flow leaves to their planned values.
LEMMA GuidedFields ==
  ASSUME NEW type \in EndpointTypes, NEW url \in Urls \cup {"absent"}, NEW key \in Keys,
         NEW port \in Integers, NEW podKey \in Keys
  PROVE  /\ Built(type, url, key, port, podKey) \in Raw
         /\ type # "pod" /\ url = "url" => Complete(Built(type, url, key, port, podKey))
<1> DEFINE p == Built(type, url, key, port, podKey)
           none == [x \in Paths |-> "absent"]
<1>1. none \in Raw
  <2>1. none \in [Paths -> Values]
    BY DEF Values
  <2>2. /\ EntryFields \subseteq Paths /\ ModelFields \subseteq Paths /\ RequestFields \subseteq Paths
        /\ PollingFields \subseteq Paths /\ AdapterFields \subseteq Paths /\ PolicyFields \subseteq Paths
        /\ PodFields \subseteq Paths /\ {"apiKey.ref", "pod.inferenceApiKey.ref"} \subseteq Paths
    BY DEF Paths, PodPaths
  <2> QED BY <2>1, <2>2, RawFields
<1>2. /\ Planned(none, "request.mode") = "sync"
      /\ \A f \in {"request.timeoutMs", "request.polling.intervalMs", "request.polling.ttlMs",
                   "policy.maxAttempts"} : Planned(none, f) = "planned"
      /\ Planned(none, "request.loadBalancedPath") = "completions"
      /\ Planned(none, "request.queueAdapter.kind") = "openai-shaped"
      /\ Planned(none, "request.queueAdapter.module") = "absent"
      /\ Planned(none, "request.polling.focusAware") = "true"
      /\ Planned(none, "policy.fallbackProfiles") = "none"
  BY <1>1, PlannedValues DEF Planned
<1> DEFINE objects == {"entry", "model", "request", "request.polling", "request.queueAdapter", "policy"}
           planned == {"request.mode", "request.timeoutMs", "request.polling.intervalMs",
                       "request.polling.ttlMs", "policy.maxAttempts", "request.loadBalancedPath",
                       "request.queueAdapter.kind", "request.queueAdapter.module",
                       "request.polling.focusAware", "policy.fallbackProfiles"}
<1>3. Paths = objects \cup planned \cup ModelFields \cup PodPaths
              \cup {"endpointType", "invokeUrl", "apiKey", "apiKey.ref", "request.queueAdapter.export",
                    "request.toolAllowlist"}
  BY DEF Paths, EntryFields, RequestFields, PollingFields, AdapterFields, PolicyFields, PodPaths
<1>4. /\ p["endpointType"] = type /\ p["invokeUrl"] = url
      /\ \A f \in objects : p[f] = "object"
  BY <1>3 DEF Built, ModelText, ModelCounts, ModelFlags, PodPaths, PodFields
<1>5. /\ \A f \in ModelText : p[f] = "text"
      /\ \A f \in ModelCounts : p[f] = "int"
      /\ \A f \in ModelFlags : p[f] \in Booleans
      /\ p["model.input"] = "modes"
  BY <1>3 DEF Built, ModelFields, ModelText, ModelCounts, ModelFlags, PodPaths, PodFields, Booleans
<1>6. /\ p["apiKey"] = IF key = "absent" THEN "absent" ELSE "object"
      /\ p["apiKey.ref"] = key
      /\ p["request.queueAdapter.export"] = "absent" /\ p["request.toolAllowlist"] = "absent"
  BY <1>3 DEF Built, ModelText, ModelCounts, ModelFlags, PodPaths, PodFields
<1>7. \A f \in planned : p[f] = Planned(none, f)
  BY <1>3 DEF Built, ModelText, ModelCounts, ModelFlags, PodPaths, PodFields
<1>8. /\ type # "pod" => \A f \in PodPaths : p[f] = "absent"
      /\ type = "pod" => /\ p["pod"] = "object" /\ p["pod.id"] = "text" /\ p["pod.port"] = port
                         /\ p["pod.inferenceApiKey"] = IF podKey = "absent" THEN "absent" ELSE "object"
                         /\ p["pod.inferenceApiKey.ref"] = podKey
  BY <1>3 DEF Built, ModelText, ModelCounts, ModelFlags, PodPaths, PodFields
<1>9. {"object", "text", "int", "modes", "absent", "planned", "sync", "completions", "openai-shaped",
       "true", "none"} \cup Booleans \cup Urls \cup Integers \cup EndpointTypes \subseteq Values
  BY DEF Values, Strings, Booleans, Urls, Integers, Positive, Named, EndpointTypes, RequestModes, AdapterKinds, BuiltIn
<1>10. p \in [Paths -> Values]
  <2>1. \A f \in PodPaths : p[f] \in Values
    BY <1>8, <1>9 DEF PodPaths, PodFields, Keys
  <2>2. \A f \in ModelFields : p[f] \in Values
    BY <1>5, <1>9 DEF ModelFields
  <2>3. \A f \in planned : p[f] \in Values
    BY <1>2, <1>7, <1>9
  <2>4. \A f \in Paths : p[f] \in Values
    BY <1>3, <1>4, <1>6, <1>9, <2>1, <2>2, <2>3 DEF Keys
  <2> QED BY <2>4 DEF Built
<1>11. p \in Raw
  <2>1. p["pod"] # "object" => \A f \in PodFields : p[f] = "absent"
    BY <1>8 DEF PodPaths
  <2>2. p["pod.inferenceApiKey"] # "object" => p["pod.inferenceApiKey.ref"] = "absent"
    BY <1>8 DEF PodPaths, PodFields
  <2> QED BY <1>4, <1>6, <1>10, <2>1, <2>2, RawFields
<1>12. ASSUME type # "pod", url = "url"
       PROVE  Complete(p)
  <2>1. ~IsPod(p) /\ p["pod"] # "object" /\ p["pod.inferenceApiKey"] = "absent"
    BY <1>4, <1>8, <1>12 DEF IsPod, PodPaths, PodFields
  <2>2. /\ "text" \in Strings /\ "int" \in Integers /\ "planned" \in Integers /\ "planned" \in Positive
        /\ "sync" \in RequestModes /\ "completions" \in Strings
        /\ "openai-shaped" \in AdapterKinds /\ "true" \in Booleans /\ "none" \in Named
    BY DEF Strings, Integers, Positive, RequestModes, AdapterKinds, BuiltIn, Booleans, Named
  <2>3. IF p["apiKey"] = "object" THEN p["apiKey.ref"] \in Strings ELSE p["apiKey"] = "absent"
    BY <1>6, <2>2 DEF Keys
  <2>4. Sound(p)
    BY <1>2, <1>4, <1>5, <1>6, <1>7, <1>12, <2>1, <2>2, <2>3 DEF Sound, Ref
  <2> QED BY <1>2, <1>4, <1>5, <1>7, <1>8, <1>11, <1>12, <2>1, <2>2, <2>4 DEF Complete
<1> QED BY <1>11, <1>12

\* Whatever the guided flow builds can be stored.
LEMMA GuidedStorable == Guided \subseteq Storable
<1> SUFFICES ASSUME NEW p \in Guided PROVE p \in Storable
  OBVIOUS
<1>1. PICK type \in EndpointTypes, url \in Urls \cup {"absent"}, key \in Keys, port \in Integers,
           podKey \in Keys : p = Built(type, url, key, port, podKey)
  <2>1. p \in AllGuided
    BY ConfigAssumption
  <2>2. CASE \E t \in {"queue", "load-balanced"}, u \in Urls, k \in Keys :
                p = Built(t, u, k, "planned", "absent")
    BY <2>2 DEF EndpointTypes, Integers, Keys
  <2>3. CASE \E u \in Urls \cup {"absent"}, k \in Keys, n \in Integers, pk \in Keys :
                p = Built("pod", u, k, n, pk)
    BY <2>3 DEF EndpointTypes
  <2> QED BY <2>1, <2>2, <2>3 DEF AllGuided
<1>2. /\ p \in Raw
      /\ type # "pod" /\ url = "url" => Complete(p)
  BY <1>1, GuidedFields
<1>3. p["endpointType"] = type /\ p["invokeUrl"] = url
  BY <1>1 DEF Built, Paths, EntryFields, ModelText, ModelCounts, ModelFlags, PodPaths, PodFields
<1>4. Survives(p) => Complete(p)
  BY <1>2, <1>3 DEF Survives, IsPod
<1> QED BY <1>2, <1>4, WrittenReadsBack DEF Storable, Survives

\* Parsing yields well-formed profiles only: what it rejects is left out.
LEMMA ParseDoc ==
  ASSUME NEW c \in Contents
  PROVE  Parse(c) \in Docs(Profile) /\ Parse(c) \in Docs(Storable)
<1>1. CASE c.kind # "doc"
  BY <1>1, EmptyDoc DEF Parse
<1>2. CASE c.kind = "doc"
  <2>1. DOMAIN c.doc \in SUBSET Names /\ c.doc \in [DOMAIN c.doc -> Raw]
    BY DocElim DEF Contents
  <2>2. \A n \in Accepted(c) : Parsed(c.doc[n]) \in Profile /\ Parsed(c.doc[n]) \in Storable
    BY <2>1, ParsedWellFormed, ParsedStorable DEF Accepted
  <2>3. Parse(c) = [n \in Accepted(c) |-> Parsed(c.doc[n])] /\ Accepted(c) \in SUBSET Names
    BY <1>2, <2>1 DEF Parse, Accepted
  <2>4. Parse(c) \in [Accepted(c) -> Profile] /\ Parse(c) \in [Accepted(c) -> Storable]
    BY <2>2, <2>3
  <2> QED BY <2>3, <2>4, DocIntro
<1> QED BY <1>1, <1>2

\* The errors retained of a layer name the layer, a profile and a field.
LEMMA RetainedType ==
  ASSUME NEW c \in Contents, NEW l \in Layers
  PROVE  Retained(c, l) \in Complaints
<1>1. CASE c.kind \in {"malformed", "partial"}
  BY <1>1 DEF Retained, Complaints
<1>2. CASE c.kind \notin {"malformed", "partial"}
  <2>1. DOMAIN c.doc \in SUBSET Names /\ c.doc \in [DOMAIN c.doc -> Raw]
    BY DocElim DEF Contents
  <2>2. \A n \in DOMAIN c.doc : n \in Names /\ Errors(c.doc[n]) \subseteq Paths
    BY <2>1, ExcludedReported
  <2>3. Retained(c, l) = UNION {{[source |-> l, entry |-> n, field |-> f] : f \in Errors(c.doc[n])} :
                                n \in DOMAIN c.doc}
    BY <1>2 DEF Retained
  <2>4. ASSUME NEW e \in Retained(c, l)
        PROVE  e \in [source : Layers \cup {"config"}, entry : Names \cup {Document},
                      field : Paths \cup {Document}]
    <3>1. PICK n \in DOMAIN c.doc : \E f \in Errors(c.doc[n]) : e = [source |-> l, entry |-> n, field |-> f]
      BY <2>3, <2>4
    <3> QED BY <2>2, <3>1
  <2> QED BY <2>4 DEF Complaints
<1> QED BY <1>1, <1>2

LEMMA RetainedOf ==
  ASSUME NEW c, NEW l, c.kind = "doc", NEW n \in DOMAIN c.doc
  PROVE  (\E e \in Retained(c, l) : e.source = l /\ e.entry = n) <=> Errors(c.doc[n]) # {}
<1> DEFINE Of(m) == {[source |-> l, entry |-> m, field |-> f] : f \in Errors(c.doc[m])}
<1>1. Retained(c, l) = UNION {Of(m) : m \in DOMAIN c.doc}
  BY DEF Retained
<1>2. ASSUME NEW e \in Retained(c, l), e.entry = n
      PROVE  Errors(c.doc[n]) # {}
  <2>1. PICK m \in DOMAIN c.doc : e \in Of(m)
    BY <1>1
  <2>2. m = n /\ Of(m) # {}
    BY <1>2, <2>1
  <2> QED BY <2>2
<1>3. ASSUME NEW f \in Errors(c.doc[n])
      PROVE  \E e \in Retained(c, l) : e.source = l /\ e.entry = n
  <2>1. [source |-> l, entry |-> n, field |-> f] \in Of(n) /\ Of(n) \in {Of(m) : m \in DOMAIN c.doc}
    OBVIOUS
  <2>2. [source |-> l, entry |-> n, field |-> f] \in Retained(c, l)
    <3> HIDE DEF Of
    <3> QED BY <1>1, <2>1
  <2> QED BY <2>2
<1> QED BY <1>2, <1>3

\* What is written is a document again, perhaps with profiles no parse accepts.
LEMMA SerializeDoc ==
  ASSUME NEW d \in Docs(Storable)
  PROVE  Whole(Serialize(d)) \in Contents /\ Whole(Serialize(d)).kind = "doc"
<1>1. DOMAIN d \in SUBSET Names /\ d \in [DOMAIN d -> Storable]
  BY DocElim
<1>2. \A p \in Storable : Serialized(p) \in Raw
  BY SerializedRaw DEF Storable
<1>3. Serialize(d) \in [DOMAIN d -> Raw]
  BY <1>1, <1>2 DEF Serialize
<1>4. Serialize(d) \in Docs(Raw)
  BY <1>1, <1>3, DocIntro
<1> QED BY <1>4 DEF Whole, Contents

\* Merging, adding and removing keep documents documents.
LEMMA MergeDoc ==
  ASSUME NEW S, NEW g \in Docs(S), NEW p \in Docs(S)
  PROVE  Merge(g, p) \in Docs(S)
<1>1. /\ DOMAIN g \in SUBSET Names /\ g \in [DOMAIN g -> S]
      /\ DOMAIN p \in SUBSET Names /\ p \in [DOMAIN p -> S]
  BY DocElim
<1>2. Merge(g, p) \in [DOMAIN g \cup DOMAIN p -> S]
  BY <1>1 DEF Merge
<1> QED BY <1>1, <1>2, DocIntro

LEMMA SpreadDoc ==
  ASSUME NEW S, NEW d \in Docs(S), NEW n \in Names, NEW p \in S
  PROVE  Spread(d, n, p) \in Docs(S)
<1>1. DOMAIN d \in SUBSET Names /\ d \in [DOMAIN d -> S]
  BY DocElim
<1>2. Spread(d, n, p) \in [DOMAIN d \cup {n} -> S]
  BY <1>1 DEF Spread
<1> QED BY <1>1, <1>2, DocIntro

LEMMA WithoutDoc ==
  ASSUME NEW d \in Docs(Profile), NEW n
  PROVE  /\ Without(d, n) \in Docs(Profile)
         /\ DOMAIN Without(d, n) \subseteq DOMAIN d
         /\ \A m \in DOMAIN Without(d, n) : Without(d, n)[m] = d[m]
<1>1. DOMAIN d \in SUBSET Names /\ d \in [DOMAIN d -> Profile]
  BY DocElim
<1>2. Without(d, n) \in [DOMAIN d \ {n} -> Profile]
  BY <1>1 DEF Without, Restrict
<1>3. DOMAIN d \ {n} \in SUBSET Names
  BY <1>1
<1>4. Without(d, n) \in Docs(Profile)
  BY <1>2, <1>3, DocIntro
<1> QED BY <1>4 DEF Without, Restrict

\* What a command has read of the layers so far.
LEMMA GotElim ==
  ASSUME NEW g \in Gots
  PROVE  DOMAIN g \in SUBSET Layers /\ \A l \in DOMAIN g : g[l] \in Contents
BY DEF Gots

LEMMA GotSpread ==
  ASSUME NEW g \in Gots, NEW l \in Layers, NEW d \in Contents
  PROVE  Spread(g, l, d) \in Gots
<1>1. DOMAIN g \in SUBSET Layers /\ \A k \in DOMAIN g : g[k] \in Contents
  BY GotElim
<1>2. Spread(g, l, d) \in [DOMAIN g \cup {l} -> Contents] /\ DOMAIN g \cup {l} \in SUBSET Layers
  BY <1>1 DEF Spread
<1> QED BY <1>2 DEF Gots

LEMMA NoCmdType == NoCmd \in Cmds
<1>1. Empty \in Docs(Storable)
  BY EmptyDoc
<1>2. Empty = [l \in {} |-> l] /\ {} \in SUBSET Layers
  BY DEF Empty
<1>3. Empty \in Gots
  BY <1>2 DEF Gots
<1> QED BY <1>1, <1>3 DEF NoCmd, Cmds, Layers, None

\* What the types say of the commands follows from their being records.
LEMMA CmdMeaning ==
  ASSUME NEW f \in [Sessions -> Cmds]
  PROVE  \A s \in Sessions :
          /\ f[s].step \in {"idle", "load", "confirm", "rename", "reload"}
          /\ f[s].op \in {"none", "configure", "add"}
          /\ f[s].scope \in Layers /\ f[s].name \in Names \cup {None}
          /\ IsDoc(f[s].doc, Raw)
          /\ DOMAIN f[s].got \subseteq Layers
          /\ \A l \in DOMAIN f[s].got : IsContent(f[s].got[l])
<1> SUFFICES ASSUME NEW s \in Sessions
             PROVE  /\ f[s].step \in {"idle", "load", "confirm", "rename", "reload"}
                    /\ f[s].op \in {"none", "configure", "add"}
                    /\ f[s].scope \in Layers /\ f[s].name \in Names \cup {None}
                    /\ IsDoc(f[s].doc, Raw)
                    /\ DOMAIN f[s].got \subseteq Layers
                    /\ \A l \in DOMAIN f[s].got : IsContent(f[s].got[l])
  OBVIOUS
<1>1. f[s] \in Cmds /\ f[s].got \in Gots /\ f[s].doc \in Docs(Storable)
  BY DEF Cmds
<1>2. DOMAIN f[s].got \subseteq Layers /\ \A l \in DOMAIN f[s].got : f[s].got[l] \in Contents
  BY <1>1, GotElim
<1>3. IsDoc(f[s].doc, Storable) /\ Storable \subseteq Raw
  BY <1>1, DocMeaning DEF Storable
<1>4. IsDoc(f[s].doc, Raw)
  BY <1>3 DEF IsDoc
<1>5. \A l \in DOMAIN f[s].got : IsContent(f[s].got[l])
  BY <1>2, ContentMeaning
<1> QED BY <1>1, <1>2, <1>4, <1>5 DEF Cmds

\* Likewise of the layers and of what the sessions hold.
LEMMA StateMeaning ==
  /\ \A f \in [Layers -> Contents] : \A l \in Layers : IsContent(f[l])
  /\ \A g \in [Sessions -> Docs(Profile)] : \A s \in Sessions : IsDoc(g[s], Profile)
BY ContentMeaning, DocMeaning

\* The first state.
LEMMA CInitInv == ConfigInit => CInv
<1> SUFFICES ASSUME ConfigInit PROVE CInv
  OBVIOUS
<1>1. cmd \in [Sessions -> Cmds]
  BY NoCmdType DEF ConfigInit
<1>2. files \in [Layers -> Contents] /\ \A l \in Layers : files[l].kind # "partial"
  <2>1. CASE files \in [Layers -> FirstFiles]
    BY <2>1, ConfigAssumption, ContentMeaning
  <2>2. CASE \E r \in HandWritten :
               files = [l \in Layers |-> IF l = "global" THEN Whole([n \in {ConfigureName} |-> r])
                                         ELSE NoFile]
    <3>1. PICK r \in Raw : files = [l \in Layers |-> IF l = "global" THEN Whole([n \in {ConfigureName} |-> r])
                                                     ELSE NoFile]
      BY <2>2, ConfigAssumption
    <3>2. [n \in {ConfigureName} |-> r] \in Docs(Raw) /\ Empty \in Docs(Raw)
      BY ConfigAssumption, DocIntro, EmptyDoc
    <3>3. Whole([n \in {ConfigureName} |-> r]) \in Contents /\ NoFile \in Contents
      BY <3>2 DEF Whole, NoFile, Contents
    <3> QED BY <3>1, <3>3 DEF Whole, NoFile
  <2> QED BY <2>1, <2>2 DEF ConfigInit
<1>3. Empty \in Docs(Profile)
  BY EmptyDoc
<1>4. live \in [Sessions -> Docs(Profile)] /\ registered \in [Sessions -> Docs(Profile)]
  BY <1>3 DEF ConfigInit
<1>5. spent \in 0..MaxCommands
  BY ConfigAssumption DEF ConfigInit
<1>6. errors \in [Sessions -> Complaints]
  BY DEF ConfigInit, Complaints
<1> QED BY <1>1, <1>2, <1>4, <1>5, <1>6, CmdMeaning, StateMeaning
        DEF ConfigInit, CInv, ConfigTypeOK, FilesWhole, None

\* Every step keeps the invariant.
LEMMA CStepInv == CInv /\ [ConfigNext]_cvars => CInv'
<1> SUFFICES ASSUME CInv, [ConfigNext]_cvars PROVE CInv'
  OBVIOUS
<1>0. /\ ConfigTypeOK /\ cmd \in [Sessions -> Cmds] /\ FilesWhole
      /\ files \in [Layers -> Contents] /\ spent \in 0..MaxCommands /\ MaxCommands \in Nat
      /\ live \in [Sessions -> Docs(Profile)] /\ registered \in [Sessions -> Docs(Profile)]
      /\ errors \in [Sessions -> Complaints]
      /\ \A s \in Sessions : cmd[s] \in Cmds /\ live[s] \in Docs(Profile) /\ registered[s] \in Docs(Profile)
  BY ConfigAssumption DEF CInv, ConfigTypeOK
\* What remains to be shown once the commands are records.
<1>a. ASSUME cmd' \in [Sessions -> Cmds], UNCHANGED files, temps' \subseteq Sessions,
             up' \subseteq Sessions, alias' \subseteq up', live' \in [Sessions -> Docs(Profile)],
             registered' \in [Sessions -> Docs(Profile)], errors' \in [Sessions -> Complaints],
             default' \in [Sessions -> Names \cup {None}], spent' \in 0..MaxCommands
      PROVE  CInv'
  <2>1. FilesWhole' /\ files' \in [Layers -> Contents]
    BY <1>0, <1>a DEF FilesWhole
  <2>2. /\ \A l \in Layers : IsContent(files'[l])
        /\ \A s \in Sessions : IsDoc(live'[s], Profile) /\ IsDoc(registered'[s], Profile)
    BY <1>a, <2>1, StateMeaning
  <2>3. ConfigTypeOK'
    BY <1>a, <2>2, CmdMeaning DEF ConfigTypeOK
  <2> QED BY <1>a, <2>1, <2>3 DEF CInv
<1>b. ASSUME UNCHANGED <<files, session>>, cmd' \in [Sessions -> Cmds],
             temps' \subseteq Sessions, spent' \in 0..MaxCommands
      PROVE  CInv'
  BY <1>0, <1>a, <1>b DEF session, ConfigTypeOK
<1>1. ASSUME NEW s \in Sessions, Load(s)
      PROVE  CInv'
  <2>1. [NoCmd EXCEPT !.step = "load"] \in Cmds
    BY NoCmdType DEF Cmds
  <2>2. cmd' \in [Sessions -> Cmds]
    BY <1>0, <1>1, <2>1 DEF Load
  <2> QED BY <1>0, <1>1, <1>a, <2>2 DEF Load, Spend, ConfigTypeOK
<1>2. ASSUME NEW s \in Sessions, NEW l \in Layers, NEW p \in Guided,
             Configure(s, l, p) \/ \E n \in Names : ProfileAdd(s, l, n, p)
      PROVE  CInv'
  <2>1. p \in Storable /\ ConfigureName \in Names
    BY ConfigAssumption, GuidedStorable
  <2>2. ASSUME NEW d \in Docs(Storable), NEW op \in {"configure", "add"}, NEW n \in Names
        PROVE  [NoCmd EXCEPT !.step = "confirm", !.op = op, !.scope = l, !.name = n, !.doc = d] \in Cmds
    BY NoCmdType DEF Cmds
  <2>3. \A n \in Names : /\ Spread(Empty, n, p) \in Docs(Storable)
                         /\ Spread(Parse(files[l]), n, p) \in Docs(Storable)
    BY <1>0, <2>1, EmptyDoc, ParseDoc, SpreadDoc
  <2>4. PICK r \in Cmds : cmd' = [cmd EXCEPT ![s] = r]
    <3>1. CASE Configure(s, l, p)
      <4>1. [NoCmd EXCEPT !.step = "confirm", !.op = "configure", !.scope = l, !.name = ConfigureName,
                          !.doc = Spread(Empty, ConfigureName, p)] \in Cmds
        BY <2>1, <2>2, <2>3
      <4> QED BY <3>1, <4>1 DEF Configure
    <3>2. ASSUME NEW n \in Names, ProfileAdd(s, l, n, p)
          PROVE  \E r \in Cmds : cmd' = [cmd EXCEPT ![s] = r]
      <4>1. [NoCmd EXCEPT !.step = "confirm", !.op = "add", !.scope = l, !.name = n,
                          !.doc = Spread(Parse(files[l]), n, p)] \in Cmds
        BY <2>2, <2>3
      <4> QED BY <3>2, <4>1 DEF ProfileAdd
    <3> QED BY <1>2, <3>1, <3>2
  <2>5. cmd' \in [Sessions -> Cmds]
    BY <1>0, <2>4
  <2>6. UNCHANGED <<files, session>> /\ temps' \subseteq Sessions /\ spent' \in 0..MaxCommands
    <3>1. CASE Configure(s, l, p)
      BY <1>0, <3>1 DEF Configure, Idle, Spend, ConfigTypeOK
    <3>2. ASSUME NEW n \in Names, ProfileAdd(s, l, n, p)
          PROVE  UNCHANGED <<files, session>> /\ temps' \subseteq Sessions /\ spent' \in 0..MaxCommands
      BY <1>0, <3>2 DEF ProfileAdd, Idle, Spend, ConfigTypeOK
    <3> QED BY <1>2, <3>1, <3>2
  <2> QED BY <1>b, <2>5, <2>6
<1>3. ASSUME NEW s \in Sessions, Declined(s) \/ ReloadFails(s) \/ WriteFails(s)
      PROVE  CInv'
  <2>1. cmd' \in [Sessions -> Cmds]
    BY <1>0, <1>3, NoCmdType DEF Declined, ReloadFails, WriteFails
  <2> QED BY <1>0, <1>3, <1>b, <2>1 DEF Declined, ReloadFails, WriteFails, ConfigTypeOK
<1>4. ASSUME NEW s \in Sessions, Confirmed(s)
      PROVE  CInv'
  <2>1. [cmd[s] EXCEPT !.step = "rename"] \in Cmds
    BY <1>0 DEF Cmds
  <2>2. cmd' \in [Sessions -> Cmds]
    BY <1>0, <1>4, <2>1 DEF Confirmed, Go
  <2> QED BY <1>0, <1>4, <1>b, <2>2 DEF Confirmed, ConfigTypeOK
<1>5. ASSUME NEW s \in Sessions, Written(s)
      PROVE  CInv'
  <2>1. [cmd[s] EXCEPT !.step = "reload"] \in Cmds
    BY <1>0 DEF Cmds
  <2>2. cmd' \in [Sessions -> Cmds]
    BY <1>0, <1>5, <2>1 DEF Written, Go
  <2>3. cmd[s].doc \in Docs(Storable) /\ cmd[s].scope \in Layers
    BY <1>0 DEF Cmds
  <2>4. Whole(Serialize(cmd[s].doc)) \in Contents /\ Whole(Serialize(cmd[s].doc)).kind = "doc"
    BY <2>3, SerializeDoc
  <2>5. /\ files' \in [Layers -> Contents]
        /\ \A l \in Layers : files'[l].kind = "doc" \/ files'[l] = files[l]
    BY <1>0, <1>5, <2>3, <2>4 DEF Written
  <2>6. FilesWhole'
    BY <1>0, <2>5 DEF FilesWhole
  <2>7. ConfigTypeOK'
    BY <1>0, <1>5, <2>2, <2>5, CmdMeaning, StateMeaning DEF Written, session, ConfigTypeOK
  <2> QED BY <1>0, <1>5, <2>2, <2>5, <2>6, <2>7 DEF CInv, Written, session
<1>6. ASSUME NEW s \in Sessions, NEW l \in Layers, ReadLayer(s, l)
      PROVE  CInv'
  <2>1. cmd[s].got \in Gots /\ files[l] \in Contents
    BY <1>0 DEF Cmds
  <2>2. Spread(cmd[s].got, l, files[l]) \in Gots
    BY <2>1, GotSpread
  <2>3. [cmd[s] EXCEPT !.got = Spread(cmd[s].got, l, files[l])] \in Cmds
    BY <1>0, <2>2 DEF Cmds
  <2>4. cmd' \in [Sessions -> Cmds]
    BY <1>0, <1>6, <2>3 DEF ReadLayer
  <2> QED BY <1>0, <1>6, <1>b, <2>4 DEF ReadLayer, ConfigTypeOK
<1>7. ASSUME NEW s \in Sessions, BothRead(s)
      PROVE  Merged(s) \in Docs(Profile)
  <2>1. cmd[s].got \in Gots
    BY <1>0 DEF Cmds
  <2>2. cmd[s].got["global"] \in Contents /\ cmd[s].got["project"] \in Contents
    BY <1>7, <2>1, GotElim DEF BothRead, Layers
  <2> QED BY <2>2, ParseDoc, MergeDoc DEF Merged
<1>e. ASSUME NEW s \in Sessions, BothRead(s)
      PROVE  ReadErrors(s) \in Complaints
  <2>1. cmd[s].got \in Gots
    BY <1>0 DEF Cmds
  <2>2. \A l \in Layers : cmd[s].got[l] \in Contents
    BY <1>e, <2>1, GotElim DEF BothRead
  <2>3. \A l \in Layers : Retained(cmd[s].got[l], l) \in Complaints
    BY <2>2, RetainedType
  <2> QED BY <2>3 DEF ReadErrors, Complaints
<1>8. ASSUME NEW s \in Sessions, Loaded(s)
      PROVE  CInv'
  <2>1. PICK m \in (IF BothRead(s) THEN {Merged(s)} ELSE {Empty}) :
          /\ live' = [live EXCEPT ![s] = m]
          /\ registered' = [registered EXCEPT ![s] = m]
    BY <1>8 DEF Loaded
  <2>2. m \in Docs(Profile)
    BY <1>7, EmptyDoc
  <2>3. cmd' \in [Sessions -> Cmds]
    BY <1>0, <1>8, NoCmdType DEF Loaded
  <2>4. errors' \in [Sessions -> Complaints]
    <3>1. {[source |-> "config", entry |-> Document, field |-> Document]} \in Complaints
      BY DEF Complaints
    <3> QED BY <1>0, <1>8, <1>e, <3>1 DEF Loaded
  <2> QED BY <1>0, <1>8, <1>a, <2>1, <2>2, <2>3, <2>4 DEF Loaded, At, ConfigTypeOK
<1>9. ASSUME NEW s \in Sessions, Reloaded(s)
      PROVE  CInv'
  <2>1. cmd' \in [Sessions -> Cmds]
    BY <1>0, <1>9, NoCmdType DEF Reloaded
  <2>2. errors' \in [Sessions -> Complaints]
    BY <1>0, <1>9, <1>e DEF Reloaded
  <2> QED BY <1>0, <1>9, <1>7, <1>a, <2>1, <2>2 DEF Reloaded, ConfigTypeOK
<1>10. ASSUME NEW s \in Sessions, NEW n \in Names, SelectDefault(s, n)
       PROVE  CInv'
  BY <1>0, <1>10, <1>a DEF SelectDefault, Idle, Spend, ConfigTypeOK
<1>11. ASSUME NEW s \in Sessions, NEW n \in Names, RemoveProfile(s, n)
       PROVE  CInv'
  <2>1. Without(live[s], n) \in Docs(Profile) /\ Without(registered[s], n) \in Docs(Profile)
    BY <1>0, WithoutDoc
  <2> QED BY <1>0, <1>11, <1>a, <2>1 DEF RemoveProfile, Idle, Spend, ConfigTypeOK
<1>12. ASSUME NEW s \in Sessions, Exit(s)
       PROVE  CInv'
  <2>1. cmd' \in [Sessions -> Cmds] /\ Empty \in Docs(Profile)
    BY <1>0, <1>12, NoCmdType, EmptyDoc DEF Exit
  <2>2. errors' \in [Sessions -> Complaints]
    BY <1>0, <1>12 DEF Exit, Complaints
  <2> QED BY <1>0, <1>12, <1>a, <2>1, <2>2 DEF Exit, ConfigTypeOK
<1>14. ASSUME NEW s \in Sessions, Shutdown(s)
       PROVE  CInv'
  BY <1>0, <1>14, <1>a DEF Shutdown, ConfigTypeOK
<1>13. CASE UNCHANGED cvars
  BY <1>0, <1>13, <1>b DEF cvars, ConfigTypeOK
<1> QED
  BY <1>1, <1>2, <1>3, <1>4, <1>5, <1>6, <1>8, <1>9, <1>10, <1>11, <1>12, <1>13, <1>14
     DEF ConfigNext, Command, Step

-----------------------------------------------------------------------------
\* The invariant holds in every reachable state.
THEOREM ConfigInvariance == ConfigSpec => []CInv
BY CInitInv, CStepInv, PTL DEF ConfigSpec

\* Every profile a session holds is one its dispatcher can rely on, whatever
\* the layers say.
THEOREM ConfigTypeCorrect == ConfigSpec => []ConfigTypeOK
BY ConfigInvariance, PTL DEF CInv

\* No reader finds a layer cut short, however many sessions write and wherever
\* they stop.
THEOREM NeverCutShort == ConfigSpec => []FilesWhole
BY ConfigInvariance, PTL DEF CInv

\* The map the dispatcher reads only loses profiles while its session runs.
THEOREM ModelsOnlyGo == ConfigSpec => RegistrationOnlyShrinks
<1> DEFINE Shrinks(s) ==
      /\ DOMAIN registered'[s] \subseteq DOMAIN registered[s]
      /\ \A n \in DOMAIN registered'[s] : registered'[s][n] = registered[s][n]
<1>1. CInv /\ [ConfigNext]_cvars =>
        [\A s \in Sessions : s \in up /\ cmd[s].step # "load" => Shrinks(s)]_cvars
  <2> SUFFICES ASSUME CInv, ConfigNext, NEW s \in Sessions, s \in up, cmd[s].step # "load"
               PROVE  Shrinks(s)
    OBVIOUS
  <2>1. registered \in [Sessions -> Docs(Profile)] /\ registered[s] \in Docs(Profile)
    BY DEF CInv
  <2>2. CASE registered'[s] = registered[s]
    BY <2>2
  <2>3. ASSUME NEW t \in Sessions, NEW n \in Names, RemoveProfile(t, n)
        PROVE  Shrinks(s)
    <3>1. registered'[s] = registered[s] \/ registered'[s] = Without(registered[s], n)
      BY <2>1, <2>3 DEF RemoveProfile
    <3> QED BY <2>1, <2>2, <3>1, WithoutDoc
  <2>4. ASSUME NEW t \in Sessions, Exit(t)
        PROVE  Shrinks(s)
    <3>1. registered'[s] = registered[s] \/ registered'[s] = Empty
      BY <2>1, <2>4 DEF Exit
    <3> QED BY <2>2, <3>1, EmptyDoc
  <2>5. ASSUME NEW t \in Sessions, Loaded(t)
        PROVE  Shrinks(s)
    <3>1. t # s
      BY <2>5 DEF Loaded, At
    <3>2. registered'[s] = registered[s]
      BY <2>1, <2>5, <3>1 DEF Loaded
    <3> QED BY <2>2, <3>2
  <2>6. CASE UNCHANGED registered
    BY <2>2, <2>6
  <2> QED
    BY <2>3, <2>4, <2>5, <2>6
       DEF ConfigNext, Command, Step, Load, Configure, ProfileAdd, Declined, Confirmed, Written,
           WriteFails, ReadLayer, Reloaded, ReloadFails, SelectDefault, Shutdown, session
<1> QED BY <1>1, ConfigInvariance, PTL DEF ConfigSpec, RegistrationOnlyShrinks

\* A layer's entry is kept as it is parsed, and no other, if and only if no
\* retained error names it.
LEMMA KeptOrTold ==
  ASSUME NEW c \in Contents, NEW l \in Layers
  PROVE  /\ DOMAIN Parse(c) = {n \in DOMAIN c.doc : ~\E e \in Retained(c, l) : e.source = l /\ e.entry = n}
         /\ \A n \in DOMAIN Parse(c) : Parse(c)[n] = Parsed(c.doc[n])
         /\ c.kind = "malformed" => \E e \in Retained(c, l) : e.source = l /\ e.entry = Document
         /\ \A e \in Retained(c, l) : e.source = l
<1> DEFINE Told(n) == \E e \in Retained(c, l) : e.source = l /\ e.entry = n
<1>1. CASE c.kind = "doc"
  <2>1. \A n \in DOMAIN c.doc : c.doc[n] \in Raw
    BY EmptyDoc, DocElim DEF Contents
  <2>2. \A n \in DOMAIN c.doc : Told(n) <=> Errors(c.doc[n]) # {}
    BY <1>1, RetainedOf
  <2>3. \A n \in DOMAIN c.doc : Told(n) <=> Excluded(c.doc[n])
    BY <2>1, <2>2, ExcludedReported
  <2>4. Parse(c) = [n \in Accepted(c) |-> Parsed(c.doc[n])]
    BY <1>1 DEF Parse
  <2>5. \A e \in Retained(c, l) : e.source = l
    BY <1>1 DEF Retained
  <2> QED BY <1>1, <2>3, <2>4, <2>5 DEF Accepted
<1>2. CASE c.kind # "doc"
  <2>1. Parse(c) = Empty /\ c.doc = Empty /\ DOMAIN Empty = {}
    BY <1>2, EmptyDoc DEF Parse, Contents
  <2>2. c.kind = "malformed" => [source |-> l, entry |-> Document, field |-> Document] \in Retained(c, l)
    BY DEF Retained
  <2>3. \A e \in Retained(c, l) : e.source = l
    BY <2>1 DEF Retained
  <2> QED BY <2>1, <2>2, <2>3
<1> QED BY <1>1, <1>2

\* What a session has retained once it has read both layers, and nothing that
\* was in either is neither kept nor named.
THEOREM NothingDroppedSilently == ConfigSpec => RejectedAreReported
<1> DEFINE Honest(s) ==
      /\ DOMAIN live'[s] = Unnamed(s, "global") \cup Unnamed(s, "project")
      /\ \A n \in DOMAIN live'[s] :
            live'[s][n] = Parsed(cmd[s].got[FromLayer(s, n)].doc[n])
      /\ \A l \in Layers : cmd[s].got[l].kind = "malformed" => Complains(s, l, Document)
<1>1. CInv /\ [ConfigNext]_cvars => [\A s \in Sessions : Finishes(s) => Honest(s)]_cvars
  <2> SUFFICES ASSUME CInv, ConfigNext, NEW s \in Sessions, Finishes(s)
               PROVE  Honest(s)
    OBVIOUS
  <2>1. /\ cmd \in [Sessions -> Cmds] /\ cmd[s] \in Cmds /\ cmd[s].got \in Gots
        /\ live \in [Sessions -> Docs(Profile)] /\ cmd[s].step \in {"load", "reload"} /\ BothRead(s)
    BY DEF CInv, Cmds, Finishes
  <2>2. live' = [live EXCEPT ![s] = Merged(s)] /\ errors' = [errors EXCEPT ![s] = ReadErrors(s)]
    <3>1. PICK t \in Sessions : Command(t) \/ Step(t)
      BY DEF ConfigNext
    <3>2. cmd' # cmd
      BY <2>1 DEF Finishes
    <3>3. t = s
      <4>1. \E r : cmd' = [cmd EXCEPT ![t] = r]
        BY <3>1, <3>2 DEF Command, Step, Load, Configure, ProfileAdd, Declined, Confirmed, Written,
              WriteFails, ReadLayer, Loaded, Reloaded, ReloadFails, SelectDefault, RemoveProfile,
              Shutdown, Exit, Go
      <4> QED BY <2>1, <4>1 DEF Finishes
    <3>4. ~Exit(s)
      BY DEF Finishes, Exit
    <3>5. ASSUME NEW l \in Layers, ReadLayer(s, l) PROVE FALSE
      BY <2>1, <3>5 DEF ReadLayer, Finishes
    <3>6. Loaded(s) \/ Reloaded(s)
      BY <2>1, <3>1, <3>2, <3>3, <3>4, <3>5 DEF Command, Step, Load, Configure, ProfileAdd, Declined,
            Confirmed, Written, WriteFails, ReloadFails, SelectDefault, RemoveProfile, Shutdown, At, Idle,
            Finishes
    <3>7. errors' = [errors EXCEPT ![s] = ReadErrors(s)]
      BY <2>1, <3>6 DEF Loaded, Reloaded
    <3>8. live' = [live EXCEPT ![s] = Merged(s)]
      BY <2>1, <3>6 DEF Loaded, Reloaded
    <3> QED BY <3>7, <3>8
  <2>3. \A l \in Layers : cmd[s].got[l] \in Contents
    BY <2>1, GotElim DEF BothRead
  <2>4. /\ live'[s] = Merge(Parse(cmd[s].got["global"]), Parse(cmd[s].got["project"]))
        /\ errors'[s] = UNION {Retained(cmd[s].got[k], k) : k \in Layers}
    BY <2>1, <2>2 DEF CInv, Merged, ReadErrors
  <2>5. ASSUME NEW l \in Layers, NEW n
        PROVE  Complains(s, l, n) <=> \E e \in Retained(cmd[s].got[l], l) : e.source = l /\ e.entry = n
    <3>1. \A k \in Layers : \A e \in Retained(cmd[s].got[k], k) : e.source = k
      BY <2>3, KeptOrTold
    <3> QED BY <2>4, <3>1 DEF Complains
  <2>6. \A l \in Layers :
          /\ DOMAIN Parse(cmd[s].got[l]) = Unnamed(s, l)
          /\ \A n \in DOMAIN Parse(cmd[s].got[l]) : Parse(cmd[s].got[l])[n] = Parsed(cmd[s].got[l].doc[n])
          /\ cmd[s].got[l].kind = "malformed" => Complains(s, l, Document)
    <3> TAKE l \in Layers
    <3> DEFINE c == cmd[s].got[l]
               Told(n) == \E e \in Retained(c, l) : e.source = l /\ e.entry = n
    <3>1. c \in Contents /\ \A n : Complains(s, l, n) <=> Told(n)
      BY <2>3, <2>5
    <3>2. DOMAIN Parse(c) = {n \in DOMAIN c.doc : ~Told(n)}
      BY <3>1, KeptOrTold
    <3>3. \A n \in DOMAIN Parse(c) : Parse(c)[n] = Parsed(c.doc[n])
      BY <3>1, KeptOrTold
    <3>4. c.kind = "malformed" => Told(Document)
      BY <3>1, KeptOrTold
    <3>5. Unnamed(s, l) = {n \in DOMAIN c.doc : ~Complains(s, l, n)}
      BY DEF Unnamed
    <3> HIDE DEF c, Told
    <3>6. DOMAIN Parse(c) = Unnamed(s, l)
      BY <3>1, <3>2, <3>5
    <3> QED BY <3>1, <3>3, <3>4, <3>6 DEF c
  <2> QED BY <2>4, <2>6 DEF Merge, FromLayer, Layers
<1> QED BY <1>1, ConfigInvariance, PTL DEF ConfigSpec, RejectedAreReported

\* Rewriting a layer loses no profile that is not a pod and has a URL, and none
\* of its fields but the allowlist.
THEOREM LittleIsLost == ConfigSpec => RewriteKeeps
<1> DEFINE Keeps(s) == At(s, "rename") /\ cmd'[s].step = "reload" =>
      \A n \in DOMAIN cmd[s].doc : Survives(cmd[s].doc[n]) =>
         /\ n \in DOMAIN Parse(files'[cmd[s].scope])
         /\ \A f \in Paths \ {"request.toolAllowlist"} :
               Parse(files'[cmd[s].scope])[n][f] = cmd[s].doc[n][f]
<1>1. CInv /\ [ConfigNext]_cvars => [\A s \in Sessions : Keeps(s)]_cvars
  <2> SUFFICES ASSUME CInv, ConfigNext, NEW s \in Sessions, At(s, "rename"), cmd'[s].step = "reload",
                      NEW n \in DOMAIN cmd[s].doc, Survives(cmd[s].doc[n])
               PROVE  /\ n \in DOMAIN Parse(files'[cmd[s].scope])
                      /\ \A f \in Paths \ {"request.toolAllowlist"} :
                            Parse(files'[cmd[s].scope])[n][f] = cmd[s].doc[n][f]
    OBVIOUS
  <2>1. /\ cmd \in [Sessions -> Cmds] /\ cmd[s].doc \in Docs(Storable) /\ cmd[s].scope \in Layers
        /\ files \in [Layers -> Contents] /\ cmd[s].step = "rename"
    BY DEF CInv, Cmds, At
  <2>2. Written(s)
    <3>1. PICK t \in Sessions : Command(t) \/ Step(t)
      BY DEF ConfigNext
    <3>2. cmd' # cmd
      BY <2>1
    <3>3. t = s
      <4>1. \E r : cmd' = [cmd EXCEPT ![t] = r]
        BY <3>1, <3>2 DEF Command, Step, Load, Configure, ProfileAdd, Declined, Confirmed, Written,
              WriteFails, ReadLayer, Loaded, Reloaded, ReloadFails, SelectDefault, RemoveProfile, Shutdown, Exit, Go
      <4> QED BY <2>1, <4>1
    <3>4. Written(s) \/ WriteFails(s) \/ Exit(s)
      BY <2>1, <3>1, <3>3 DEF Command, Step, Load, Configure, ProfileAdd, Declined, Confirmed,
            ReadLayer, Loaded, Reloaded, ReloadFails, SelectDefault, RemoveProfile, Shutdown, At, Idle
    <3>5. ~WriteFails(s) /\ ~Exit(s)
      BY <2>1 DEF WriteFails, Exit, NoCmd
    <3> QED BY <3>4, <3>5
  <2>3. Parse(files'[cmd[s].scope]) = [m \in {k \in DOMAIN cmd[s].doc : ~Excluded(Serialized(cmd[s].doc[k]))}
                                         |-> Parsed(Serialized(cmd[s].doc[m]))]
    BY <2>1, <2>2 DEF Written, Whole, Serialize, Parse, Accepted
  <2>4. cmd[s].doc[n] \in Storable
    BY <2>1, DocElim
  <2> QED BY <2>3, <2>4 DEF Storable
<1> QED BY <1>1, ConfigInvariance, PTL DEF ConfigSpec, RewriteKeeps
=============================================================================
