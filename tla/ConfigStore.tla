----------------------------- MODULE ConfigStore -----------------------------
(***************************************************************************)
(* The profile configuration: two YAML layers on disk (the agent directory *)
(* and the project), merged into the memory of every OMP session that has  *)
(* loaded the extension, and changed by `/runpod configure`, `profile add`,*)
(* `profile rm` and `profile <name>`.  From src/src/config.ts, the command *)
(* flows of commands.ts and their runtime in index.ts.                     *)
(*                                                                         *)
(* Sessions are separate processes that share the files.  One command runs *)
(* at a time in a session; each action is the code between two awaits, so  *)
(* other sessions act while a dialog is open or a write is under way.      *)
(***************************************************************************)
EXTENDS ProfileSchema, FiniteSets, Functions

CONSTANTS
    Sessions,       \* OMP processes
    Names,          \* profile names
    Guided,         \* what the guided flow builds of the answers it gets
    FirstFiles,     \* contents the layers may have at first
    HandWritten,    \* entries tried one at a time, each by a session of its own
    MaxCommands     \* bound: commands and restarts, over all sessions

Layers == {"global", "project"}

\* buildProfile, of the answers to askConfigValues: request, policy and model
\* are fixed, the URL is not looked at, and a pod may have none.
Built(type, url, key, port, podKey) == [f \in Paths |->
    CASE f = "endpointType" -> type
      [] f = "invokeUrl" -> url
      [] f \in {"entry", "model", "request", "request.polling", "request.queueAdapter", "policy"} ->
            "object"
      [] f \in ModelText -> "text"
      [] f \in ModelCounts -> "int"
      [] f = "model.supportsTools" -> "true"
      [] f \in ModelFlags \ {"model.supportsTools"} -> "false"
      [] f = "model.input" -> "modes"
      [] f = "apiKey" -> IF key = "absent" THEN "absent" ELSE "object"
      [] f = "apiKey.ref" -> key
      [] f = "request.queueAdapter.export" -> "absent"
      [] f = "request.toolAllowlist" -> "absent"
      [] f \in PodPaths -> IF type # "pod" THEN "absent"
                           ELSE CASE f = "pod" -> "object"
                                  [] f = "pod.id" -> "text"
                                  [] f = "pod.port" -> port
                                  [] f = "pod.inferenceApiKey" ->
                                        IF podKey = "absent" THEN "absent" ELSE "object"
                                  [] OTHER -> podKey
      [] OTHER -> Planned([x \in Paths |-> "absent"], f)]

Urls == {"url", "otherUrl", "text"}     \* whatever the user typed
Keys == {"absent", "text"}
AllGuided == {Built(t, u, k, "planned", "absent") : t \in {"queue", "load-balanced"}, u \in Urls, k \in Keys}
             \cup {Built("pod", u, k, port, pk) : u \in Urls \cup {"absent"}, k \in Keys,
                                                 port \in Integers, pk \in Keys}

Empty == <<>>
IsDoc(d, S) == DOMAIN d \in SUBSET Names /\ d \in [DOMAIN d -> S]

\* "malformed": not YAML, no object, no version 1, no profiles.  "partial": cut
\* short.
IsContent(c) == /\ c = [kind |-> c.kind, doc |-> c.doc]
                /\ c.kind \in {"absent", "malformed", "partial", "doc"}
                /\ IsDoc(c.doc, Raw)
                /\ c.kind # "doc" => c.doc = Empty
Whole(d) == [kind |-> "doc", doc |-> d]
NoFile   == [kind |-> "absent", doc |-> Empty]

\* configure has no name to go by and takes this one.
ConfigureName == "default"

ASSUME ConfigAssumption ==
    /\ Guided \subseteq AllGuided
    /\ ConfigureName \in Names
    /\ \A c \in FirstFiles : IsContent(c) /\ c.kind # "partial"
    /\ HandWritten \subseteq Raw
    /\ MaxCommands \in Nat \ {0, 1}

VARIABLES
    files,      \* the layers on disk
    temps,      \* sessions whose temp file lies beside its target
    up,         \* sessions that run
    live,       \* state.profiles
    errors,     \* state.errors: the validation errors of either layer
    registered, \* the map the provider and the tools were given
    alias,      \* sessions whose state.profiles still is that very map
    default,    \* state.defaultProfile
    cmd,        \* the command a session is in, and what it holds
    spent       \* commands and restarts so far

session == <<up, live, errors, registered, alias, default>>
cvars   == <<files, temps, session, cmd, spent>>

NoCmd == [step |-> "idle", op |-> "none", scope |-> "global", name |-> "none", doc |-> Empty, got |-> Empty]
None  == "none"
Document == "document"      \* where an error names no profile

ConfigInit ==
    /\ \/ files \in [Layers -> FirstFiles] /\ spent = 0
       \/ \E r \in HandWritten :
             /\ files = [l \in Layers |-> IF l = "global" THEN Whole([n \in {ConfigureName} |-> r])
                                         ELSE NoFile]
             /\ spent = MaxCommands - 2
    /\ temps = {}
    /\ up = {}
    /\ live = [s \in Sessions |-> Empty]
    /\ errors = [s \in Sessions |-> {}]
    /\ registered = [s \in Sessions |-> Empty]
    /\ alias = {}
    /\ default = [s \in Sessions |-> None]
    /\ cmd = [s \in Sessions |-> NoCmd]

-----------------------------------------------------------------------------
\* parseProfileDocument: excluded profiles are left out, a rejected document
\* has none.
Accepted(c)      == {n \in DOMAIN c.doc : ~Excluded(c.doc[n])}
KeepsAll(c)      == [n \in DOMAIN c.doc |-> Parsed(c.doc[n])]
Parse(c)         == IF c.kind # "doc" THEN Empty
                    ELSE [n \in Accepted(c) |-> Parsed(c.doc[n])]
Retained(c, l)   == IF c.kind \in {"malformed", "partial"}
                    THEN {[source |-> l, entry |-> Document, field |-> Document]}
                    ELSE UNION {{[source |-> l, entry |-> n, field |-> f] : f \in Errors(c.doc[n])} :
                                n \in DOMAIN c.doc}

\* serializeDocument.
Serialize(d) == [n \in DOMAIN d |-> Serialized(d[n])]

\* mergeProfileDocuments: the project replaces same-named global profiles.
Merge(g, p) ==
    [n \in DOMAIN g \cup DOMAIN p |-> IF n \in DOMAIN p THEN p[n] ELSE g[n]]

\* { ...d, [n]: p }
Spread(d, n, p) == [m \in DOMAIN d \cup {n} |-> IF m = n THEN p ELSE d[m]]

Idle(s)     == s \in up /\ cmd[s].step = "idle" /\ spent < MaxCommands
Spend       == spent' = spent + 1
At(s, step) == s \in up /\ cmd[s].step = step
Go(s, step) == cmd' = [cmd EXCEPT ![s].step = step]

-----------------------------------------------------------------------------
\* runpodExtension begins: a fresh process, the two layers to be read.
Load(s) ==
    /\ s \notin up /\ spent < MaxCommands
    /\ up' = up \cup {s}
    /\ default' = [default EXCEPT ![s] = None]
    /\ cmd' = [cmd EXCEPT ![s] = [NoCmd EXCEPT !.step = "load"]]
    /\ Spend
    /\ UNCHANGED <<files, temps, live, errors, registered, alias>>

\* runConfigure up to its confirmation: the document has the new profile only.
Configure(s, l, p) ==
    /\ Idle(s)
    /\ cmd' = [cmd EXCEPT ![s] = [NoCmd EXCEPT !.step = "confirm", !.op = "configure",
                                  !.scope = l, !.name = ConfigureName,
                                  !.doc = Spread(Empty, ConfigureName, p)]]
    /\ Spend
    /\ UNCHANGED <<files, temps, session>>

\* runProfileAdd up to its confirmation: the document is the layer as it is
\* read now, with the new profile.
ProfileAdd(s, l, n, p) ==
    /\ Idle(s)
    /\ cmd' = [cmd EXCEPT ![s] = [NoCmd EXCEPT !.step = "confirm", !.op = "add", !.scope = l,
                                  !.name = n, !.doc = Spread(Parse(files[l]), n, p)]]
    /\ Spend
    /\ UNCHANGED <<files, temps, session>>

\* The dialog is declined, or there is none to confirm with.
Declined(s) ==
    /\ At(s, "confirm")
    /\ cmd' = [cmd EXCEPT ![s] = NoCmd]
    /\ UNCHANGED <<files, temps, session, spent>>

WriteInPlace(s) ==
    /\ At(s, "confirm")
    /\ files' = [files EXCEPT ![cmd[s].scope] = [kind |-> "partial", doc |-> Empty]]
    /\ Go(s, "rename")
    /\ UNCHANGED <<temps, session, spent>>
\* writeProfileDocument starts on a temp file of its own.
Confirmed(s) ==
    /\ At(s, "confirm")
    /\ temps' = temps \cup {s}
    /\ Go(s, "rename")
    /\ UNCHANGED <<files, session, spent>>

\* The rename, then `finally` removes what is left of the temp file.
Written(s) ==
    /\ At(s, "rename")
    /\ files' = [files EXCEPT ![cmd[s].scope] = Whole(Serialize(cmd[s].doc))]
    /\ temps' = temps \ {s}
    /\ Go(s, "reload")
    /\ UNCHANGED <<session, spent>>

WriteFails(s) ==
    /\ At(s, "rename")
    /\ temps' = temps \ {s}
    /\ cmd' = [cmd EXCEPT ![s] = NoCmd]
    /\ UNCHANGED <<files, session, spent>>

\* loadRunpodProfiles reads the layers in parallel: each at a moment of its own.
ReadLayer(s, l) ==
    /\ s \in up /\ cmd[s].step \in {"load", "reload"}
    /\ l \notin DOMAIN cmd[s].got
    /\ cmd' = [cmd EXCEPT ![s].got = Spread(@, l, files[l])]
    /\ UNCHANGED <<files, temps, session, spent>>

\* What they held is parsed and merged; the errors of both are retained.
BothRead(s)   == DOMAIN cmd[s].got = Layers
Merged(s)     == Merge(Parse(cmd[s].got["global"]), Parse(cmd[s].got["project"]))
GlobalErrors(s) == Retained(cmd[s].got["global"], "global")
ReadErrors(s)   == UNION {Retained(cmd[s].got[l], l) : l \in Layers}

\* The factory goes on: one map for the state, the provider and the tools.  A
\* layer that cannot be read at all leaves it without profiles.
Loaded(s) ==
    /\ At(s, "load")
    /\ \E m \in (IF BothRead(s) THEN {Merged(s)} ELSE {Empty}) :
          /\ live' = [live EXCEPT ![s] = m]
          /\ registered' = [registered EXCEPT ![s] = m]
    /\ errors' = [errors EXCEPT ![s] =
                     IF BothRead(s) THEN ReadErrors(s)
                     ELSE {[source |-> "config", entry |-> Document, field |-> Document]}]
    /\ alias' = alias \cup {s}
    /\ cmd' = [cmd EXCEPT ![s] = NoCmd]
    /\ UNCHANGED <<files, temps, up, default, spent>>

ReloadsInPlace(s) ==
    /\ At(s, "reload") /\ BothRead(s)
    /\ live' = [live EXCEPT ![s] = Merged(s)]
    /\ errors' = [errors EXCEPT ![s] = ReadErrors(s)]
    /\ registered' = [registered EXCEPT ![s] = IF s \in alias THEN Merged(s) ELSE @]
    /\ cmd' = [cmd EXCEPT ![s] = NoCmd]
    /\ UNCHANGED <<files, temps, up, alias, default, spent>>
\* reloadConfig gives the state a new map; the provider keeps the old one.
Reloaded(s) ==
    /\ At(s, "reload") /\ BothRead(s)
    /\ live' = [live EXCEPT ![s] = Merged(s)]
    /\ errors' = [errors EXCEPT ![s] = ReadErrors(s)]
    /\ alias' = alias \ {s}
    /\ cmd' = [cmd EXCEPT ![s] = NoCmd]
    /\ UNCHANGED <<files, temps, up, registered, default, spent>>

\* A layer cannot be read: the command fails, the state stays.
ReloadFails(s) ==
    /\ At(s, "reload") /\ ~BothRead(s)
    /\ cmd' = [cmd EXCEPT ![s] = NoCmd]
    /\ UNCHANGED <<files, temps, session, spent>>

-----------------------------------------------------------------------------
\* selectDefaultProfile.
SelectDefault(s, n) ==
    /\ Idle(s) /\ n \in DOMAIN live[s]
    /\ default' = [default EXCEPT ![s] = n]
    /\ Spend
    /\ UNCHANGED <<files, temps, up, live, errors, registered, alias, cmd>>

Without(f, n) == Restrict(f, DOMAIN f \ {n})

\* removeProfile, confirmed: deletes from the map, which the provider may share.
RemoveProfile(s, n) ==
    /\ Idle(s)
    /\ live' = [live EXCEPT ![s] = Without(@, n)]
    /\ registered' = [registered EXCEPT ![s] = IF s \in alias THEN Without(@, n) ELSE @]
    /\ default' = [default EXCEPT ![s] = IF @ = n THEN None ELSE @]
    /\ Spend
    /\ UNCHANGED <<files, temps, up, errors, alias, cmd>>

\* OMP shuts a session down: what the session alone chose is forgotten, the
\* profiles stay.
Shutdown(s) ==
    /\ s \in up
    /\ default' = [default EXCEPT ![s] = None]
    /\ UNCHANGED <<files, temps, up, live, errors, registered, alias, cmd, spent>>

\* The process ends, wherever it is: its memory is lost, a temp file stays.
Exit(s) ==
    /\ s \in up
    /\ up' = up \ {s}
    /\ alias' = alias \ {s}
    /\ live' = [live EXCEPT ![s] = Empty]
    /\ errors' = [errors EXCEPT ![s] = {}]
    /\ registered' = [registered EXCEPT ![s] = Empty]
    /\ default' = [default EXCEPT ![s] = None]
    /\ cmd' = [cmd EXCEPT ![s] = NoCmd]
    /\ UNCHANGED <<files, temps, spent>>

Command(s) ==
    \/ \E l \in Layers, p \in Guided :
          Configure(s, l, p) \/ \E n \in Names : ProfileAdd(s, l, n, p)
    \/ \E n \in Names : SelectDefault(s, n) \/ RemoveProfile(s, n)

Step(s) ==
    \/ Load(s) \/ Loaded(s)
    \/ Declined(s) \/ Confirmed(s) \/ Written(s) \/ WriteFails(s)
    \/ \E l \in Layers : ReadLayer(s, l)
    \/ Reloaded(s) \/ ReloadFails(s)
    \/ Shutdown(s) \/ Exit(s)

ConfigNext == \E s \in Sessions : Command(s) \/ Step(s)

ConfigSpec == ConfigInit /\ [][ConfigNext]_cvars

-----------------------------------------------------------------------------
\* Every variable has its type; in particular every profile a session holds, or
\* has registered, is one its dispatcher and transports can rely on, whatever
\* the layers said.
ConfigTypeOK ==
    /\ \A l \in Layers : IsContent(files[l])
    /\ temps \subseteq Sessions /\ up \subseteq Sessions /\ alias \subseteq up
    /\ \A s \in Sessions : IsDoc(live[s], Profile) /\ IsDoc(registered[s], Profile)
    /\ default \in [Sessions -> Names \cup {None}]
    /\ \A s \in Sessions :
          /\ cmd[s].step \in {"idle", "load", "confirm", "rename", "reload"}
          /\ cmd[s].op \in {"none", "configure", "add"}
          /\ cmd[s].scope \in Layers /\ cmd[s].name \in Names \cup {None}
          /\ IsDoc(cmd[s].doc, Raw)
          /\ DOMAIN cmd[s].got \subseteq Layers
          /\ \A l \in DOMAIN cmd[s].got : IsContent(cmd[s].got[l])
    /\ spent \in 0..MaxCommands

\* "validation errors from both sides are retained": once a session has loaded or
\* reloaded the layers, what it holds is what they said and its retained errors
\* do not name, the project's entries before the global ones; and a layer it
\* could make nothing of is named.  Whatever is missing from its profiles is
\* thus in what `/runpod doctor` shows, and nothing is in both.
Complains(s, l, n)  == \E e \in errors'[s] : e.source = l /\ e.entry = n
Unnamed(s, l)    == {n \in DOMAIN cmd[s].got[l].doc : ~Complains(s, l, n)}
FromLayer(s, n)  == IF n \in Unnamed(s, "project") THEN "project" ELSE "global"
Finishes(s)      == /\ s \in up /\ cmd[s].step \in {"load", "reload"} /\ BothRead(s)
                    /\ s \in up' /\ cmd'[s].step = "idle"
RejectedAreReported ==
    [][\A s \in Sessions : Finishes(s) =>
          /\ DOMAIN live'[s] = Unnamed(s, "global") \cup Unnamed(s, "project")
          /\ \A n \in DOMAIN live'[s] :
                live'[s][n] = Parsed(cmd[s].got[FromLayer(s, n)].doc[n])
          /\ \A l \in Layers : cmd[s].got[l].kind = "malformed" => Complains(s, l, Document)]_cvars

\* A layer is replaced as a whole: whichever session stops at whatever moment,
\* no reader finds a part of a document.
FilesWhole == \A l \in Layers : files[l].kind # "partial"

\* The provider's map never gains a profile or changes one while its session
\* runs: no configuration command makes new models live, it can only take some
\* away.  The dispatcher reads this map in the middle of a turn.
RegistrationOnlyShrinks ==
    [][\A s \in Sessions : s \in up /\ cmd[s].step # "load" =>
          /\ DOMAIN registered'[s] \subseteq DOMAIN registered[s]
          /\ \A n \in DOMAIN registered'[s] : registered'[s][n] = registered[s][n]]_cvars

\* "the result round-trips through parseProfileDocument": no profile that would
\* itself be accepted is lost by writing it.
RoundTrips ==
    [][\A s \in Sessions : At(s, "rename") /\ cmd'[s].step = "reload" =>
          \A n \in DOMAIN cmd[s].doc :
             ~Excluded(cmd[s].doc[n]) => n \in DOMAIN Parse(files'[cmd[s].scope])]_cvars

\* What does survive a rewrite of its layer: a profile that is no pod, and has a
\* URL that parses, loses its allowlist at most.
Survives(p) == ~IsPod(p) /\ p["invokeUrl"] = "url"
RewriteKeeps ==
    [][\A s \in Sessions : At(s, "rename") /\ cmd'[s].step = "reload" =>
          \A n \in DOMAIN cmd[s].doc : Survives(cmd[s].doc[n]) =>
             /\ n \in DOMAIN Parse(files'[cmd[s].scope])
             /\ \A f \in Paths \ {"request.toolAllowlist"} :
                   Parse(files'[cmd[s].scope])[n][f] = cmd[s].doc[n][f]]_cvars
=============================================================================
