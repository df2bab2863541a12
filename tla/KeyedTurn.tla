----------------------------- MODULE KeyedTurn -----------------------------
(***************************************************************************)
(* The turns of ProviderDirect with their keys: what createDefaultStream-  *)
(* Deps resolves for each candidate, what executePodTransport passes on to *)
(* the worker, and what every request bears.  The keys decide where the    *)
(* turn can go, so this layer also says when a call is refused for want of *)
(* one, which ProviderDirect leaves open.                                  *)
(*                                                                         *)
(* A pod has two keys: the account's, for the pod API that tells its       *)
(* address, and an inference token for the worker behind it.               *)
(***************************************************************************)
EXTENDS ProviderDirect, Keys

VARIABLES
    offers,    \* what the session offers besides the profiles' references
    account,   \* apiKey of the profile called
    token,     \* its pod.inferenceApiKey
    apiKey,    \* deps.apiKey of the call
    bearer     \* the authorization of the request on the wire

keys  == <<account, token, apiKey, bearer>>
keyed == <<turn, offers, keys>>

KInit ==
    /\ TInit
    /\ offers \in Offers
    /\ account = NoReference /\ token = NoReference /\ apiKey = NoKey /\ bearer = NoKey

\* The profile of the candidate in use.
Candidate == IF cand = 0 THEN Model ELSE FallbackProfiles[cand]

\* The references of a profile and the key resolved for it; only pods have an
\* inference token.
KeptKey(key) == IF apiKey = NoKey THEN key ELSE apiKey
OwnKey(key) == key
Resolves(name) ==
    /\ account' \in References(Owner(name, "apiKey"))
    /\ token' \in (IF kind' = "lb" THEN {NoReference}
                   ELSE References(Owner(name, "inferenceApiKey")))
    /\ ResolveProfileApiKey(account', offers) # Fails
    /\ apiKey' = OwnKey(ResolveProfileApiKey(account', offers))

\* executePodTransport: the worker gets the inference token or nothing.  The
\* load-balanced transport gets the key of the call.
AccountForwarded(tok) == BearerToken(tok, NoReference, offers, FALSE)
InferenceOnly(tok) == BearerToken(tok, NoReference, offers, TRUE)
WorkerBearer(k, t, key, acc) ==
    IF k = "lb" THEN BearerToken(key, acc, offers, FALSE) ELSE InferenceOnly(ResolveSecretRef(t))

\* The first request of a call, unless a static pod's token is a command or
\* there is no key to look the other pods up with.
FirstRequest ==
    LET refused == \/ kind' = "podStatic" /\ ResolveSecretRef(token') = Fails
                   \/ kind' = "podTcp" /\ apiKey' = NoKey
    IN  /\ phase' = "done" <=> refused
        /\ bearer' = IF refused THEN NoKey
                     ELSE IF kind' = "podTcp" THEN apiKey'
                     ELSE WorkerBearer(kind', token', apiKey', account')

\* The primary's key is resolved once for all its attempts, a fallback's anew.
Dispatches ==
    \/ PrimaryKeyResolves /\ BeginCall /\ Resolves(Model) /\ FirstRequest
    \/ CandidateKeyResolves /\ BeginCall /\ Resolves(Candidate) /\ FirstRequest
    \/ /\ BackoffElapses /\ pc' = "transport" /\ BeginCall
       /\ UNCHANGED <<account, token, apiKey>> /\ FirstRequest
    \/ BackoffElapses /\ pc' # "transport" /\ UNCHANGED <<direct, keys>>

\* What run() held of a profile is gone when it ends.
Settles ==
    /\ Settling \/ Elsewhere
    /\ \/ pc' # "end" /\ UNCHANGED keys
       \/ pc' = "end" /\ account' = NoReference /\ token' = NoReference
                      /\ apiKey' = NoKey /\ bearer' = NoKey

\* The address of a pod is known: its worker is asked, if its token resolves.
AsksWorker == phase = "lookupBody" /\ phase' = "request"
Transports ==
    /\ Calling
    /\ phase = "lookupBody" /\ reply = "address" =>
          (AsksWorker <=> ResolveSecretRef(token) # Fails)
    /\ bearer' = IF AsksWorker THEN WorkerBearer(kind, token, apiKey, account) ELSE bearer
    /\ UNCHANGED <<account, token, apiKey>>

\* createPodProbe resolves the key of the lookup by the rules of the control layer.
Probes ==
    /\ Probing
    /\ \E name \in Names : /\ account' \in References(Owner(name, "apiKey"))
                           /\ token' \in References(Owner(name, "inferenceApiKey"))
    /\ apiKey' = PodControlKey(account', offers)
    /\ FirstRequest

KProvider == (Dispatches \/ Settles) /\ UNCHANGED offers
KCalling  == Transports /\ UNCHANGED offers
KTimer    == Timer /\ UNCHANGED <<offers, keys>>

KNext == \/ KProvider \/ KCalling \/ KTimer
         \/ Probes /\ UNCHANGED offers
         \/ Others /\ UNCHANGED <<offers, keys>>

\* The code runs and an armed timer fires; no peer owes an answer, no command
\* its key, and nobody has to ask for a probe.
KSpec == /\ KInit /\ [][KNext]_keyed
         /\ WF_keyed(~KeyAwaited /\ KProvider) /\ WF_keyed(KCalling) /\ WF_keyed(KTimer)

-----------------------------------------------------------------------------
Asked == wire = "sent" /\ phase \in D!Heads

\* "the control key (account-scoped) is used only for the pod API lookup and
\* never reaches the worker; the optional inference token is the only credential
\* forwarded": whoever of dispatcher, pod transport and load-balanced transport
\* has a key at hand, a request to a pod's worker bears its token or nothing.
WorkerGetsToken ==
    Asked /\ phase = "request" /\ kind # "lb" =>
        bearer = NoKey \/ (bearer.of = token.of /\ bearer.of[2] = "inferenceApiKey")

\* Of a turn, every other request bears the key of the profile it goes to: the
\* profile's own reference, before OMP's key, before RUNPOD_API_KEY, and where
\* that reference is a command nothing but its output.  No fallback travels
\* with the primary's, and no request goes out with none.
KeyOfItsOwn ==
    Asked /\ ~probe /\ (phase = "lookup" \/ kind = "lb") =>
        /\ bearer # NoKey
        /\ account.form = "command" \/ account.found =>
              bearer.of = Owner(Candidate, "apiKey")
        /\ account.form = "command" => bearer.from = "command"
        /\ bearer = Ours => offers.omp
        /\ bearer = Default => offers.default /\ ~offers.omp
=============================================================================
