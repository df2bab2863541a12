-------------------------- MODULE KeyedTurnProofs --------------------------
(* Turns over the direct transports, for any fallbacks, attempts and ways to *)
(* write a reference.  Without keys: such a turn is a dispatcher, its calls  *)
(* clean up, and what an abort or a timeout ended is neither retried nor     *)
(* followed by another request.  With keys: a keyed turn is such a turn, a   *)
(* worker behind a pod gets its own token, the rest bears the key of the     *)
(* profile it goes to.                                                       *)
EXTENDS KeyedTurn, DispatchProofs

\* Every step of the composition is one of the dispatcher, or invisible to it.
LEMMA DirectStep == [TNext]_turn => [Next]_vars
<1> SUFFICES ASSUME [TNext]_turn PROVE [Next]_vars
  OBVIOUS
<1>1. CASE Dispatching
  BY <1>1 DEF Dispatching, Next, Run
<1>2. CASE Settling
  <2>1. (IF Marked THEN "transient" ELSE "fatal") \in {"transient", "fatal"}
    OBVIOUS
  <2> QED BY <1>2, <2>1 DEF Settling, Next, Run
<1>3. CASE Elsewhere
  BY <1>3 DEF Elsewhere, Next, Run
<1>4. CASE Others
  BY <1>4 DEF Others, Next
<1>5. CASE Calling \/ Timer \/ Probing \/ UNCHANGED turn
  BY <1>5 DEF Calling, Timer, Probing, turn
<1> QED BY <1>1, <1>2, <1>3, <1>4, <1>5 DEF TNext, Provider

\* A turn over the direct transports is a dispatcher: every safety theorem of
\* DispatchProofs holds of it.
THEOREM RefinesDispatcher == TSpec => Spec
<1>1. TInit => Init
  BY DEF TInit
<1> QED BY <1>1, DirectStep, PTL DEF TSpec, Spec

-----------------------------------------------------------------------------
\* What is known between two awaits of a call: where it may stand, and that an
\* error which names an abort or a timeout is not marked.
CallInv ==
    /\ phase \in {"idle", "done"} => scope = "off"
    /\ phase \in D!Heads \cup D!Bodies \cup {"idle", "done"}
    /\ kind = "podTcp" \/ phase \notin {"lookup", "lookupBody"}
    /\ transient => result = "error" /\ phase = "done"
    /\ transient => cause \notin {"timeout", "shape"}

\* Each step of a transport, or of what it waits for, keeps CallInv.
LEMMA DirectKeeps ==
  ASSUME CallInv, D!Direct \/ D!Peer \/ D!TimerFires
  PROVE  CallInv'
<1> USE DEF CallInv, D!Heads, D!Bodies
<1>a. ASSUME NEW c, NEW t \in BOOLEAN, D!Throw(c, t),
             t => c \notin {"timeout", "shape"}
      PROVE  CallInv'
  BY <1>a DEF D!Throw, D!Return
<1>b. ASSUME NEW r, D!Return(r)
      PROVE  CallInv'
  BY <1>b DEF D!Return
<1>c. ASSUME NEW p \in D!Bodies, NEW r, NEW s, D!Read(p, r, s),
             ~transient, p = "lookupBody" => kind = "podTcp"
      PROVE  CallInv'
  BY <1>c DEF D!Read
<1>d. CASE D!AbortAware
  BY <1>a, <1>d DEF D!AbortAware
<1>1. CASE D!LookupRejected
  BY <1>a, <1>1 DEF D!LookupRejected
<1>2. CASE D!LookupAnswered
  BY <1>a, <1>c, <1>2 DEF D!LookupAnswered, D!At
<1>3. CASE D!LookupRead
  <2>1. CASE D!Send("request") /\ UNCHANGED <<kind, probe, result, cause, transient>>
    BY <1>3, <2>1 DEF D!LookupRead, D!Send, D!At
  <2> QED BY <1>a, <1>3, <2>1 DEF D!LookupRead
<1>4. CASE D!RequestRejected
  BY <1>d, <1>4 DEF D!RequestRejected
<1>5. CASE D!RequestAnswered
  BY <1>b, <1>c, <1>5 DEF D!RequestAnswered, D!At
<1>6. CASE D!ErrorRead
  <2>1. reply \in {"timeout", "shape"} => ~D!TransientStatus(reply)
    BY DEF D!TransientStatus
  <2>2. D!TransientStatus(reply) \in BOOLEAN
    BY DEF D!TransientStatus
  <2> QED BY <1>a, <1>6, <2>1, <2>2 DEF D!ErrorRead
<1>7. CASE D!JsonRead
  BY <1>a, <1>b, <1>d, <1>7 DEF D!JsonRead
<1>8. CASE D!SseRead
  BY <1>a, <1>b, <1>d, <1>8 DEF D!SseRead
<1>9. CASE D!Peer \/ D!TimerFires
  BY <1>9 DEF D!Peer, D!PeerAnswers, D!TimerFires
<1> QED BY <1>1, <1>2, <1>3, <1>4, <1>5, <1>6, <1>7, <1>8, <1>9 DEF D!Direct

\* A call or probe may begin whenever the one before it is over.
LEMMA BeginKeeps ==
  ASSUME CallInv, NEW k \in D!Kinds, D!Begin(k)
  PROVE  CallInv'
BY DEF CallInv, D!Begin, D!Send, D!Heads, D!Bodies, D!Kinds

LEMMA CallInvariant == TSpec => []CallInv
<1>1. TInit => CallInv
  BY DEF TInit, D!DirectInit, CallInv
<1>2. CallInv /\ [TNext]_turn => CallInv'
  <2> SUFFICES ASSUME CallInv, [TNext]_turn PROVE CallInv'
    OBVIOUS
  <2>1. CASE UNCHANGED direct
    BY <2>1 DEF direct, CallInv
  <2>2. CASE BeginCall
    BY <2>2, BeginKeeps DEF BeginCall
  <2>3. CASE Provider
    BY <2>1, <2>2, <2>3 DEF Provider, Dispatching, Settling, Elsewhere
  <2>4. CASE Calling \/ Timer
    BY <2>4, DirectKeeps DEF Calling, Timer
  <2>5. CASE Probing
    BY <2>5, BeginKeeps DEF Probing
  <2>6. CASE Others
    <3>1. CASE D!SignalAborts
      BY <3>1 DEF D!SignalAborts, CallInv
    <3> QED BY <2>1, <2>6, <3>1, DirectKeeps DEF Others
  <2>7. CASE UNCHANGED turn
    BY <2>1, <2>7 DEF turn
  <2> QED BY <2>3, <2>4, <2>5, <2>6, <2>7 DEF TNext
<1> QED BY <1>1, <1>2, PTL DEF TSpec

\* No way out of a call leaves its timer armed or its listener in place, for
\* any number of calls and probes one after another.
THEOREM CleansUp == TSpec => []ScopeEndsWithCall
<1>1. CallInv => ScopeEndsWithCall
  BY DEF CallInv, ScopeEndsWithCall, D!ScopeEndsWithCall
<1> QED BY <1>1, CallInvariant, PTL

\* A turn one of whose calls timed out at its worker ends with it, for every
\* list of fallbacks, every number of attempts left and every kind of profile.
THEOREM TimeoutsEnd == TSpec => TimeoutEndsTurn
<1>1. CallInv /\ [TNext]_turn =>
        [pc = "transport" /\ cause \in {"timeout", "shape"} /\ pc' # "transport"
           => pc' = "end"]_turn
  <2> SUFFICES ASSUME CallInv, TNext, pc = "transport", cause \in {"timeout", "shape"},
                      pc' # "transport"
               PROVE  pc' = "end"
    OBVIOUS
  <2>1. ~transient
    BY DEF CallInv
  <2>2. CASE Settling
    BY <2>1, <2>2 DEF Settling, Marked, TransportSucceeds, TransportFails, Retryable, Surface
  <2>3. CASE Dispatching \/ Elsewhere
    BY <2>3 DEF Dispatching, Elsewhere, PrimaryKeyResolves, CandidateKeyResolves, BackoffElapses,
                Start, PrimaryKeyFails, BackoffAborts, CandidateKeyFails, CandidateGone
  <2>4. CASE Calling \/ Timer \/ Probing \/ Others
    BY <2>4 DEF Calling, Timer, Probing, Others, vars, Abort, RemoveProfile
  <2> QED BY <2>2, <2>3, <2>4 DEF TNext, Provider
<1> QED BY <1>1, CallInvariant, PTL DEF TSpec, TimeoutEndsTurn

\* Whatever a caller's abort or a timer ended is not marked for another try.
THEOREM AbortedIsFinal == TSpec => AbortsNeverRetry
<1>1. CallInv /\ [TNext]_turn =>
        [D!Aborted /\ phase \notin {"lookup", "done"} /\ reply # "5xx" /\ phase' = "done"
           => ~transient']_(D!dvars)
  <2> SUFFICES ASSUME CallInv, [TNext]_turn, D!Aborted, phase \notin {"lookup", "done"},
                      reply # "5xx", phase' = "done"
               PROVE  ~transient'
    BY DEF CallInv
  <2>1. phase \in D!Heads \cup D!Bodies /\ phase # "idle"
    BY DEF CallInv, D!Aborted
  <2>2. CASE D!Direct
    BY <2>1, <2>2
       DEF CallInv, D!Direct, D!LookupRejected, D!LookupAnswered, D!LookupRead, D!At, D!RequestRejected,
           D!RequestAnswered, D!ErrorRead, D!JsonRead, D!SseRead, D!AbortAware, D!Throw,
           D!Return, D!Read, D!Send, D!TransientStatus, D!Aborted, D!Bodies, D!Heads
  <2>3. CASE UNCHANGED phase
    BY <2>1, <2>3 DEF D!Heads, D!Bodies
  <2>4. CASE ~D!Direct /\ phase' # phase
    BY <2>1, <2>4
       DEF TNext, Provider, Dispatching, Settling, Elsewhere, Calling, Timer, Probing, Others,
           BeginCall, D!Begin, D!Peer, D!PeerAnswers, D!TimerFires, D!SignalAborts, direct, turn,
           D!Heads, D!Bodies
  <2> QED BY <2>2, <2>3, <2>4
<1> QED BY <1>1, CallInvariant, PTL DEF TSpec, AbortsNeverRetry, D!AbortsNeverRetry

\* Once the caller has aborted nobody is asked any more: no control plane for
\* an address and no worker for an answer.
THEOREM QuietDirectTurn == TSpec => NoWorkerAfterAbort
<1>1. [TNext]_turn => [aborted /\ wire' = "sent" /\ phase' \in D!Heads
                         => wire = "sent" /\ phase = phase']_turn
  <2> SUFFICES ASSUME TNext, aborted, wire' = "sent", phase' \in D!Heads
               PROVE  wire = "sent" /\ phase = phase'
    OBVIOUS
  <2>1. ~(\E k \in D!Kinds : D!Begin(k))
    BY DEF D!Begin, D!Send
  <2>2. CASE D!Direct
    BY <2>2
       DEF D!Direct, D!LookupRejected, D!LookupAnswered, D!LookupRead, D!RequestRejected,
           D!RequestAnswered, D!ErrorRead, D!JsonRead, D!SseRead, D!AbortAware, D!Throw,
           D!Return, D!Read, D!Send, D!Bodies, D!Heads
  <2>3. CASE ~D!Direct
    BY <2>1, <2>3
       DEF TNext, Provider, Dispatching, Settling, Elsewhere, Calling, Timer, Probing, Others,
           BeginCall, D!Peer, D!PeerAnswers, D!TimerFires, D!SignalAborts, direct
  <2> QED BY <2>2, <2>3
<1> QED BY <1>1, PTL DEF TSpec, NoWorkerAfterAbort

-----------------------------------------------------------------------------
(* Keys. *)

\* Keys decide among the steps of ProviderDirect and add none.
LEMMA KeyedStep == [KNext]_keyed => [TNext]_turn
BY DEF KNext, KProvider, KCalling, KTimer, Dispatches, Settles, Transports, Probes, keyed, turn,
       TNext, Provider, Dispatching

\* A turn with keys is a turn: the theorems above, and with
\* them those of DispatchProofs, hold of it.
THEOREM RefinesTurns == KSpec => TSpec
<1>1. KInit => TInit
  BY DEF KInit
<1> QED BY <1>1, KeyedStep, PTL DEF KSpec, TSpec

-----------------------------------------------------------------------------
\* What the transports resolve of an inference token belongs to that token.
TokenKnown == token = NoReference \/ \E name \in Names : token \in References(Owner(name, "inferenceApiKey"))

LEMMA ReferenceForms ==
  ASSUME NEW owner, NEW ref \in References(owner)
  PROVE  /\ ref = NoReference \/ ref.of = owner
         /\ ref.form \in {"none", "env", "command", "bare", "unnamed"}
         /\ ref.form = "none" => ref = NoReference
         /\ ref.found \in BOOLEAN
         /\ ref.found => ref.form \in {"env", "command", "bare"}
<1>1. CASE ref = NoReference
  BY <1>1 DEF NoReference
<1>2. CASE ref \in {[of |-> owner, form |-> f, found |-> b] : f \in {"env", "command"}, b \in BOOLEAN}
  <2>1. PICK f \in {"env", "command"}, b \in BOOLEAN : ref = [of |-> owner, form |-> f, found |-> b]
    BY <1>2
  <2>2. ref.of = owner /\ ref.form = f
    BY <2>1
  <2>3. ref.found = b
    BY <2>1
  <2>4. ref.found \in BOOLEAN
    BY <2>3
  <2>5. ref.form \in {"env", "command"}
    BY <2>2
  <2> QED BY <2>2, <2>4, <2>5
<1>3. CASE ref \in {[of |-> owner, form |-> "bare", found |-> TRUE],
                   [of |-> owner, form |-> "unnamed", found |-> FALSE]}
  <2>1. ref.of = owner /\ ref.form \in {"bare", "unnamed"}
    BY <1>3
  <2>2. CASE ref = [of |-> owner, form |-> "bare", found |-> TRUE]
    <3>1. ref.found = TRUE /\ ref.form = "bare"
      BY <2>2
    <3> QED BY <2>1, <3>1
  <2>3. CASE ref = [of |-> owner, form |-> "unnamed", found |-> FALSE]
    <3>1. ref.found = FALSE
      BY <2>3
    <3> QED BY <2>1, <3>1
  <2> QED BY <1>3, <2>2, <2>3
<1> QED BY <1>1, <1>2, <1>3 DEF References

TokenOrNothing(key, ref) ==
    key = NoKey \/ (key.of = ref.of /\ ref.of[2] = "inferenceApiKey")

LEMMA TokensOwnKey ==
  ASSUME NEW name, NEW t \in References(Owner(name, "inferenceApiKey")), ResolveSecretRef(t) # Fails
  PROVE  TokenOrNothing(InferenceOnly(ResolveSecretRef(t)), t)
<1>1. InferenceOnly(ResolveSecretRef(t)) = ResolveSecretRef(t)
  BY DEF InferenceOnly, BearerToken, ResolveSecretRef, NoReference
<1>2. CASE t.form \in {"env", "bare"}
  <2>1. t.of = Owner(name, "inferenceApiKey")
    BY <1>2, ReferenceForms DEF NoReference
  <2> QED BY <1>1, <1>2, <2>1 DEF ResolveSecretRef, Key, TokenOrNothing, Owner
<1>3. CASE t.form \in {"none", "unnamed", "command"}
  BY <1>1, <1>3 DEF ResolveSecretRef, TokenOrNothing
<1> QED BY <1>2, <1>3, ReferenceForms

\* The worker of a pod is asked with its token, at either of the two places
\* where that is decided.
WorkerFact == phase = "request" /\ kind # "lb" => TokenOrNothing(bearer, token)

LEMMA FirstRequestKeeps ==
  ASSUME FirstRequest, TokenKnown', NEW k \in D!Kinds, D!Begin(k)
  PROVE  WorkerFact'
<1> SUFFICES ASSUME phase' = "request", kind' # "lb" PROVE TokenOrNothing(bearer', token')
  BY DEF WorkerFact, TokenOrNothing
<1>1. kind' = "podStatic" /\ ResolveSecretRef(token') # Fails
  BY DEF D!Begin, D!Send, D!Kinds, FirstRequest
<1>2. bearer' = InferenceOnly(ResolveSecretRef(token'))
  BY <1>1 DEF FirstRequest, WorkerBearer
<1>3. token' = NoReference \/ \E name \in Names : token' \in References(Owner(name, "inferenceApiKey"))
  BY DEF TokenKnown
<1>4. CASE token' = NoReference
  BY <1>2, <1>4 DEF NoReference, ResolveSecretRef, InferenceOnly, BearerToken, TokenOrNothing
<1>5. CASE \E name \in Names : token' \in References(Owner(name, "inferenceApiKey"))
  BY <1>1, <1>2, <1>5, TokensOwnKey
<1> QED BY <1>3, <1>4, <1>5

-----------------------------------------------------------------------------
\* While a turn calls, or waits to call its primary again, it holds the key
\* resolved from the reference of its candidate.
HoldsKey ==
    /\ account \in References(Owner(Candidate, "apiKey"))
    /\ apiKey = ResolveProfileApiKey(account, offers) /\ apiKey # Fails
MayCall == pc = "transport" \/ (pc = "backoff" /\ cand = 0)

\* A call under way is the turn's, or the probe of one that is over.
Underway == phase \notin {"idle", "done"}
BearsKey == ~probe /\ (phase = "lookup" \/ kind = "lb") => bearer = apiKey

KeyInv ==
    /\ offers \in Offers
    /\ TokenKnown
    /\ WorkerFact
    /\ MayCall => HoldsKey
    /\ Underway => pc = (IF probe THEN "end" ELSE "transport")
    /\ Underway => BearsKey

\* The dispatcher's resolver yields a key or fails; it never yields none.
LEMMA ResolvesOrFails ==
  ASSUME NEW owner, NEW ref \in References(owner), offers \in Offers
  PROVE  ResolveProfileApiKey(ref, offers) # NoKey
BY ReferenceForms DEF ResolveProfileApiKey, OwnKeyElse, FallbackKey, Key, NoKey, Fails, Ours, Default

\* A call that begins with a key bears it, or a worker's token.
LEMMA BeginBears ==
  ASSUME BeginCall, FirstRequest, HoldsKey', offers' = offers, offers \in Offers
  PROVE  Underway' => BearsKey'
<1>1. apiKey' = ResolveProfileApiKey(account', offers)
  BY DEF HoldsKey
<1>2. account' \in References(Owner(Candidate', "apiKey"))
  BY DEF HoldsKey
<1>3. apiKey' # NoKey
  BY <1>1, <1>2, ResolvesOrFails
<1> QED BY <1>3 DEF BeginCall, FirstRequest, BearsKey, Underway, WorkerBearer, BearerToken,
           D!Begin, D!Send, D!Kinds

\* Where a transport's own steps can lead.
LEMMA DirectMoves ==
  ASSUME D!Direct
  PROVE  /\ probe' = probe /\ kind' = kind /\ Underway
         /\ phase' # "lookup"
         /\ phase' = "request" => phase = "lookupBody" /\ reply = "address"
BY DEF D!Direct, D!LookupRejected, D!LookupAnswered, D!LookupRead, D!RequestRejected, D!RequestAnswered,
       D!ErrorRead, D!JsonRead, D!SseRead, D!AbortAware, D!Throw, D!Return, D!Read, D!Send, D!At,
       D!Rejected, D!Bodies, D!Heads, Underway

\* Each dispatch resolves the key of the candidate it is for, or keeps it.
LEMMA DispatchKeepsKeys ==
  ASSUME KeyInv, TypeOK, LoopPosition, Dispatches, offers' = offers
  PROVE  KeyInv'
<1> USE DEF KeyInv
<1>a. ASSUME BeginCall, FirstRequest, HoldsKey', TokenKnown', pc' = "transport"
      PROVE  KeyInv'
  <2>1. WorkerFact'
    BY <1>a, FirstRequestKeeps DEF BeginCall
  <2>2. Underway' => BearsKey'
    BY <1>a, BeginBears
  <2> QED BY <1>a, <2>1, <2>2 DEF BeginCall
<1>b. ASSUME NEW name \in Names, Resolves(name), Candidate' = name
      PROVE  HoldsKey' /\ TokenKnown'
  <2>1. HoldsKey'
    BY <1>b DEF Resolves, HoldsKey, OwnKey
  <2>2. TokenKnown'
    BY <1>b DEF Resolves, TokenKnown
  <2> QED BY <2>1, <2>2
<1>1. CASE PrimaryKeyResolves /\ BeginCall /\ Resolves(Model) /\ FirstRequest
  <2>1. cand' = 0 /\ Candidate' = Model
    BY <1>1 DEF PrimaryKeyResolves, LoopPosition, Before, Candidate
  <2>2. HoldsKey' /\ TokenKnown'
    BY <1>1, <1>b, <2>1, DispatchAssumption
  <2> QED BY <1>1, <1>a, <2>2 DEF PrimaryKeyResolves, Invoke
<1>2. CASE CandidateKeyResolves /\ BeginCall /\ Resolves(Candidate) /\ FirstRequest
  <2>1. Candidate' = Candidate
    BY <1>2 DEF CandidateKeyResolves, Candidate, loop
  <2>2. Candidate \in Names
    BY DispatchAssumption DEF TypeOK, Candidate
  <2>3. HoldsKey' /\ TokenKnown'
    BY <1>2, <1>b, <2>1, <2>2
  <2> QED BY <1>2, <1>a, <2>3 DEF CandidateKeyResolves, Invoke
<1>3. CASE /\ BackoffElapses /\ pc' = "transport" /\ BeginCall
           /\ UNCHANGED <<account, token, apiKey>> /\ FirstRequest
  <2>1. pc = "backoff" /\ cand = 0 /\ cand' = cand
    BY <1>3 DEF BackoffElapses, loop
  <2>2. HoldsKey' /\ TokenKnown'
    BY <1>3, <2>1 DEF MayCall, HoldsKey, TokenKnown, Candidate
  <2> QED BY <1>3, <1>a, <2>2
<1>4. CASE BackoffElapses /\ pc' # "transport" /\ UNCHANGED <<direct, keys>>
  <2>1. pc = "backoff" /\ pc' = "candidateKey" /\ ~Underway
    BY <1>4 DEF BackoffElapses, Invoke
  <2> QED BY <1>4, <2>1 DEF direct, keys, TokenKnown, WorkerFact, MayCall, Underway, TokenOrNothing
<1> QED BY <1>1, <1>2, <1>3, <1>4 DEF Dispatches

\* Where a turn goes on or ends without a call, no call is under way.
LEMMA SettleKeepsKeys ==
  ASSUME KeyInv, Settles, offers' = offers
  PROVE  KeyInv'
<1> USE DEF KeyInv
<1>1. UNCHANGED direct /\ ~Underway /\ ~Underway'
  BY DEF Settles, Settling, Elsewhere, direct, Underway, Start, PrimaryKeyFails, BackoffAborts,
         CandidateKeyFails, CandidateGone
<1>2. pc' # "transport"
  BY DEF Settles, Settling, Elsewhere, TransportSucceeds, TransportFails, Start, PrimaryKeyFails,
         BackoffAborts, CandidateKeyFails, CandidateGone, Surface
<1>3. TokenKnown' /\ WorkerFact'
  BY <1>1 DEF Settles, keys, TokenKnown, WorkerFact, Underway
<1>4. MayCall' => HoldsKey'
  <2> SUFFICES ASSUME pc' = "backoff", cand' = 0 PROVE HoldsKey'
    BY <1>2 DEF MayCall
  <2>1. UNCHANGED keys
    BY DEF Settles
  <2>2. pc = "transport" /\ cand' = cand
    BY DEF Settles, Settling, Elsewhere, TransportSucceeds, TransportFails, Start, PrimaryKeyFails,
           BackoffAborts, CandidateKeyFails, CandidateGone, Surface, NextPosition, Later, Positions
  <2> QED BY <2>1, <2>2 DEF keys, MayCall, HoldsKey, Candidate
<1> QED BY <1>1, <1>3, <1>4

\* What a transport does on its own changes no key but on its way from a pod's
\* address to the pod's worker.
LEMMA TransportKeepsKeys ==
  ASSUME KeyInv, CallInv, Transports, offers' = offers
  PROVE  KeyInv'
<1> USE DEF KeyInv
<1>1. /\ probe' = probe /\ kind' = kind /\ Underway /\ phase' # "lookup"
      /\ phase' = "request" => AsksWorker /\ reply = "address"
  BY DirectMoves DEF Transports, Calling, AsksWorker
<1>2. UNCHANGED vars /\ UNCHANGED <<account, token, apiKey>>
  BY DEF Transports, Calling
<1>3. MayCall' => HoldsKey'
  BY <1>2 DEF vars, MayCall, HoldsKey, Candidate
<1>4. TokenKnown'
  BY <1>2 DEF TokenKnown
<1>5. CASE ~AsksWorker
  <2>1. bearer' = bearer
    BY <1>5 DEF Transports
  <2> QED BY <1>1, <1>2, <1>3, <1>4, <1>5, <2>1 DEF vars, WorkerFact, BearsKey, Underway
<1>6. CASE AsksWorker
  <2>1. kind = "podTcp" /\ ResolveSecretRef(token) # Fails
    BY <1>1, <1>6 DEF CallInv, AsksWorker, Transports
  <2>2. bearer' = InferenceOnly(ResolveSecretRef(token))
    BY <1>6, <2>1 DEF Transports, WorkerBearer
  <2>3. CASE token = NoReference
    <3>1. bearer' = NoKey
      BY <2>2, <2>3 DEF NoReference, ResolveSecretRef, InferenceOnly, BearerToken
    <3> QED BY <1>1, <1>2, <1>3, <1>4, <2>1, <3>1 DEF vars, WorkerFact, TokenOrNothing, BearsKey, Underway
  <2>4. CASE token # NoReference
    <3>1. TokenOrNothing(bearer', token)
      BY <2>1, <2>2, <2>4, TokensOwnKey DEF TokenKnown
    <3> QED BY <1>1, <1>2, <1>3, <1>4, <2>1, <3>1 DEF vars, WorkerFact, TokenOrNothing, BearsKey, Underway
  <2> QED BY <2>3, <2>4
<1> QED BY <1>5, <1>6

LEMMA KeyInvariant == KSpec => []KeyInv
<1>1. KInit => KeyInv
  BY DEF KInit, TInit, Init, D!DirectInit, KeyInv, TokenKnown, WorkerFact, MayCall, Underway
<1>2. KeyInv /\ CallInv /\ IInv /\ [KNext]_keyed => KeyInv'
  <2> SUFFICES ASSUME KeyInv, CallInv, IInv, [KNext]_keyed PROVE KeyInv'
    OBVIOUS
  <2>1. CASE KProvider
    BY <2>1, DispatchKeepsKeys, SettleKeepsKeys DEF KProvider, IInv
  <2>2. CASE KCalling
    BY <2>2, TransportKeepsKeys DEF KCalling
  <2>3. ASSUME UNCHANGED <<offers, keys, kind, probe, phase, pc, cand>>
        PROVE  KeyInv'
    BY <2>3 DEF KeyInv, keys, TokenKnown, WorkerFact, TokenOrNothing, MayCall, HoldsKey, Candidate,
                Underway, BearsKey
  <2>4. CASE KTimer
    BY <2>3, <2>4 DEF KTimer, Timer, D!TimerFires, vars
  <2>5. CASE Others /\ UNCHANGED <<offers, keys>>
    BY <2>3, <2>5 DEF Others, D!Peer, D!PeerAnswers, D!SignalAborts, Abort, RemoveProfile, vars, loop, direct
  <2>6. CASE Probes /\ UNCHANGED offers
    <3>1. TokenKnown'
      BY <2>6 DEF Probes, TokenKnown
    <3>2. WorkerFact'
      BY <2>6, <3>1, FirstRequestKeeps DEF Probes, Probing
    <3>3. pc' = "end" /\ probe' /\ offers' = offers
      BY <2>6 DEF Probes, Probing, vars
    <3> QED BY <3>1, <3>2, <3>3 DEF KeyInv, MayCall, BearsKey
  <2>7. CASE UNCHANGED keyed
    BY <2>3, <2>7 DEF keyed, turn, direct, vars
  <2> QED BY <2>1, <2>2, <2>4, <2>5, <2>6, <2>7 DEF KNext
<1>3. KSpec => []CallInv /\ []IInv
  BY RefinesTurns, CallInvariant, RefinesDispatcher, Invariance, PTL
<1> QED BY <1>1, <1>2, <1>3, PTL DEF KSpec

-----------------------------------------------------------------------------
\* No request to a pod's worker bears another key than the pod's own inference
\* token, in a turn or a probe, whichever ways the references are written in.
THEOREM TokenForWorkers == KSpec => []WorkerGetsToken
<1>1. KeyInv => WorkerGetsToken
  BY DEF KeyInv, WorkerFact, WorkerGetsToken, TokenOrNothing
<1> QED BY <1>1, KeyInvariant, PTL

\* Every other request of a turn bears a key, and that of the profile it goes
\* to, however many attempts and fallbacks came before it.
THEOREM KeyPerProfile == KSpec => []KeyOfItsOwn
<1>1. KeyInv => KeyOfItsOwn
  <2> SUFFICES ASSUME KeyInv, Asked, ~probe, phase = "lookup" \/ kind = "lb"
               PROVE  KeyOfItsOwn
    BY DEF KeyOfItsOwn
  <2>1. bearer = apiKey /\ HoldsKey
    BY DEF KeyInv, Underway, BearsKey, MayCall, Asked, D!Heads
  <2> DEFINE owner == Owner(Candidate, "apiKey")
  <2>2. bearer = ResolveProfileApiKey(account, offers) /\ bearer # Fails /\ account \in References(owner)
    BY <2>1 DEF HoldsKey
  <2>3. bearer # NoKey
    BY <2>2, ResolvesOrFails DEF KeyInv
  <2>4. account.form = "command" \/ account.found => bearer.of = owner
    BY <2>2, ReferenceForms DEF ResolveProfileApiKey, Key, NoReference
  <2>5. account.form = "command" => bearer.from = "command"
    BY <2>2 DEF ResolveProfileApiKey, Key
  <2>6. (bearer = Ours => offers.omp) /\ (bearer = Default => offers.default /\ ~offers.omp)
    BY <2>2, ReferenceForms DEF ResolveProfileApiKey, OwnKeyElse, FallbackKey, Key, Ours, Default, Fails,
       Session, Nobody, Owner
  <2> QED BY <2>3, <2>4, <2>5, <2>6 DEF KeyOfItsOwn
<1> QED BY <1>1, KeyInvariant, PTL
=============================================================================
