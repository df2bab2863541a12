------------------------------- MODULE Keys --------------------------------
(***************************************************************************)
(* Which key goes with which call.  A profile refers to its keys, it does  *)
(* not hold them; four resolvers of the code turn a reference into a key,  *)
(* each with rules of its own about commands, unset variables and what is  *)
(* tried next: resolveProfileApiKey (config.ts) for the dispatcher,        *)
(* resolveSecretRef (transport/types.ts) and resolveBearerToken            *)
(* (transport/load-balanced.ts) in the transports, resolveControlKey       *)
(* (index.ts) for control operations.                                      *)
(***************************************************************************)

\* Whose a reference or a key is: a profile and the field of it, or one of two.
Owner(name, field) == <<name, field>>
Nobody  == <<"none", "none">>
Session == <<"none", "session">>

\* A reference: what it is written as, and whether it finds anything: the
\* variable it names is set, the command it runs prints something.  A bare one
\* is the variable it names, or else the key itself, and so a key in any case.
NoReference == [of |-> Nobody, form |-> "none", found |-> FALSE]
References(owner) ==
    {NoReference}
    \cup {[of |-> owner, form |-> f, found |-> b] :
             f \in {"env",        \* env:NAME
                    "command"},   \* !command
             b \in BOOLEAN}
    \cup {[of |-> owner, form |-> "bare", found |-> TRUE],
          [of |-> owner, form |-> "unnamed", found |-> FALSE]}   \* env: and no name

\* What the session offers when a profile's own reference yields nothing.
Offers == [omp : BOOLEAN,       \* OMP has a key of its own for the provider
           default : BOOLEAN]   \* RUNPOD_API_KEY is set

\* A key is told by whose it is and where it came from.
Key(owner, from) == [of |-> owner, from |-> from]
NoKey == Key(Nobody, "nothing")
Fails == Key(Nobody, "error")
Ours  == Key(Session, "omp")
Default == Key(Session, "RUNPOD_API_KEY")

-----------------------------------------------------------------------------
FallbackKey(offers) == IF offers.default THEN Default ELSE Fails
OwnKeyElse(offers) == IF offers.omp THEN Ours ELSE FallbackKey(offers)

\* The dispatcher's resolver.  A command that fails is never replaced by
\* another source; a variable that is not set is.
ResolveProfileApiKey(ref, offers) ==
    CASE ref.form = "none"    -> OwnKeyElse(offers)
      [] ref.form = "unnamed" -> Fails
      [] ref.form = "command" -> IF ref.found THEN Key(ref.of, "command") ELSE Fails
      [] ref.form = "env"     -> IF ref.found THEN Key(ref.of, "env") ELSE OwnKeyElse(offers)
      [] ref.form = "bare"    -> Key(ref.of, "bare")

\* The transports' resolver: no commands, and nothing else is tried.
ResolveSecretRef(ref) ==
    CASE ref.form \in {"none", "unnamed"} -> NoKey
      [] ref.form = "command" -> Fails
      [] ref.form = "env"     -> IF ref.found THEN Key(ref.of, "env") ELSE NoKey
      [] ref.form = "bare"    -> Key(ref.of, "bare")

\* deps.apiKey first, the profile's reference next, RUNPOD_API_KEY last unless
\* noEnvKeyFallback forbids it.
BearerToken(given, ref, offers, noFallback) ==
    IF given # NoKey THEN given
    ELSE IF ResolveSecretRef(ref) # NoKey THEN ResolveSecretRef(ref)
    ELSE IF offers.default /\ ~noFallback THEN Default ELSE NoKey

\* The control layer's resolver knows no commands: it takes one for a literal.
ControlKey(ref) ==
    CASE ref.form \in {"none", "unnamed"} -> NoKey
      [] ref.form = "env" -> IF ref.found THEN Key(ref.of, "env") ELSE NoKey
      [] ref.form = "bare" -> Key(ref.of, "bare")
      [] ref.form = "command" -> Key(ref.of, "literal")

\* A pod's address is asked for with its own key or RUNPOD_API_KEY.
PodControlKey(ref, offers) ==
    IF ref.form # "none" THEN ControlKey(ref)
    ELSE IF offers.default THEN Default ELSE NoKey
=============================================================================
