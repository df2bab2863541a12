------------------------------ MODULE Dispatch ------------------------------
(***************************************************************************)
(* The provider's stream dispatcher: createRunpodStream in                 *)
(* src/src/provider.ts.  One behaviour is one turn: the asynchronous run() *)
(* started for one (model, context, options).  The primary profile is      *)
(* dispatched up to policy.maxAttempts times, then each fallback profile   *)
(* once; only transient errors move on to the next attempt.                *)
(*                                                                         *)
(* JavaScript runs one handler at a time, so every action below is the     *)
(* code between two awaits.  The environment acts in between: the caller   *)
(* may abort its signal, and `/runpod profile rm` may delete a name from   *)
(* the profile map, which is the very object the dispatcher reads.         *)
(***************************************************************************)
EXTENDS Integers, Sequences, FiniteSets

CONSTANTS
    Names,              \* profile names a configuration may mention
    Model,              \* model.id of the turn; models are registered by profile name
    MaxAttempts,        \* policy.maxAttempts of the primary profile
    FallbackProfiles,   \* policy.fallbackProfiles of the primary, as written
    Removable           \* names the user may delete while the turn runs

ASSUME DispatchAssumption ==
    /\ Model \in Names
    /\ MaxAttempts \in Nat \ {0}            \* parsePositiveInteger
    /\ FallbackProfiles \in Seq(Names)
    /\ Removable \subseteq Names

VARIABLES
    configured,  \* own keys of the profile map
    aborted,     \* options.signal.aborted
    pc,          \* the await at which run() is suspended
    eligible,    \* positions of FallbackProfiles the filter kept
    cand,        \* 0 for the primary, else the position of the fallback in use
    attempt,     \* attempt + 1 of the code
    held,        \* the profile object `candidate` was read from the map
    journal,     \* the records written, oldest first
    stream       \* terminal-relevant events pushed to the assistant stream

vars == <<configured, aborted, pc, eligible, cand, attempt, held, journal, stream>>
env  == <<configured, aborted>>
loop == <<eligible, cand, attempt, held>>

Positions == 1..Len(FallbackProfiles)
Errors    == {"transient", "fatal", "key"}          \* what one attempt may throw
Causes    == Errors \cup {"unknown", "abort", "gone"}  \* what stream.fail may surface

Entry == [kind : {"dispatch", "dispatch-done", "dispatch-error", "replay-done", "failed"},
          cand : 0..Len(FallbackProfiles), attempt : 0..MaxAttempts,
          error : Causes \cup {"none"}]

Record(kind, c, a, error) == [kind |-> kind, cand |-> c, attempt |-> a, error |-> error]

Init ==
    /\ configured \in SUBSET Names
    /\ aborted \in BOOLEAN
    /\ pc = "start"
    /\ eligible = {}
    /\ cand = 0
    /\ attempt = 1
    /\ held = TRUE
    /\ journal = <<>>
    /\ stream = <<>>

\* The outer catch: journal "failed", then stream.fail.
Surface(written, cause) ==
    /\ journal' = Append(written, Record("failed", 0, 0, cause))
    /\ stream' = Append(stream, "fail")
    /\ pc' = "end"

\* The synchronous start of one attempt: journal "dispatch", call the transport.
Invoke(c, a) ==
    /\ journal' = Append(journal, Record("dispatch", c, a, "none"))
    /\ pc' = "transport"

-----------------------------------------------------------------------------
\* Own-key lookup of model.id, then resolveApiKey for the primary.
Start ==
    /\ pc = "start"
    /\ \/ /\ Model \in configured
          /\ pc' = "primaryKey"
          /\ UNCHANGED <<journal, stream>>
       \/ /\ Model \notin configured
          /\ Surface(journal, "unknown")
    /\ UNCHANGED <<env, loop>>

\* The fallback filter runs only now, on the map as it is after the await;
\* the first attempt follows without another suspension.
PrimaryKeyResolves ==
    /\ pc = "primaryKey"
    /\ eligible' = {i \in Positions : /\ FallbackProfiles[i] \in configured
                                      /\ FallbackProfiles[i] # Model}
    /\ Invoke(0, 1)
    /\ UNCHANGED <<env, cand, attempt, held, stream>>

PrimaryKeyFails ==
    /\ pc = "primaryKey"
    /\ Surface(journal, "key")
    /\ UNCHANGED <<env, loop>>

\* The transport resolves: dispatch-done, the replay, replay-done; the loop ends.
NeverMarkedDispatched ==
    /\ pc = "transport"
    /\ stream' = stream \o <<"start", "done", "fail">>
    /\ pc' = "end"
    /\ UNCHANGED <<env, loop, journal>>
TransportSucceeds ==
    /\ pc = "transport"
    /\ journal' = Append(Append(journal, Record("dispatch-done", cand, attempt, "none")),
                         Record("replay-done", cand, attempt, "none"))
    /\ stream' = stream \o <<"start", "done">>
    /\ pc' = "end"
    /\ UNCHANGED <<env, loop>>

\* isRetryableError: only an error marked transient is worth another attempt.
EveryErrorRetries(error) == TRUE
Retryable(error) == error = "transient"

\* `attempt < attempts`: the primary has MaxAttempts, a fallback one.
OneAttemptMore == attempt <= (IF cand = 0 THEN MaxAttempts ELSE 1)
MoreAttempts == attempt < (IF cand = 0 THEN MaxAttempts ELSE 1)

\* The position the for loop reaches after c, if the filter kept one.
SkipsOne(c) == {i \in eligible : i > c + 1}
Later(c) == {i \in eligible : i > c}
FromTheEnd(i, c) == i \in Later(c) /\ \A j \in Later(c) : j <= i
NextPosition(i, c) == i \in Later(c) /\ \A j \in Later(c) : i <= j

\* The transport rejects.  A non-retryable error is rethrown; a retryable one
\* moves to the next attempt, the next fallback, or out of the loop.  The next
\* candidate is read from the map here, before its backoff.
TransportFails(error) ==
    /\ pc = "transport"
    /\ LET written == Append(journal, Record("dispatch-error", cand, attempt, error))
       IN  \/ /\ Retryable(error) /\ MoreAttempts
              /\ attempt' = attempt + 1
              /\ journal' = written
              /\ pc' = "backoff"
              /\ UNCHANGED <<eligible, cand, held, stream>>
           \/ /\ Retryable(error) /\ ~MoreAttempts
              /\ \E i \in Positions :
                    /\ NextPosition(i, cand)
                    /\ cand' = i
                    /\ held' = (FallbackProfiles[i] \in configured)
              /\ attempt' = 1
              /\ journal' = written
              /\ pc' = "backoff"
              /\ UNCHANGED <<eligible, stream>>
           \/ /\ Retryable(error) => ~MoreAttempts /\ Later(cand) = {}
              /\ Surface(written, error)
              /\ UNCHANGED loop
    /\ UNCHANGED env

\* sleepWithAbort looks at the signal at its start and listens to it meanwhile.
SignalUnseen == FALSE
Interrupted == aborted

\* The backoff elapses, which it cannot once the signal is aborted.
\* The primary reuses its key; a fallback resolves its own.
BackoffElapses ==
    /\ pc = "backoff"
    /\ ~Interrupted
    /\ \/ cand = 0 /\ Invoke(cand, attempt)
       \/ cand # 0 /\ pc' = "candidateKey" /\ UNCHANGED journal
    /\ UNCHANGED <<env, loop, stream>>

\* sleepWithAbort rejects outside the inner try: no dispatch-error is written.
BackoffAborts ==
    /\ pc = "backoff"
    /\ Interrupted
    /\ Surface(journal, "abort")
    /\ UNCHANGED <<env, loop>>

CandidateKeyResolves ==
    /\ pc = "candidateKey"
    /\ held
    /\ Invoke(cand, attempt)
    /\ UNCHANGED <<env, loop, stream>>

CandidateKeyFails ==
    /\ pc = "candidateKey"
    /\ held
    /\ Surface(Append(journal, Record("dispatch-error", cand, attempt, "key")), "key")
    /\ UNCHANGED <<env, loop>>

\* The map no longer had the fallback: reading `candidate.apiKey` throws, and
\* so does `candidate.model.id` in the inner catch, before it can write.
CandidateGone ==
    /\ pc = "candidateKey"
    /\ ~held
    /\ Surface(journal, "gone")
    /\ UNCHANGED <<env, loop>>

-----------------------------------------------------------------------------
\* The environment.
Abort ==
    /\ ~aborted
    /\ aborted' = TRUE
    /\ UNCHANGED <<configured, pc, loop, journal, stream>>

RemoveProfile(n) ==
    /\ pc # "end"
    /\ n \in configured
    /\ configured' = configured \ {n}
    /\ UNCHANGED <<aborted, pc, loop, journal, stream>>

Run ==
    \/ Start
    \/ PrimaryKeyResolves \/ PrimaryKeyFails
    \/ TransportSucceeds
    \/ \E error \in {"transient", "fatal"} : TransportFails(error)
    \/ BackoffElapses \/ BackoffAborts
    \/ CandidateKeyResolves \/ CandidateKeyFails \/ CandidateGone

Next == Run \/ Abort \/ \E n \in Removable : RemoveProfile(n)

Spec == Init /\ [][Next]_vars

\* A key is on its way: the command of a `!command` reference runs in a shell
\* that has neither a timer nor the caller's signal, and may run for ever.
KeyAwaited == pc = "primaryKey" \/ (pc = "candidateKey" /\ held)

\* Every other promise run() awaits settles: backoffs are timers, transports
\* settle because their service answers or the socket drops.
FairSpec == Spec /\ WF_vars(~KeyAwaited /\ Run)

-----------------------------------------------------------------------------
Dispatched(j, i) == i \in DOMAIN j /\ j[i].kind = "dispatch"
Calls(j) == Cardinality({i \in DOMAIN j : j[i].kind = "dispatch"})

\* Every variable has its type; in particular attempt never passes MaxAttempts.
TypeOK ==
    /\ configured \in SUBSET Names
    /\ aborted \in BOOLEAN
    /\ pc \in {"start", "primaryKey", "transport", "backoff", "candidateKey", "end"}
    /\ eligible \in SUBSET Positions
    /\ cand \in 0..Len(FallbackProfiles)
    /\ attempt \in 1..MaxAttempts
    /\ held \in BOOLEAN
    /\ journal \in Seq(Entry)
    /\ stream \in Seq({"start", "done", "fail"})

\* The assistant stream receives one terminal event, as the last thing run()
\* does: a whole replay or one failure, never both and never a part of one.
OneTerminal ==
    /\ stream \in {<<>>, <<"start", "done">>, <<"fail">>}
    /\ (pc = "end") <=> (stream # <<>>)

\* A turn makes no more backend calls than maxAttempts and the fallbacks allow.
CallBudget == Calls(journal) <= MaxAttempts + Len(FallbackProfiles)

\* A call is repeated, or moved to a fallback, only because the call just
\* before it failed with a transient error: what was answered, or refused for
\* good, is not dispatched again.
RetryOnlyAfterTransient ==
    \A i \in DOMAIN journal : Dispatched(journal, i) /\ i > 1 =>
        /\ journal[i - 1].kind = "dispatch-error"
        /\ journal[i - 1].error = "transient"

\* The order of the loop: no attempt is repeated or taken out of order, and a
\* fallback is called only when the primary has used all its attempts and every
\* earlier fallback of the turn has been called.
FallbackOrder ==
    /\ \A i, j \in DOMAIN journal :
          i < j /\ Dispatched(journal, i) /\ Dispatched(journal, j) =>
              \/ journal[i].cand < journal[j].cand
              \/ journal[i].cand = journal[j].cand /\ journal[i].attempt < journal[j].attempt
    /\ \A j \in DOMAIN journal :
          Dispatched(journal, j) /\ journal[j].cand > 0 =>
              /\ \E i \in 1..(j - 1) : /\ Dispatched(journal, i)
                                       /\ journal[i].cand = 0
                                       /\ journal[i].attempt = MaxAttempts
              /\ \A p \in eligible : p < journal[j].cand =>
                    \E i \in 1..(j - 1) : Dispatched(journal, i) /\ journal[i].cand = p

\* "then each named fallback profile once, in order": whatever the user deletes
\* meanwhile, a turn fails for a transient reason only when every fallback of the
\* turn has been called; and it fails for a profile that is gone only when this
\* is the deleted one and all before it have been called.
Called(p) == \E i \in DOMAIN journal : Dispatched(journal, i) /\ journal[i].cand = p
ExhaustsFallbacks ==
    pc = "end" /\ stream = <<"fail">> =>
        /\ journal[Len(journal)].error = "transient" => \A p \in eligible : Called(p)
        /\ journal[Len(journal)].error = "gone" =>
              /\ cand \in eligible /\ FallbackProfiles[cand] \notin configured
              /\ \A p \in eligible : p < cand => Called(p)

\* Once the caller has aborted, the only dispatch still possible is the one
\* whose key was being resolved; no backoff leads to a further attempt.
NoRetryAfterAbort ==
    [][aborted /\ pc # "transport" /\ pc' = "transport" => pc \in {"primaryKey", "candidateKey"}]_vars

-----------------------------------------------------------------------------
(* The inductive invariant: where the loop stands, told from the journal.    *)
Before   == pc \in {"start", "primaryKey"}
Between  == pc \in {"backoff", "candidateKey"}

\* Place of the current attempt among all attempts the turn may make.
Place(c, a) == IF c = 0 THEN a ELSE MaxAttempts + c
Slot == Place(cand, attempt)
Used == IF Before THEN 0 ELSE IF Between THEN Slot - 1 ELSE Slot

LoopPosition ==
    /\ Before => journal = <<>> /\ cand = 0 /\ attempt = 1
    /\ cand > 0 => attempt = 1
    /\ pc = "candidateKey" => cand > 0
    /\ Between => /\ Len(journal) > 0
                  /\ journal[Len(journal)].kind = "dispatch-error"
                  /\ journal[Len(journal)].error = "transient"
    /\ pc = "transport" => \E i \in DOMAIN journal : /\ Dispatched(journal, i)
                                                     /\ journal[i].cand = cand
                                                     /\ journal[i].attempt = attempt

\* No dispatch lies ahead of the loop.
NothingAhead ==
    \A i \in DOMAIN journal : Dispatched(journal, i) =>
        \/ journal[i].cand < cand
        \/ journal[i].cand = cand /\ journal[i].attempt < attempt
        \/ journal[i].cand = cand /\ journal[i].attempt = attempt /\ ~Between

\* Everything behind a fallback has been tried.
BehindTried ==
    cand > 0 =>
        /\ \E i \in DOMAIN journal : /\ Dispatched(journal, i)
                                     /\ journal[i].cand = 0
                                     /\ journal[i].attempt = MaxAttempts
        /\ \A p \in eligible : p < cand =>
              \E i \in DOMAIN journal : Dispatched(journal, i) /\ journal[i].cand = p

IInv ==
    /\ TypeOK
    /\ OneTerminal
    /\ LoopPosition
    /\ NothingAhead
    /\ BehindTried
    /\ Calls(journal) <= Used
    /\ RetryOnlyAfterTransient
    /\ FallbackOrder

\* The turn as its caller sees it.
Turn == INSTANCE TurnContract WITH
    Budget <- MaxAttempts + Len(FallbackProfiles),
    status <- IF stream = <<>> THEN "open"
              ELSE IF stream = <<"fail">> THEN "failed" ELSE "replied",
    calls  <- Calls(journal),
    last   <- IF pc = "end" THEN "answered"
              ELSE IF pc = "transport" THEN "pending"
              ELSE IF pc = "backoff" THEN "transient"
              ELSE IF pc \in {"primaryKey", "candidateKey"} THEN "key" ELSE "none"

\* The dispatcher implements the contract of a turn: one call at a time, another
\* one only after a transient failure, a bounded number, one end; and nothing
\* but a key that never comes keeps the turn from it.
ImplementsTurn == Turn!TurnContractSpec
=============================================================================
