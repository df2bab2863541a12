------------------------------ MODULE CostCache ------------------------------
(***************************************************************************)
(* The cost service behind `/runpod cost`, createCostService in            *)
(* src/src/cost.ts, with its two TimedHealthCaches (health.ts) and the     *)
(* control dispatcher index.ts gives it.  A report of a serverless profile *)
(* estimates the burn rate from the catalog's prices and the endpoint's    *)
(* workers, both cached.  Reports may overlap, and the user reconfigures   *)
(* profiles meanwhile.  The billing records it asks for at the same time   *)
(* are never cached and touch none of this.                                *)
(*                                                                         *)
(* A set of workers is abstracted to the endpoint it belongs to and the    *)
(* moment at which the platform told it; the arithmetic on it is left out. *)
(***************************************************************************)
EXTENDS Integers

CONSTANTS
    Profiles,       \* serverless profiles
    Endpoints,      \* endpoints they may be configured for
    Reports,        \* reports that may overlap
    Fresh,          \* values of opts.fresh in use
    WorkersTTL,     \* lifetime of the workers cache, in ticks
    PricesTTL,      \* lifetime of the catalog cache, in ticks
    Latency,        \* bound: ticks an answer of the platform may travel
    MaxTime         \* bound: ticks

ASSUME CostAssumption ==
    /\ Fresh \subseteq BOOLEAN
    /\ WorkersTTL \in Nat \ {0} /\ PricesTTL \in Nat \ {0}      \* 15 s and an hour
    /\ Latency \in Nat /\ MaxTime \in Nat

VARIABLES
    now,            \* the clock
    endpoint,       \* invokeUrl of each profile in state.profiles
    workersCache,   \* per profile: what was told, and when it was stored
    pricesCache,    \* when the prices were stored
    report          \* the reports: where each is and what it has

ovars == <<now, endpoint, workersCache, pricesCache, report>>

Never   == -1
Nothing == [of |-> "none", at |-> Never, setAt |-> Never]

NoReport == [step |-> "idle", profile |-> "none", fresh |-> FALSE, since |-> 0,
             asked |-> "none", told |-> Never, of |-> "none", at |-> Never]

CostInit ==
    /\ now = 0
    /\ endpoint \in [Profiles -> Endpoints]
    /\ workersCache = [p \in Profiles |-> Nothing]
    /\ pricesCache = Never
    /\ report = [r \in Reports |-> NoReport]

-----------------------------------------------------------------------------
\* TimedHealthCache.get: held only while its age is below the lifetime.
HeldToTheEnd(setAt, ttl) == setAt # Never /\ now - setAt <= ttl
Held(setAt, ttl) == setAt # Never /\ now - setAt < ttl

\* The estimate once it has prices: cached workers end it, else they are asked
\* for, from the endpoint the profile has at this moment.
AlwaysCached(c, p) ==
    IF Held(workersCache[p].setAt, WorkersTTL)
    THEN [c EXCEPT !.step = "done", !.of = workersCache[p].of, !.at = workersCache[p].at]
    ELSE [c EXCEPT !.step = "workers", !.asked = endpoint[p], !.told = Never]
WithPrices(c, p) ==
    IF ~c.fresh /\ Held(workersCache[p].setAt, WorkersTTL)
    THEN [c EXCEPT !.step = "done", !.of = workersCache[p].of, !.at = workersCache[p].at]
    ELSE [c EXCEPT !.step = "workers", !.asked = endpoint[p], !.told = Never]

\* report: estimate runs up to its first await.
Begin(r, p, fresh) ==
    /\ report[r].step = "idle"
    /\ LET c == [NoReport EXCEPT !.step = "prices", !.profile = p, !.fresh = fresh, !.since = now]
       IN  report' = [report EXCEPT ![r] =
              IF ~fresh /\ Held(pricesCache, PricesTTL) THEN WithPrices(c, p) ELSE c]
    /\ UNCHANGED <<now, endpoint, workersCache, pricesCache>>

PricesArrive(r) ==
    /\ report[r].step = "prices"
    /\ pricesCache' = now
    /\ report' = [report EXCEPT ![r] = WithPrices(@, @.profile)]
    /\ UNCHANGED <<now, endpoint, workersCache>>

\* The platform tells the workers of the endpoint it was asked about.
WorkersTold(r) ==
    /\ report[r].step = "workers" /\ report[r].told = Never
    /\ report' = [report EXCEPT ![r].told = now]
    /\ UNCHANGED <<now, endpoint, workersCache, pricesCache>>

Store(p, c) ==
    workersCache' = [workersCache EXCEPT ![p] = [of |-> c.asked, at |-> c.told, setAt |-> now]]

\* fetchWorkers returns: stored under the profile's name, and used.
WorkersArrive(r) ==
    /\ report[r].step = "workers" /\ report[r].told # Never
    /\ Store(report[r].profile, report[r])
    /\ report' = [report EXCEPT ![r].step = "done", ![r].of = report[r].asked,
                                 ![r].at = report[r].told]
    /\ UNCHANGED <<now, endpoint, pricesCache>>

\* A control operation that fails ends the report; nothing is stored.
EstimateFails(r) ==
    /\ report[r].step \in {"prices", "workers"}
    /\ report' = [report EXCEPT ![r] = NoReport]
    /\ UNCHANGED <<now, endpoint, workersCache, pricesCache>>

\* The command has shown its report.
Shown(r) ==
    /\ report[r].step = "done"
    /\ report' = [report EXCEPT ![r] = NoReport]
    /\ UNCHANGED <<now, endpoint, workersCache, pricesCache>>

-----------------------------------------------------------------------------
\* configure or profile add, reloaded: the name has another endpoint.
Reconfigure(p, e) ==
    /\ endpoint[p] # e
    /\ endpoint' = [endpoint EXCEPT ![p] = e]
    /\ UNCHANGED <<now, workersCache, pricesCache, report>>

\* No answer travels longer than Latency.
Tick ==
    /\ now < MaxTime
    /\ \A r \in Reports : report[r].step = "workers" /\ report[r].told # Never =>
                             now - report[r].told < Latency
    /\ now' = now + 1
    /\ UNCHANGED <<endpoint, workersCache, pricesCache, report>>

Estimating(r) == PricesArrive(r) \/ WorkersTold(r) \/ WorkersArrive(r) \/ EstimateFails(r)

CostNext ==
    \/ \E r \in Reports : \/ \E p \in Profiles, f \in Fresh : Begin(r, p, f)
                          \/ Estimating(r) \/ Shown(r)
    \/ \E p \in Profiles, e \in Endpoints : Reconfigure(p, e)
    \/ Tick

CostSpec == CostInit /\ [][CostNext]_ovars

-----------------------------------------------------------------------------
\* Every variable has its type; caches hold what was told up to now.
CostTypeOK ==
    /\ now \in 0..MaxTime
    /\ endpoint \in [Profiles -> Endpoints]
    /\ workersCache \in [Profiles -> [of : Endpoints \cup {"none"}, at : -1..MaxTime, setAt : -1..MaxTime]]
    /\ pricesCache \in -1..MaxTime
    /\ report \in [Reports ->
          [step : {"idle", "prices", "workers", "done"}, profile : Profiles \cup {"none"},
           fresh : BOOLEAN, since : 0..MaxTime,
           asked : Endpoints \cup {"none"}, told : -1..MaxTime,
           of : Endpoints \cup {"none"}, at : -1..MaxTime]]

Ends(r) == report[r].step # "done" /\ report'[r].step = "done"

\* "Both are bypassed when fresh: true": a fresh report shows what the platform
\* told after the report began, whatever other reports stored meanwhile.  It is
\* of reports that are asked to be fresh: `/runpod cost` asks for none
\* (index.ts:245), so that of what the command shows only NeverStale speaks.
FreshRereads ==
    [][\A r \in Reports : Ends(r) /\ report'[r].fresh => report'[r].at >= report'[r].since]_ovars

\* "a stale healthy value is never handed out": at the moment an estimate is
\* made its workers were told less than the cache's lifetime ago, not counting
\* the time an answer may have travelled.
NeverStale ==
    [][\A r \in Reports : Ends(r) => now - report'[r].at < WorkersTTL + Latency]_ovars
=============================================================================
