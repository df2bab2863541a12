--------------------------- MODULE CostCacheProofs ---------------------------
(* The cost service's caches for any number of profiles, endpoints and       *)
(* overlapping reports, and any lifetimes.                                   *)
EXTENDS CostCache, TLAPS

Cached == [of : Endpoints \cup {"none"}, at : -1..MaxTime, setAt : -1..MaxTime]
Report == [step : {"idle", "prices", "workers", "done"}, profile : Profiles \cup {"none"},
           fresh : BOOLEAN, since : 0..MaxTime,
           asked : Endpoints \cup {"none"}, told : -1..MaxTime,
           of : Endpoints \cup {"none"}, at : -1..MaxTime]

\* A cached entry had been told at most Latency before it was stored.
StoredInTime(w) == w.setAt # Never => /\ w.at # Never /\ w.at <= w.setAt
                                      /\ w.setAt - w.at <= Latency
                                      /\ w.setAt <= now

\* A report in progress has a profile; an answer on its way was given after the
\* report began and at most Latency ago.
OnItsWay(c) ==
    /\ c.step # "idle" => c.profile \in Profiles
    /\ c.since <= now
    /\ c.step = "workers" /\ c.told # Never => /\ c.since <= c.told /\ c.told <= now
                                               /\ now - c.told <= Latency

OInv == /\ CostTypeOK
        /\ \A p \in Profiles : StoredInTime(workersCache[p])
        /\ \A r \in Reports : OnItsWay(report[r])

-----------------------------------------------------------------------------
\* What is read from the state has its type.
LEMMA Lookup ==
  ASSUME CostTypeOK
  PROVE  /\ \A r \in Reports : report[r] \in Report
         /\ \A p \in Profiles : workersCache[p] \in Cached /\ endpoint[p] \in Endpoints
         /\ now \in 0..MaxTime /\ MaxTime \in Nat
BY CostAssumption DEF CostTypeOK, Report, Cached

\* Replacing one report by a sound one keeps the invariant.
LEMMA ReportStep ==
  ASSUME OInv, NEW r \in Reports, NEW c \in Report, report' = [report EXCEPT ![r] = c],
         OnItsWay(c), UNCHANGED <<now, endpoint, workersCache>>,
         pricesCache' \in -1..MaxTime
  PROVE  OInv'
<1>1. report' \in [Reports -> Report]
  BY DEF OInv, CostTypeOK, Report
<1>2. \A q \in Reports : report'[q] = IF q = r THEN c ELSE report[q]
  BY DEF OInv, CostTypeOK
<1>3. CostTypeOK'
  BY <1>1 DEF OInv, CostTypeOK, Report
<1>4. (\A q \in Reports : OnItsWay(report[q]))'
  BY <1>2 DEF OInv, OnItsWay
<1>5. (\A p \in Profiles : StoredInTime(workersCache[p]))'
  BY DEF OInv, StoredInTime
<1> QED BY <1>3, <1>4, <1>5 DEF OInv

\* The estimate with prices is a sound report: done, or asking for workers.
LEMMA WithPricesStep ==
  ASSUME OInv, NEW c \in Report, NEW p \in Profiles, c.profile = p, c.since <= now
  PROVE  WithPrices(c, p) \in Report /\ OnItsWay(WithPrices(c, p))
<1>1. /\ workersCache[p] \in Cached /\ endpoint[p] \in Endpoints
      /\ MaxTime \in Nat /\ -1 \in -1..MaxTime
  BY Lookup DEF OInv
<1>2. CASE ~c.fresh /\ Held(workersCache[p].setAt, WorkersTTL)
  <2>1. WithPrices(c, p) = [c EXCEPT !.step = "done", !.of = workersCache[p].of,
                                     !.at = workersCache[p].at]
    BY <1>2 DEF WithPrices
  <2> QED BY <1>1, <2>1 DEF Report, Cached, OnItsWay
<1>3. CASE ~(~c.fresh /\ Held(workersCache[p].setAt, WorkersTTL))
  <2>1. WithPrices(c, p) = [c EXCEPT !.step = "workers", !.asked = endpoint[p], !.told = Never]
    BY <1>3 DEF WithPrices
  <2> QED BY <1>1, <2>1 DEF Report, OnItsWay, Never
<1> QED BY <1>2, <1>3

\* A report that is given up is sound.
LEMMA NoReportSound == ASSUME OInv PROVE NoReport \in Report /\ OnItsWay(NoReport)
BY Lookup DEF OInv, NoReport, Report, OnItsWay, Never

\* The first state.
LEMMA OInitInv == CostInit => OInv
<1> SUFFICES ASSUME CostInit PROVE OInv
  OBVIOUS
<1>1. NoReport \in Report /\ Nothing \in Cached /\ MaxTime \in Nat
  BY CostAssumption DEF NoReport, Nothing, Report, Cached, Never
<1>2. CostTypeOK
  BY <1>1 DEF CostInit, CostTypeOK, Report, Cached, Never
<1>3. \A p \in Profiles : StoredInTime(workersCache[p])
  BY DEF CostInit, StoredInTime, Nothing
<1>4. \A r \in Reports : OnItsWay(report[r])
  BY DEF CostInit, OnItsWay, NoReport
<1> QED BY <1>2, <1>3, <1>4 DEF OInv

\* Every step keeps the invariant.
LEMMA OStepInv == OInv /\ [CostNext]_ovars => OInv'
<1> SUFFICES ASSUME OInv, [CostNext]_ovars PROVE OInv'
  OBVIOUS
<1>0. /\ \A r \in Reports : report[r] \in Report /\ OnItsWay(report[r])
      /\ \A p \in Profiles : workersCache[p] \in Cached /\ endpoint[p] \in Endpoints
      /\ now \in 0..MaxTime /\ MaxTime \in Nat /\ pricesCache \in -1..MaxTime
  BY Lookup DEF OInv, CostTypeOK
<1>1. ASSUME NEW r \in Reports, NEW p \in Profiles, NEW f \in Fresh, Begin(r, p, f)
      PROVE  OInv'
  <2> DEFINE c == [NoReport EXCEPT !.step = "prices", !.profile = p, !.fresh = f,
                                   !.since = now]
  <2>1. c \in Report /\ c.profile = p /\ c.since <= now /\ OnItsWay(c)
    <3>1. NoReport \in Report /\ f \in BOOLEAN /\ endpoint[p] \in Endpoints
      BY <1>0, CostAssumption, NoReportSound
    <3>2. c \in Report
      BY <1>0, <3>1 DEF Report
    <3>3. c.profile = p /\ c.since = now /\ c.step = "prices"
      BY <3>1 DEF Report
    <3> QED BY <1>0, <3>2, <3>3 DEF OnItsWay
  <2>2. CASE ~f /\ Held(pricesCache, PricesTTL)
    <3>1. report' = [report EXCEPT ![r] = WithPrices(c, p)]
      BY <1>1, <2>2 DEF Begin
    <3>2. WithPrices(c, p) \in Report /\ OnItsWay(WithPrices(c, p))
      BY <2>1, WithPricesStep
    <3> QED BY <1>0, <1>1, <3>1, <3>2, ReportStep DEF Begin
  <2>3. CASE ~(~f /\ Held(pricesCache, PricesTTL))
    <3>1. report' = [report EXCEPT ![r] = c]
      BY <1>1, <2>3 DEF Begin
    <3> QED BY <1>0, <1>1, <2>1, <3>1, ReportStep DEF Begin
  <2> QED BY <2>2, <2>3
<1>2. ASSUME NEW r \in Reports, PricesArrive(r)
      PROVE  OInv'
  <2>1. report[r] \in Report /\ report[r].profile \in Profiles /\ report[r].since <= now
    BY <1>0, <1>2 DEF PricesArrive, OnItsWay
  <2>2. WithPrices(report[r], report[r].profile) \in Report
        /\ OnItsWay(WithPrices(report[r], report[r].profile))
    BY <2>1, WithPricesStep
  <2>3. report' = [report EXCEPT ![r] = WithPrices(report[r], report[r].profile)]
    BY <1>2 DEF PricesArrive
  <2>4. UNCHANGED <<now, endpoint, workersCache>> /\ pricesCache' \in -1..MaxTime
    BY <1>0, <1>2 DEF PricesArrive
  <2> QED BY <2>2, <2>3, <2>4, ReportStep
<1>3. ASSUME NEW r \in Reports, WorkersTold(r)
      PROVE  OInv'
  <2>1. [report[r] EXCEPT !.told = now] \in Report
    BY <1>0 DEF Report
  <2>2. OnItsWay([report[r] EXCEPT !.told = now])
    BY <1>0, CostAssumption DEF Report, OnItsWay
  <2>3. report' = [report EXCEPT ![r] = [report[r] EXCEPT !.told = now]]
    BY <1>3 DEF WorkersTold
  <2> QED BY <1>0, <1>3, <2>1, <2>2, <2>3, ReportStep DEF WorkersTold
<1>4. ASSUME NEW r \in Reports, WorkersArrive(r)
      PROVE  OInv'
  <2> DEFINE p == report[r].profile
             w == [of |-> report[r].asked, at |-> report[r].told, setAt |-> now]
             c == [report[r] EXCEPT !.step = "done", !.of = report[r].asked, !.at = report[r].told]
  <2>1. /\ p \in Profiles /\ report[r].told # Never /\ report[r].told \in Int
        /\ report[r].told <= now /\ now - report[r].told <= Latency
    BY <1>0, <1>4 DEF WorkersArrive, OnItsWay, Report
  <2>2. w \in Cached /\ StoredInTime(w)
    BY <1>0, <2>1 DEF Report, Cached, StoredInTime
  <2>3. c \in Report /\ OnItsWay(c)
    BY <1>0, <2>1 DEF Report, OnItsWay
  <2>4. /\ workersCache' = [workersCache EXCEPT ![p] = w]
        /\ report' = [report EXCEPT ![r] = c]
        /\ UNCHANGED <<now, endpoint, pricesCache>>
    BY <1>4 DEF WorkersArrive, Store
  <2>5. CostTypeOK'
    BY <2>1, <2>2, <2>3, <2>4 DEF OInv, CostTypeOK, Report, Cached
  <2>6. (\A q \in Profiles : StoredInTime(workersCache[q]))'
    <3>1. \A q \in Profiles : workersCache'[q] = IF q = p THEN w ELSE workersCache[q]
      BY <2>1, <2>4 DEF OInv, CostTypeOK
    <3> QED BY <2>2, <2>4, <3>1 DEF OInv, StoredInTime
  <2>7. (\A q \in Reports : OnItsWay(report[q]))'
    <3>1. \A q \in Reports : report'[q] = IF q = r THEN c ELSE report[q]
      BY <2>4 DEF OInv, CostTypeOK
    <3> QED BY <2>3, <2>4, <3>1 DEF OInv, OnItsWay
  <2> QED BY <2>5, <2>6, <2>7 DEF OInv
<1>5. ASSUME NEW r \in Reports, EstimateFails(r) \/ Shown(r)
      PROVE  OInv'
  BY <1>0, <1>5, NoReportSound, ReportStep DEF EstimateFails, Shown
<1>6. ASSUME NEW p \in Profiles, NEW e \in Endpoints, Reconfigure(p, e)
      PROVE  OInv'
  <2>1. UNCHANGED <<now, workersCache, pricesCache, report>> /\ endpoint' \in [Profiles -> Endpoints]
    BY <1>6 DEF Reconfigure, OInv, CostTypeOK
  <2> QED BY <2>1 DEF OInv, CostTypeOK, StoredInTime, OnItsWay
<1>7. CASE Tick
  <2>1. now' = now + 1 /\ now' \in 0..MaxTime /\ UNCHANGED <<endpoint, workersCache, pricesCache, report>>
    BY <1>0, <1>7 DEF Tick
  <2>2. (\A p \in Profiles : StoredInTime(workersCache[p]))'
    BY <1>0, <2>1 DEF OInv, StoredInTime, Cached
  <2>3. (\A r \in Reports : OnItsWay(report[r]))'
    BY <1>0, <1>7, <2>1, CostAssumption DEF Tick, OnItsWay, Report
  <2> QED BY <2>1, <2>2, <2>3 DEF OInv, CostTypeOK
<1>8. CASE UNCHANGED ovars
  BY <1>8 DEF ovars, OInv, CostTypeOK, StoredInTime, OnItsWay
<1> QED BY <1>1, <1>2, <1>3, <1>4, <1>5, <1>6, <1>7, <1>8 DEF CostNext, Estimating

-----------------------------------------------------------------------------
\* Types, what the cache holds and what is on its way, in every reachable state.
THEOREM CostInvariance == CostSpec => []OInv
BY OInitInv, OStepInv, PTL DEF CostSpec

\* Every variable keeps its type.
THEOREM CostTypeCorrect == CostSpec => []CostTypeOK
BY CostInvariance, PTL DEF OInv

-----------------------------------------------------------------------------
\* What a report that ends shows: what a held entry told, or what was on its way.
LEMMA EndsFrom ==
  ASSUME OInv, CostNext, NEW r \in Reports, Ends(r)
  PROVE  LET p == report[r].profile
         IN  \/ /\ report[r].step = "idle" \/ report[r].step = "prices"
                /\ ~report'[r].fresh
                /\ \E q \in Profiles : /\ Held(workersCache[q].setAt, WorkersTTL)
                                       /\ report'[r].at = workersCache[q].at
             \/ /\ report[r].step = "workers" /\ report[r].told # Never
                /\ report'[r].at = report[r].told
                /\ report'[r].since = report[r].since
<1>0. /\ report \in [Reports -> Report] /\ report[r] \in Report /\ OnItsWay(report[r])
      /\ report[r].step # "done" /\ report'[r].step = "done"
  BY DEF OInv, CostTypeOK, Report, Ends
<1>1. ASSUME NEW q \in Reports, NEW p \in Profiles, NEW f \in Fresh, Begin(q, p, f)
      PROVE  /\ report[r].step = "idle" /\ ~report'[r].fresh
             /\ Held(workersCache[p].setAt, WorkersTTL)
             /\ report'[r].at = workersCache[p].at
  <2> DEFINE c == [NoReport EXCEPT !.step = "prices", !.profile = p, !.fresh = f,
                                   !.since = now]
  <2>1. c.step = "prices" /\ c.fresh = f /\ WithPrices(c, p).fresh = f
    BY DEF NoReport, WithPrices
  <2>2. q = r
    BY <1>0, <1>1 DEF Begin
  <2>3. ~f /\ report'[r] = WithPrices(c, p)
    BY <1>0, <1>1, <2>1, <2>2 DEF Begin
  <2>4. Held(workersCache[p].setAt, WorkersTTL) /\ WithPrices(c, p).at = workersCache[p].at
    BY <1>0, <2>3 DEF NoReport, WithPrices
  <2> QED BY <1>1, <2>1, <2>2, <2>3, <2>4 DEF Begin
<1>2. ASSUME NEW q \in Reports, PricesArrive(q)
      PROVE  /\ report[r].step = "prices" /\ ~report'[r].fresh
             /\ report[r].profile \in Profiles
             /\ Held(workersCache[report[r].profile].setAt, WorkersTTL)
             /\ report'[r].at = workersCache[report[r].profile].at
  <2>1. q = r /\ report[r].step = "prices" /\ report'[r] = WithPrices(report[r], report[r].profile)
    BY <1>0, <1>2 DEF PricesArrive
  <2> QED BY <1>0, <2>1 DEF WithPrices, Report, OnItsWay
<1>3. ASSUME NEW q \in Reports, WorkersArrive(q)
      PROVE  /\ report[r].step = "workers" /\ report[r].told # Never
             /\ report'[r].at = report[r].told
             /\ report'[r].since = report[r].since
  <2>1. q = r
    BY <1>0, <1>3 DEF WorkersArrive
  <2>2. report'[r] = [report[r] EXCEPT !.step = "done", !.of = report[r].asked, !.at = report[r].told]
    BY <1>0, <1>3, <2>1 DEF WorkersArrive
  <2> QED BY <1>0, <1>3, <2>1, <2>2 DEF WorkersArrive, Report
<1>4. \A q \in Reports : ~WorkersTold(q) /\ ~EstimateFails(q) /\ ~Shown(q)
  BY <1>0 DEF WorkersTold, EstimateFails, Shown, NoReport, Report
<1>5. report' # report
  BY <1>0
<1>6. CASE \E q \in Reports, p \in Profiles, f \in Fresh : Begin(q, p, f)
  BY <1>1, <1>6
<1>7. CASE \E q \in Reports : PricesArrive(q)
  BY <1>2, <1>7
<1>8. CASE \E q \in Reports : WorkersArrive(q)
  BY <1>3, <1>8
<1> QED BY <1>4, <1>5, <1>6, <1>7, <1>8 DEF CostNext, Estimating, Reconfigure, Tick

\* No estimate is made from workers told a lifetime, plus a journey, ago.
THEOREM EstimateIsRecent == CostSpec => NeverStale
<1>1. OInv /\ [CostNext]_ovars =>
        [\A r \in Reports : Ends(r) => now - report'[r].at < WorkersTTL + Latency]_ovars
  <2> SUFFICES ASSUME OInv, CostNext, NEW r \in Reports, Ends(r)
               PROVE  now - report'[r].at < WorkersTTL + Latency
    OBVIOUS
  <2>1. /\ \A q \in Profiles : workersCache[q] \in Cached /\ StoredInTime(workersCache[q])
        /\ report[r] \in Report /\ OnItsWay(report[r]) /\ now \in Int
    BY Lookup DEF OInv
  <2>2. ASSUME NEW q \in Profiles, Held(workersCache[q].setAt, WorkersTTL),
               report'[r].at = workersCache[q].at
        PROVE  now - report'[r].at < WorkersTTL + Latency
    BY <2>1, <2>2, CostAssumption DEF Held, StoredInTime, Cached
  <2>3. CASE report[r].step = "workers" /\ report[r].told # Never /\ report'[r].at = report[r].told
    BY <2>1, <2>3, CostAssumption DEF OnItsWay, Report
  <2> QED BY <2>2, <2>3, EndsFrom
<1> QED BY <1>1, CostInvariance, PTL DEF CostSpec, NeverStale

\* A fresh report ignores the caches, its own profile's and whatever overlapping
\* reports have stored: it shows what was told after it began.
THEOREM FreshIsFresh == CostSpec => FreshRereads
<1>1. OInv /\ [CostNext]_ovars =>
        [\A r \in Reports : Ends(r) /\ report'[r].fresh => report'[r].at >= report'[r].since]_ovars
  <2> SUFFICES ASSUME OInv, CostNext, NEW r \in Reports, Ends(r), report'[r].fresh
               PROVE  report'[r].at >= report'[r].since
    OBVIOUS
  <2>1. report[r] \in Report /\ OnItsWay(report[r])
    BY Lookup DEF OInv
  <2>2. /\ report[r].step = "workers" /\ report[r].told # Never
        /\ report'[r].at = report[r].told
        /\ report'[r].since = report[r].since
    BY EndsFrom
  <2> QED BY <2>1, <2>2 DEF OnItsWay, Report
<1> QED BY <1>1, CostInvariance, PTL DEF CostSpec, FreshRereads
=============================================================================
