CONSTANTS
    Profiles <- MCProfiles
    Endpoints <- MCEndpoints
    Reports <- MCReports
    Fresh <- MCBoth
    WorkersTTL = 2
    PricesTTL = 2
    Latency = 1
    MaxTime = 3
SPECIFICATION CostSpec
PROPERTIES FreshRereads NeverStale
\* The clock is bounded.
CHECK_DEADLOCK FALSE
