--------------------------- MODULE MCProviderQueue ---------------------------
(* Two attempts on the primary and one fallback: three calls, three jobs.     *)
EXTENDS ProviderQueue

MCNames == {"a", "b"}
MCFallbacks == <<"b">>
MCModes == {"sync", "async", "stream"}
MCFaults == {"5xx", "drop"}
=============================================================================
