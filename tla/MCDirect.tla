------------------------------ MODULE MCDirect ------------------------------
(* Two attempts on the primary and one fallback, each an endpoint, a pod     *)
(* with an address of its own or a pod to be looked up; then probes.         *)
EXTENDS KeyedTurn

MCNames == {"a", "b"}
MCFallbacks == <<"b">>
=============================================================================
