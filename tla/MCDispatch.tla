----------------------------- MODULE MCDispatch -----------------------------
(* Four names: the primary "a", two fallbacks, and a name nobody configures. *)
(* The list repeats a fallback, names the primary itself and a ghost.        *)
EXTENDS Dispatch

MCNames == {"a", "b", "c", "ghost"}
MCFallbacks == <<"b", "ghost", "a", "c", "b">>
=============================================================================
