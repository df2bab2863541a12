-------------------------------- MODULE Loops --------------------------------
(* The loops by which the code takes some elements of a sequence: one pass,   *)
(* a condition, a push.  Written as the recursion it is, so that it can be    *)
(* proved about.                                                              *)
EXTENDS Naturals, Sequences

\* What a loop pushes that goes over s and takes what stands at the places of S.
Keep(n, s, S) ==
    LET kept[k \in 0..n] == IF k = 0 THEN <<>>
                            ELSE IF k \in S THEN Append(kept[k - 1], s[k]) ELSE kept[k - 1]
    IN  kept[n]
==============================================================================
