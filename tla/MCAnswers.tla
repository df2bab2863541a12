------------------------------ MODULE MCAnswers ------------------------------
(* Every chunk with up to two calls, and frames with fragments of two calls.  *)
EXTENDS Answers

MCChunks == [text : {"absent", "empty", "some"}, think : BOOLEAN,
             calls : {<<>>, <<"call">>, <<"broken", "call">>, <<"cut", "call">>, <<"bare">>}]
Plain == [think |-> FALSE, text |-> FALSE, index |-> -1, id |-> FALSE, name |-> FALSE,
          args |-> "none", json |-> TRUE]
MCFrames ==
    {[Plain EXCEPT !.think = a, !.text = b] : a, b \in BOOLEAN}
    \cup {[Plain EXCEPT !.index = x, !.id = a, !.name = a, !.args = b] :
             x \in {0, 1}, a \in BOOLEAN, b \in {"none", "head", "tail", "whole"}}
    \cup {[Plain EXCEPT !.index = 0, !.args = "mid"], [Plain EXCEPT !.json = FALSE]}
    \cup {[Plain EXCEPT !.index = 0, !.id = TRUE, !.text = TRUE]}
=============================================================================
