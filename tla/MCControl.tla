------------------------------ MODULE MCControl ------------------------------
(* All three endpoint families; the extension's dispatcher tells no pod id.    *)
EXTENDS Control

MCFamilies == {"queue", "load-balanced", "pod"}
MCAnyCaller == BOOLEAN
MCExtension == {FALSE}
=============================================================================
