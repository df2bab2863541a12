-------------------------- MODULE MCQueueTransport --------------------------
(* Two chunks, so that one answer can carry a part; a TTL of two intervals.  *)
EXTENDS QueueTransport

MCModes == {"sync", "async", "stream"}
MCFaults == {"5xx", "4xx", "drop", "bad"}
=============================================================================
