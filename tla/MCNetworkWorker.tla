-------------------------- MODULE MCNetworkWorker --------------------------
(* The TCP transport of two sessions; one of them sends before it closes.  *)
EXTENDS NetworkWorker

Uneven == [p \in Peers |-> p]
=============================================================================
