-------------------------- MODULE MCFrameDelivery ---------------------------
(* Model-checking instances of FrameDelivery. *)
EXTENDS FrameDelivery
=============================================================================
