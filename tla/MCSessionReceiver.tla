------------------------- MODULE MCSessionReceiver -------------------------
(* SessionReceiver on a small instance; the cfg gives the constants values. *)
EXTENDS SessionReceiver
=============================================================================
