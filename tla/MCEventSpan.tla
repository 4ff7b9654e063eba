----------------------------- MODULE MCEventSpan -----------------------------
(* EventSpan on a small instance; the cfg gives the constants values.      *)
EXTENDS EventSpan
=============================================================================
