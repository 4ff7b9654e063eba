---------------------------- MODULE MCEventQueue ----------------------------
(* EventQueue on a small instance; the cfg gives the constants values.     *)
EXTENDS EventQueue
=============================================================================
