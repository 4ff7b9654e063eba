------------------------------ MODULE MCFraming ------------------------------
(* Framing on a small instance; the cfg gives the constants values.        *)
EXTENDS Framing
=============================================================================
