--------------------------- MODULE MCWindowRouter ---------------------------
(* WindowRouter and WindowBuffer side by side on a small instance; the cfg  *)
(* gives the constants values.                                             *)
EXTENDS WindowBuffer
=============================================================================
