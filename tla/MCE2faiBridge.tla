--------------------------- MODULE MCE2faiBridge ---------------------------
(* E2faiBridge on small instances; the cfgs give the constants values.     *)
EXTENDS E2faiBridge
=============================================================================
