---------------------------- MODULE MCGuiSession ----------------------------
(* GuiSession on a small instance; the cfg gives the constants values.     *)
EXTENDS GuiSession
=============================================================================
