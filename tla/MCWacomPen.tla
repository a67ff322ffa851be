----------------------------- MODULE MCWacomPen -----------------------------
(* wacom-wez01 on small instances.                                         *)
EXTENDS WacomPen
=============================================================================
