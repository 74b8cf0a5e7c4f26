--------------------------- MODULE MCDemoOperator ---------------------------
(***************************************************************************)
(* Small instances of DemoOperator for TLC.                                *)
(***************************************************************************)
EXTENDS DemoOperator, TLC

CONSTANTS c1, c2, w1, w2, f
=============================================================================
