--------------------------- MODULE MCDemoExecution ---------------------------
(***************************************************************************)
(* Small instances of DemoExecution for TLC.                               *)
(***************************************************************************)
EXTENDS DemoExecution, TLC

CONSTANTS worker, console, i1, i2, cycle

\* All intents compete for one global cycle.
OneCycle == [i \in Intent |-> cycle]
=============================================================================
