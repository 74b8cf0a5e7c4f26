--------------------------- MODULE MCOfflinePaper ---------------------------
(***************************************************************************)
(* Small instances of OfflinePaper for TLC.                                *)
(***************************************************************************)
EXTENDS OfflinePaper

CONSTANTS run1, run2, fixture, other

\* Two fixtures of two cycles; the second one's exit is ambiguous.
TwoCycles == [s \in Source |-> IF s = fixture THEN "cycle" ELSE "other cycle"]
\* Both runs may be given the first fixture, the second run the other as well.
Inputs == [c \in Conductor |-> IF c = run1 THEN {fixture} ELSE {fixture, other}]
=============================================================================
