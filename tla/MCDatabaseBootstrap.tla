------------------------- MODULE MCDatabaseBootstrap -------------------------
(* Two executions that may overlap.                                        *)
EXTENDS DatabaseBootstrap, TLC

CONSTANTS j1, j2
MCJobs == {j1, j2}
MCSymmetry == Permutations(MCJobs)
=============================================================================
