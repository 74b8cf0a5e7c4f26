---------------------------- MODULE MCTournament ----------------------------
(* Two processes on one store.                                             *)
EXTENDS Tournament, TLC

CONSTANTS r1, r2
MCRuntimes == {r1, r2}
MCSymmetry == Permutations(MCRuntimes)
=============================================================================
