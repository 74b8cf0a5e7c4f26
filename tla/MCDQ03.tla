------------------------------- MODULE MCDQ03 -------------------------------
(* Two executions of DQ-03, two symbols, two contracts and two accounts;   *)
(* or, at the other end of the handoff, a laboratory that evaluates a      *)
(* history of nineteen candles with two variants of a strategy.  The two   *)
(* share no state: a behaviour is of one of them.                          *)
EXTENDS DQ03Handoff, ResearchLab, TLC

CONSTANTS e1, e2, c1, c2, a1, a2, k1

Interchangeable == Permutations({e1, e2}) \cup Permutations({c1, c2}) \cup Permutations({a1, a2})

MCVariants == <<"v1", "v2">>
MCMinimumHistory == [v1 |-> 1, v2 |-> 2]

\* The candles of development and validation, and those of the test.
Early ==
    {[k \in 1 .. 14 |-> "up"],
     [k \in 1 .. 14 |-> IF k = 13 THEN "quiet" ELSE "up"],
     [k \in 1 .. 14 |-> IF k = 10 THEN "down" ELSE "up"],
     [k \in 1 .. 14 |-> IF k % 3 = 0 THEN "quiet" ELSE "up"],
     [k \in 1 .. 14 |-> IF k % 4 = 2 THEN "down" ELSE IF k % 4 = 0 THEN "both" ELSE "up"]}
Late ==
    {[k \in 15 .. Length |-> IF k \in U THEN "up" ELSE IF k \in D THEN "down" ELSE "quiet"] :
        U \in {{}, {17}, {16, 18}, {17, 19}, 16 .. 19}, D \in {{}, {17}, {18}, {18, 19}}}

Cues ==
    {[v1 |-> [i \in 1 .. Length |-> "LONG"],
      v2 |-> [i \in 1 .. Length |-> IF i % 2 = 1 THEN "LONG" ELSE "none"]],
     [v1 |-> [i \in 1 .. Length |-> IF i % 2 = 0 THEN "LONG" ELSE "TIGHT"],
      v2 |-> [i \in 1 .. Length |-> IF i % 3 = 0 THEN "SHORT" ELSE "LONG"]]}

MCHistories ==
    {[move |-> [k \in 1 .. Length |-> IF k < 15 THEN early[k] ELSE late[k]],
      signal |-> cues, shut |-> shut, gaps |-> gaps, mark |-> 40] :
        early \in Early, late \in Late, cues \in Cues, shut \in {{}, {18}, 15 .. 19},
        gaps \in {{}, {3}, {10}, {13}}}

MCInit == HandoffInit /\ LabOff

MCNext ==
    \/ stage = "off" /\ HandoffNext /\ UNCHANGED labVars
    \/ begun = 0 /\ loader.pc = "off" /\ LabNext /\ UNCHANGED handoffVars

MCSpec == MCInit /\ [][MCNext]_<<handoffVars, labVars>>
=============================================================================
