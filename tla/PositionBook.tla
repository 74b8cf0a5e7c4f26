---------------------------- MODULE PositionBook ----------------------------
(***************************************************************************)
(* What the shadow runtime promises about its hypothetical position.       *)
(*                                                                         *)
(* Each global cycle may claim one intent, and a new one may be claimed    *)
(* only when no other is unresolved.  What is known outside (the evidence) *)
(* trails the book: an intent is published before its lifecycle moves, and *)
(* never ahead of it.                                                      *)
(***************************************************************************)
EXTENDS Naturals

CONSTANTS
    Cycle,      \* the global cycles
    Terms,      \* instrument and levels of an intent
    NoTerms     \* "no intent"

VARIABLES
    terms,      \* terms of the intent each cycle has claimed
    stage,      \* 0 no intent, 1 created, 2 open, 3 closed, 4 reconciled
    published   \* the stage the evidence shows, 0 for none

bookVars == <<terms, stage, published>>

BookInit ==
    /\ terms = [c \in Cycle |-> NoTerms]
    /\ stage = [c \in Cycle |-> 0]
    /\ published = [c \in Cycle |-> 0]

Pending(c) == stage[c] \in {1, 2}

Claim(c, t) ==
    /\ stage[c] = 0
    /\ \A d \in Cycle : ~Pending(d)
    /\ terms' = [terms EXCEPT ![c] = t]
    /\ stage' = [stage EXCEPT ![c] = 1]
    /\ UNCHANGED published

MoveOn(c) ==
    /\ stage[c] \in 1..3
    /\ published[c] # 0
    /\ stage' = [stage EXCEPT ![c] = @ + 1]
    /\ UNCHANGED <<terms, published>>

Publish(c) ==
    /\ published[c] < stage[c]
    /\ published' = [published EXCEPT ![c] = @ + 1]
    /\ UNCHANGED <<terms, stage>>

BookNext ==
    \E c \in Cycle : (\E t \in Terms : Claim(c, t)) \/ MoveOn(c) \/ Publish(c)

BookSpec == BookInit /\ [][BookNext]_bookVars
=============================================================================
