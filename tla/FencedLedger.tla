---------------------------- MODULE FencedLedger ----------------------------
(***************************************************************************)
(* What the execution lease promises the tables it protects.               *)
(*                                                                         *)
(* Writers are known to the ledger only by the generation (the fencing     *)
(* token) under which they write.  A generation is installed at most once, *)
(* and only the generation installed last may append.  How processes       *)
(* compete, crash and lose replies is left to the module that implements   *)
(* this one (ExecutionLease).                                              *)
(***************************************************************************)
EXTENDS Naturals, Sequences

CONSTANTS
    Generation,     \* the fencing tokens that can ever be installed
    NoGeneration    \* "no lease row yet"

VARIABLES
    current,    \* the generation installed last
    installed,  \* every generation installed so far
    ledger      \* the generations of the committed writes, oldest first

ledgerVars == <<current, installed, ledger>>

LedgerInit ==
    /\ current = NoGeneration
    /\ installed = {}
    /\ ledger = <<>>

Install(g) ==
    /\ g \notin installed
    /\ current' = g
    /\ installed' = installed \union {g}
    /\ UNCHANGED ledger

AppendWrite ==
    /\ current # NoGeneration
    /\ ledger' = Append(ledger, current)
    /\ UNCHANGED <<current, installed>>

LedgerNext ==
    \/ \E g \in Generation : Install(g)
    \/ AppendWrite

LedgerSpec == LedgerInit /\ [][LedgerNext]_ledgerVars

-----------------------------------------------------------------------------

\* A generation that has been superseded never writes again: between two
\* writes of one generation there is no write of another.
NoResurrection ==
    \A i, j, k \in 1..Len(ledger) :
        i < j /\ j < k /\ ledger[i] = ledger[k] => ledger[j] = ledger[i]
=============================================================================
