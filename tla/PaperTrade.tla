----------------------------- MODULE PaperTrade -----------------------------
(***************************************************************************)
(* What the offline paper lifecycle promises about the money of an intent. *)
(*                                                                         *)
(* An intent is traded at most once: its order is placed only after it was *)
(* claimed, its position is opened once and only while no other is open,   *)
(* and is closed once, after an exit was asked for, when its profit is     *)
(* credited.  A rejected intent is never traded.                           *)
(***************************************************************************)
EXTENDS Naturals

CONSTANTS
    Intent      \* the intents, one of each fixture

VARIABLES
    trade,      \* how far the trade of an intent is
    credit      \* closings whose profit was credited

tradeVars == <<trade, credit>>

TradeInit ==
    /\ trade = [i \in Intent |-> "none"]
    /\ credit = 0

Live(i) == trade[i] \in {"open", "asked"}

Advance(i, from, to) ==
    /\ trade[i] = from
    /\ trade' = [trade EXCEPT ![i] = to]

Claim(i) == Advance(i, "none", "claimed") /\ UNCHANGED credit
Reject(i) == Advance(i, "claimed", "rejected") /\ UNCHANGED credit
Open(i) ==
    /\ \A j \in Intent : ~Live(j)
    /\ Advance(i, "claimed", "open") /\ UNCHANGED credit
AskExit(i) == Advance(i, "open", "asked") /\ UNCHANGED credit
Settle(i) == Advance(i, "asked", "closed") /\ credit' = credit + 1

TradeNext ==
    \E i \in Intent : Claim(i) \/ Reject(i) \/ Open(i) \/ AskExit(i) \/ Settle(i)

TradeSpec == TradeInit /\ [][TradeNext]_tradeVars
=============================================================================
