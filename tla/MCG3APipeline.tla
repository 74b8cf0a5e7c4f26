--------------------------- MODULE MCG3APipeline ---------------------------
(* Two executions of one acquisition at a time, with two price pages; or,  *)
(* at the other end, a replay of eight accepted minutes of two instruments.*)
(* The two share no state: a behaviour is of one of them.                  *)
EXTENDS G3APipeline, HistoricalReplay, TLC

CONSTANTS p1, p2, eurgbp, eurusd

Interchangeable == Permutations({p1, p2})

MCInstruments == <<eurgbp, eurusd>>
MCFirstStart == (1 :> 0) @@ (2 :> -4)

\* Two candles that matter, or one that reaches both exits; with and without the gap, or
\* with one nobody has classified.
Quiet == [m \in Minutes |-> "quiet"]
Courses ==
    {Quiet} \cup {[Quiet EXCEPT ![m] = "both"] : m \in 3 .. LastMinute}
    \cup {[Quiet EXCEPT ![m] = a, ![n] = b] :
            m \in 3 .. LastMinute, n \in 3 .. LastMinute, a \in {"up", "down"}, b \in {"up", "down"}}
MCCourses ==
    Courses \cup {[c EXCEPT ![GapMinute] = "absent"] : c \in Courses}
    \cup {[Quiet EXCEPT ![1] = "absent"]}

Cue(e, m, side, confidence, terms) ==
    [epic |-> e, minute |-> m, side |-> side, confidence |-> confidence, terms |-> terms]
OwnCues ==
    {{}} \cup {{Cue(eurgbp, m, "BUY", 1, terms)} : m \in 1 .. LastMinute,
                                                  terms \in {"fair", "wide", "small"}}
    \cup {{Cue(eurgbp, m, "BUY", 1, "fair"), Cue(eurgbp, n, side, 1, "fair")} :
            m \in {2, 3}, n \in 4 .. LastMinute, side \in {"BUY", "SELL"}}
OtherCues ==
    {{}} \cup {{Cue(eurusd, 3, "BUY", 1, "fair")}, {Cue(eurusd, 3, "BUY", 2, "fair")},
               {Cue(eurusd, 3, "BUY", 2, "wide")}}

MCMarkets ==
    {[candle |-> (eurgbp :> course) @@ (eurusd :> Quiet), signals |-> own \cup other] :
        course \in MCCourses, own \in OwnCues, other \in OtherCues}

MCInit == Init /\ ReplayOff

MCNext ==
    \/ phase = "off" /\ Next /\ UNCHANGED replayVars
    \/ starts = 0 /\ ReplayNext /\ UNCHANGED vars

MCSpec == MCInit /\ [][MCNext]_<<vars, replayVars>>
=============================================================================
