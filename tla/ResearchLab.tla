---------------------------- MODULE ResearchLab ----------------------------
(***************************************************************************)
(* The evaluation of one combination of instrument, strategy and timeframe *)
(* by the offline research programmes (sl02/runner.py, sl03/runner.py; SL04*)
(* is SL03 with gap-safe segments): the history is split into development, *)
(* validation and untouched test, a variant is selected, tested, walked    *)
(* forward and stressed, and the combination classified.                   *)
(*                                                                         *)
(* A candle is what it does to an open trade; a rule consults a bounded    *)
(* window of closed candles, so a signal belongs to a variant and a candle *)
(* and needs the variant's minimum history.  Results count hundredths of   *)
(* half units of risk.  Acquisition, provenance, ranking, the portfolio,   *)
(* the bootstrap, which decides nothing, and the artifacts are left out.   *)
(***************************************************************************)
EXTENDS Integers, SequencesExt

CONSTANTS
    Length,             \* candles of the history
    Variants,           \* a sequence: the variants of the strategy, in their order
    MinimumHistory,     \* per variant: candles its rule needs
    Warmup,             \* candles the engine passes over (21)
    MinimumSegment, MinimumPhase, MinimumDepth,     \* candles of a clean span
    MinimumDevelopment, MinimumValidation,          \* of a walk-forward window (60, 30)
    MinimumTrades, MinimumTotal, MinimumOos, MinimumWalk,   \* trades (30, 100, 30, 100)
    MaximumDrawdown,
    Histories,          \* the histories to evaluate
    Unset

Moves == {"up", "down", "both", "quiet"}
Advice == {"LONG", "SHORT", "TIGHT", "none"}

ASSUME LengthsAssumption ==
    /\ Length \in Nat \ {0} /\ Warmup \in Nat
    /\ {MinimumDevelopment, MinimumValidation} \subseteq Nat \ {0}
    /\ {MinimumSegment, MinimumPhase, MinimumTrades, MinimumTotal} \subseteq Nat
    /\ {MinimumOos, MinimumWalk} \subseteq Nat

ASSUME VariantsAssumption ==
    /\ Len(Variants) \in Nat \ {0} /\ DOMAIN Variants = 1 .. Len(Variants)
    /\ MinimumHistory \in [Range(Variants) -> Nat]

\* A gap is known by the candle that follows it; mark is what a trade is worth at the end.
PossibleHistories ==
    [move : [1 .. Length -> Moves], signal : [Range(Variants) -> [1 .. Length -> Advice]],
     shut : SUBSET Nat, gaps : SUBSET (2 .. Length), mark : Int]

ASSUME HistoriesAssumption == Histories \subseteq PossibleHistories

ASSUME UnsetAssumption == Unset \notin {"READY_FOR_DEMO_QUALIFICATION", "CHAMPION_CANDIDATE"}

VARIABLES
    study,      \* programme, and whether its source agrees and its costs are known
    data,       \* its history
    stage,      \* how far the evaluation is
    slices,     \* development, validation and untouched test: sets of slices
    chosen,     \* the selected variant
    tested,     \* trades of the untouched test
    windows,    \* walk-forward windows with their trades, Unset if not run
    status      \* the classification

labVars == <<study, data, stage, slices, chosen, tested, windows, status>>

LabOff ==
    /\ stage = "off"
    /\ study = Unset /\ data = Unset /\ slices = Unset /\ chosen = Unset
    /\ tested = Unset /\ windows = Unset /\ status = Unset

-----------------------------------------------------------------------------
(* The engine. *)

Stop == -200
Target == 300
Commission == 4
Friction == 32
Cost(percent) == Commission + (Friction * percent) \div 100

Signal(h, slice, v, i) ==
    IF i - slice[1] + 1 >= MinimumHistory[v] THEN h.signal[v][i] ELSE "none"

\* The stop distance is below the broker's minimum: SL02 widens it, SL03 rejects.
Rejects(s) == study.programme # "SL02" /\ s = "TIGHT"

StopHit(s, move) == move = "both" \/ move = IF s = "SHORT" THEN "up" ELSE "down"
TargetHit(s, move) == move = IF s = "SHORT" THEN "down" ELSE "up"

\* Mutant: the trade runs on beyond its slice.
HitsBeyond(h, entry, last, s) ==
    {j \in entry .. Length : StopHit(s, h.move[j]) \/ TargetHit(s, h.move[j])}

Hits(h, entry, last, s) ==
    {j \in entry .. last : StopHit(s, h.move[j]) \/ TargetHit(s, h.move[j])}

\* _simulate_trade: in the candles of the slice only; of a candle that reaches both, the stop.
Trade(h, entry, last, s) ==
    LET hits == Hits(h, entry, last, s)
        exit == CHOOSE j \in hits : \A k \in hits : j <= k
    IN  IF hits = {}
        THEN [entry |-> entry, exit |-> last, reason |-> "END_OF_DATA",
              gross |-> IF s = "SHORT" THEN -h.mark ELSE h.mark]
        ELSE IF StopHit(s, h.move[exit])
        THEN [entry |-> entry, exit |-> exit, reason |-> "STOP", gross |-> Stop]
        ELSE [entry |-> entry, exit |-> exit, reason |-> "TARGET", gross |-> Target]

Enters(h, slice, v, i) ==
    /\ Signal(h, slice, v, i) # "none"
    /\ i + 1 \notin h.shut
    /\ ~Rejects(Signal(h, slice, v, i))

\* run, _simulate: enter on the candle after the signal, look again after the exit.
Simulation(h, slice, v) ==
    LET from[i \in Nat] ==
            IF i >= slice[2] THEN <<>>
            ELSE IF ~Enters(h, slice, v, i) THEN from[i + 1]
            ELSE LET t == Trade(h, i + 1, slice[2], Signal(h, slice, v, i))
                 IN  <<t>> \o from[t.exit + 1]
    IN  from
Simulate(h, slice, v) == Simulation(h, slice, v)[slice[1] + Warmup]

InOrder(group) ==
    [k \in 1 .. Cardinality(group) |->
        CHOOSE s \in group : Cardinality({t \in group : t[1] < s[1]}) = k - 1]

\* _simulate_segmented: every slice on its own.
SimulateAll(h, group, v) ==
    FlattenSeq([k \in DOMAIN InOrder(group) |-> Simulate(h, InOrder(group)[k], v)])

-----------------------------------------------------------------------------
(* Metrics. *)

Net(trades, percent) ==
    FoldLeft(LAMBDA sum, t : sum + t.gross - Cost(percent), 0, trades)
Profits(trades) ==
    FoldLeft(LAMBDA sum, t : sum + (IF t.gross > Cost(100) THEN t.gross - Cost(100) ELSE 0),
             0, trades)
Losses(trades) == Profits(trades) - Net(trades, 100)

Drawdown(trades) ==
    FoldLeft(LAMBDA acc, t :
                LET equity == acc.equity + t.gross - Cost(100)
                    peak == IF equity > acc.peak THEN equity ELSE acc.peak
                IN  [equity |-> equity, peak |-> peak,
                     depth |-> IF peak - equity > acc.depth THEN peak - equity ELSE acc.depth],
             [equity |-> 0, peak |-> 0, depth |-> 0], trades).depth

Positive(trades) == Net(trades, 100) > 0

\* Expectancies, that of no trades below all others.
Better(a, b) ==
    IF a = <<>> THEN FALSE
    ELSE b = <<>> \/ Net(a, 100) * Len(b) > Net(b, 100) * Len(a)

\* max: a variant that beats the best of those before it; beaten has the pairs of places
\* of which the first beats the second.
FirstBest(beaten) ==
    LET best[k \in DOMAIN Variants] ==
            IF k = 1 THEN 1
            ELSE IF <<k, best[k - 1]>> \in beaten THEN k ELSE best[k - 1]
    IN  Variants[best[Len(Variants)]]

-----------------------------------------------------------------------------
(* Slices of the history. *)

Size(slice) == slice[2] - slice[1] + 1
Tenths(total, n) == (total * n) \div 10
Least(a, b) == IF a < b THEN a ELSE b
Most(a, b) == IF a > b THEN a ELSE b

\* segment: a hard gap before a candle ends a segment and starts the next.
Starts(h) == {1} \cup h.gaps
Ends(h) == {g - 1 : g \in h.gaps} \cup {Length}
Segment(h, first) == <<first, Min({l \in Ends(h) : first <= l})>>
EligibleSegments(h) == {s \in {Segment(h, first) : first \in Starts(h)} : Size(s) >= MinimumSegment}
\* The spans a programme works on.
Spans(h) == IF study.programme = "SL04" THEN EligibleSegments(h) ELSE {<<1, Length>>}

\* A candle's position among those of the spans, the gaps closed.
Covered(spans) == {i \in 1 .. Length : \E s \in spans : s[1] <= i /\ i <= s[2]}
Position(spans, i) == Cardinality({j \in Covered(spans) : j < i})

\* What lies in each span of the positions from, from + 1, ... that are below to.
Part(spans, from, to) ==
    LET held(s) == {i \in s[1] .. s[2] : from <= Position(spans, i) /\ Position(spans, i) < to}
        cut == {<<Min(held(s)), Max(held(s))>> : s \in {s \in spans : held(s) # {}}}
    IN  {s \in cut : study.programme = "SL04" => Size(s) >= MinimumPhase}

\* chronological_splits, partitions.
Partitions(h) ==
    LET spans == Spans(h)
        total == Cardinality(Covered(spans))
        one == Tenths(total, 6)
        two == one + Tenths(total, 2)
    IN  [development |-> Part(spans, 0, one), validation |-> Part(spans, one, two),
         untouched |-> Part(spans, two, total)]

Complete(parts) ==
    parts.development # {} /\ parts.validation # {} /\ parts.untouched # {}
Depth(h) == MapThenSumSet(LAMBDA s : s[2] - s[1], Spans(h))

-----------------------------------------------------------------------------
(* The evaluation. *)

Acquire ==
    /\ stage = "off"
    /\ \E programme \in {"SL02", "SL03", "SL04"}, aligned, priced \in BOOLEAN :
          study' = [programme |-> programme, aligned |-> aligned, priced |-> priced]
    /\ data' \in Histories
    /\ stage' = "acquired"
    /\ UNCHANGED <<slices, chosen, tested, windows, status>>

\* _blocked_reason, _blocked_status.  Data that do not overlap with the broker's count as
\* aligned, like those that agree: only a divergence blocks.
Blocked ==
    IF ~study.aligned THEN "SOURCE_DIVERGENCE"
    ELSE IF IF study.programme = "SL04" THEN ~Complete(Partitions(data))
            ELSE data.gaps # {} THEN "DATA_QUALITY_FAIL"
    ELSE IF Depth(data) < MinimumDepth THEN "LOW_DATA_DEPTH"
    ELSE IF ~study.priced THEN "COST_MODEL_INCOMPLETE"
    ELSE "none"

Block ==
    /\ stage = "acquired" /\ Blocked # "none"
    /\ status' = Blocked
    /\ stage' = "classified"
    /\ UNCHANGED <<study, data, slices, chosen, tested, windows>>

Split ==
    /\ stage = "acquired" /\ Blocked = "none"
    /\ slices' = Partitions(data)
    /\ stage' = "split"
    /\ UNCHANGED <<study, data, chosen, tested, windows, status>>

\* _select: development and validation evidence, neighbours and trade count;
\* SL02 takes the validation's expectancy alone.
Supporters(h, v) ==
    {k \in DOMAIN Variants : Variants[k] # v /\
        Positive(SimulateAll(h, slices.validation, Variants[k]))}
Score(h, v) ==
    LET validation == SimulateAll(h, slices.validation, v)
    IN  (IF Positive(validation) THEN 200 ELSE 0)
        + (IF Positive(SimulateAll(h, slices.development, v)) THEN 100 ELSE 0)
        + Least(Len(validation), 100)
        + (100 * Cardinality(Supporters(h, v))) \div Most(1, Len(Variants) - 1)

Beats(h, v, w) ==
    LET mine == SimulateAll(h, slices.validation, v)
        theirs == SimulateAll(h, slices.validation, w)
    IN  IF study.programme = "SL02" THEN Better(mine, theirs)
        ELSE \/ Score(h, v) > Score(h, w)
             \/ Score(h, v) = Score(h, w) /\
                (Better(mine, theirs) \/ (~Better(theirs, mine) /\ Len(mine) > Len(theirs)))

Selection(h) ==
    FirstBest({p \in (DOMAIN Variants) \X (DOMAIN Variants) : Beats(h, Variants[p[1]], Variants[p[2]])})

Select ==
    /\ stage = "split"
    /\ chosen' = Selection(data)
    /\ stage' = "selected"
    /\ UNCHANGED <<study, data, slices, tested, windows, status>>

Test ==
    /\ stage = "selected"
    /\ tested' = SimulateAll(data, slices.untouched, chosen)
    /\ stage' = "tested"
    /\ UNCHANGED <<study, data, slices, chosen, windows, status>>

\* walk_forward_windows: inside one span each; each window picks its own variant.
WindowsOf(span) ==
    LET long == Most(MinimumDevelopment, Tenths(Size(span), 4))
        short == Most(MinimumValidation, Tenths(Size(span), 2))
        count == IF Size(span) < long + short THEN 0
                 ELSE (Size(span) - long - short) \div short + 1
        start(k) == span[1] + (k - 1) * short
    IN  [k \in 1 .. IF study.programme = "SL02" THEN count ELSE Least(3, count) |->
            [development |-> <<start(k), start(k) + long - 1>>,
             validation |-> <<start(k) + long, start(k) + long + short - 1>>]]

BestOf(h, slice) ==
    FirstBest({p \in (DOMAIN Variants) \X (DOMAIN Variants) :
        Better(Simulate(h, slice, Variants[p[1]]), Simulate(h, slice, Variants[p[2]]))})
Walked(h, window) ==
    LET best == BestOf(h, window.development)
    IN  [window |-> window, variant |-> best, trades |-> Simulate(h, window.validation, best)]

\* _walk_forward_segmented: inside every span on its own.
WalkedAll(h) ==
    FlattenSeq([k \in DOMAIN InOrder(Spans(h)) |->
        [j \in DOMAIN WindowsOf(InOrder(Spans(h))[k]) |->
            Walked(h, WindowsOf(InOrder(Spans(h))[k])[j])]])

\* SL03 and SL04 walk forward only with enough trades in the test.
WalkForward ==
    /\ stage = "tested"
    /\ windows' = IF study.programme # "SL02" /\ Len(tested) < MinimumTrades THEN <<>>
                  ELSE WalkedAll(data)
    /\ stage' = "walked"
    /\ UNCHANGED <<study, data, slices, chosen, tested, status>>

OutOfSample == FlattenSeq([k \in DOMAIN windows |-> windows[k].trades])

\* SL02 asks for three variants before it speaks of a peak.
IsolatedPeak ==
    /\ Positive(SimulateAll(data, slices.validation, chosen))
    /\ Supporters(data, chosen) = {}
    /\ study.programme = "SL02" => Len(Variants) >= 3

Degraded(validation, oos) ==
    /\ Positive(validation)
    /\ 2 * Net(oos, 100) * Len(validation) < Net(validation, 100) * Len(oos)

\* classify_result.
Classification ==
    LET validation == SimulateAll(data, slices.validation, chosen)
    IN  IF Len(tested) < MinimumTrades THEN "INSUFFICIENT_TRADES"
        ELSE IF IsolatedPeak THEN "OVERFIT_RISK"
        ELSE IF OutOfSample = <<>> \/ Len(OutOfSample) < MinimumOos THEN "LOW_SAMPLE_CONFIDENCE"
        ELSE IF ~Positive(OutOfSample) THEN "NEGATIVE_EXPECTANCY"
        ELSE IF Degraded(validation, OutOfSample) THEN "UNSTABLE_ACROSS_PERIODS"
        ELSE IF Len(tested) < MinimumTotal THEN "LOW_SAMPLE_CONFIDENCE"
        ELSE IF \/ Drawdown(tested) > MaximumDrawdown
                \/ 10 * Profits(tested) < 11 * Losses(tested)
                \/ Profits(tested) = 0
        THEN "RESEARCH_REJECTED"
        ELSE "CHAMPION_CANDIDATE"

\* Mutant: the stress is applied at the base cost only.
StressPassedAtBase == Net(tested, 100) > 0

\* _stress: the same trades at higher costs.
StressPassed == \A percent \in {100, 125, 150} : Net(tested, percent) > 0

\* _final_classification, and SL02's own ending.
Final(base) ==
    IF study.programme = "SL02"
    THEN IF base \notin {"INSUFFICIENT_TRADES", "LOW_SAMPLE_CONFIDENCE", "NEGATIVE_EXPECTANCY",
                         "OVERFIT_RISK"} /\ ~StressPassed
         THEN "STRESS_TEST_FAIL" ELSE base
    ELSE IF base = "CHAMPION_CANDIDATE" /\ ~StressPassed THEN "STRESS_TEST_FAIL"
    ELSE IF /\ base = "CHAMPION_CANDIDATE"
            /\ Len(OutOfSample) >= MinimumWalk /\ Positive(OutOfSample) /\ Positive(tested)
    THEN "READY_FOR_DEMO_QUALIFICATION"
    ELSE base

Classify ==
    /\ stage = "walked"
    /\ status' = Final(Classification)
    /\ stage' = "classified"
    /\ UNCHANGED <<study, data, slices, chosen, tested, windows>>

LabNext == Acquire \/ Block \/ Split \/ Select \/ Test \/ WalkForward \/ Classify

LabSpec == LabOff /\ [][LabNext]_labVars

-----------------------------------------------------------------------------
(* Properties. *)

\* The history as it is known before a candle.
KnownBefore(h, i) ==
    [h EXCEPT !.move = [j \in DOMAIN h.move |-> IF j < i THEN h.move[j] ELSE "both"],
              !.signal = [v \in DOMAIN h.signal |->
                            [j \in DOMAIN h.signal[v] |->
                                IF j < i THEN h.signal[v][j] ELSE "none"]]]

Within(t, slice) == slice[1] + Warmup < t.entry /\ t.entry <= t.exit /\ t.exit <= slice[2]
GapFree(slice) == \A g \in data.gaps : ~(slice[1] < g /\ g <= slice[2])
Precedes(group, later) ==
    \A a \in group, b \in later : a[2] < b[1]
Opening(group) == Min({s[1] : s \in group})
Gross(trades) == FoldLeft(LAMBDA sum, t : sum + t.gross, 0, trades)

\* The variant is selected on what is known before the first candle of the test, and
\* each window's on what is known before its validation; the phases follow each other;
\* and a trade that was closed is the same in the history that ends where it closed.
NothingLooksAhead ==
    /\ stage \in {"selected", "tested"} =>
        /\ chosen = Selection(KnownBefore(data, Opening(slices.untouched)))
        /\ Precedes(slices.development, slices.validation)
        /\ Precedes(slices.validation, slices.untouched)
    /\ stage = "tested" =>
        \A k \in DOMAIN tested : \E s \in slices.untouched :
            /\ Within(tested[k], s)
            /\ tested[k].reason # "END_OF_DATA" =>
                   Last(Simulate(KnownBefore(data, tested[k].exit + 1),
                                 <<s[1], tested[k].exit>>, chosen)) = tested[k]
    /\ stage = "walked" =>
        \A k \in DOMAIN windows :
            LET w == windows[k].window
            IN  /\ windows[k].variant = BestOf(KnownBefore(data, w.validation[1]), w.development)
                /\ \A i \in DOMAIN windows[k].trades : Within(windows[k].trades[i], w.validation)

\* What is held ready, or a champion, was tested on clean data that do not diverge from
\* the broker's (no overlap is no divergence), at the broker's terms, one trade at a time, none over a gap or opened in a
\* closed hour; its trades are enough, and earn at one and a half times the costs, in
\* the test and, at the costs, in the windows too (strategy_lab/segments.py: "no simulated
\* trade can cross from one segment to another").
ReadinessIsEarned ==
    status \in {"READY_FOR_DEMO_QUALIFICATION", "CHAMPION_CANDIDATE"} =>
        /\ study.aligned /\ study.priced
        /\ \A k \in DOMAIN tested :
            LET t == tested[k]
            IN  /\ GapFree(<<t.entry, t.exit>>)
                /\ t.entry \notin data.shut
                /\ data.signal[chosen][t.entry - 1] # "none"
                /\ study.programme # "SL02" => data.signal[chosen][t.entry - 1] # "TIGHT"
                /\ k > 1 => tested[k - 1].exit < t.entry
        /\ \A k \in DOMAIN windows :
            GapFree(<<windows[k].window.development[1], windows[k].window.validation[2]>>)
        /\ Len(tested) >= MinimumTotal /\ Len(OutOfSample) >= MinimumOos
        /\ Gross(tested) > Len(tested) * Cost(150)
        /\ Gross(OutOfSample) > Len(OutOfSample) * Cost(100)
        /\ status = "READY_FOR_DEMO_QUALIFICATION" =>
            study.programme # "SL02" /\ Len(OutOfSample) >= MinimumWalk
=============================================================================
