-------------------------- MODULE HistoricalReplay --------------------------
(***************************************************************************)
(* The exact replay of the frozen V1 policy over the accepted market data  *)
(* (g3b_replay/engine.py).  A first pass goes through the minutes of all   *)
(* instruments and keeps the candidates; a second pass takes the cycles    *)
(* that have candidates in order, settles the one paper position if its    *)
(* planned exit has come, and executes the best candidate.                 *)
(*                                                                         *)
(* Time counts minutes.  A candle is what it does to an open trade, and a  *)
(* strategy signal is chosen with the market: the strategy is a function   *)
(* of the complete window of its minute.  Prices, sizes and the evidence's *)
(* layout are left out; results count half units of risk, spread included. *)
(* The second replay of the same market, which must give the same bytes,   *)
(* and the hashes that authenticate the package are not modelled.          *)
(***************************************************************************)
EXTENDS Integers, Sequences, FiniteSets

CONSTANTS
    Instruments,    \* FROZEN_REPLAY_INSTRUMENTS: a sequence, in the order of their epics
    Priced,         \* those whose pip value the fixture knows
    GapInstrument, GapMinute,   \* the one authoritative gap
    LastMinute,     \* the last minute of the accepted data
    WarmupCandles,  \* warmup_candles
    FirstStart,     \* per resolution, in minutes: start of its first candle
    LossLimit,      \* maximum_daily_loss_fraction, in half units of risk
    Markets,        \* the markets to replay
    Nothing

VARIABLES
    market,         \* candles and signals
    phase, minute,  \* "off", "scan", "execute", "done", "failed"; and how far
    resetAfter,     \* per instrument: where its windows start anew
    candidates,     \* trade candidates, with the candles they read
    pending,        \* the position that waits for its planned exit
    account,        \* the paper broker's balance and open position
    audit           \* candidate_audit

replayVars == <<market, phase, minute, resetAfter, candidates, pending, account, audit>>

Epics == {Instruments[k] : k \in DOMAIN Instruments}
Minutes == 0 .. LastMinute
Resolutions == DOMAIN FirstStart
Candle(e, m) == market.candle[e][m]
Missing(e, m) == Candle(e, m) = "absent"

Signals == [epic : Epics, minute : Minutes, side : {"BUY", "SELL"}, confidence : Int,
            terms : {"fair", "wide", "small"}]
Trades == [epic : Epics, at : Nat, side : {"BUY", "SELL"}, confidence : Int,
           terms : {"fair", "wide", "small"}, reads : SUBSET (Resolutions \X Int)]
Planned == [at : Nat, result : Int]

ASSUME InstrumentsAssumption ==
    /\ Instruments \in Seq(Epics)
    /\ \A j, k \in DOMAIN Instruments : Instruments[j] = Instruments[k] => j = k

\* Minutes are counted from the first accepted one.
ASSUME TimesAssumption ==
    /\ LastMinute \in Nat /\ WarmupCandles \in Nat
    /\ FirstStart \in [Resolutions -> Int] /\ Resolutions \subseteq Nat \ {0}
    /\ 1 \in Resolutions /\ FirstStart[1] = 0

\* The strategy decides once on an instrument and a minute.
ASSUME MarketsAssumption ==
    \A m \in Markets :
        /\ m.candle \in [Epics -> [Minutes -> {"quiet", "up", "down", "both", "absent"}]]
        /\ m.signals \subseteq Signals
        /\ \A x, y \in m.signals : x.epic = y.epic /\ x.minute = y.minute => x = y

ASSUME NothingAssumption ==
    /\ Nothing \notin Epics /\ Nothing \notin Nat
    /\ Nothing \notin Trades /\ Nothing \notin Planned
    /\ Nothing \notin [epic : Epics, exit : Planned \cup {Nothing}]

ReplayOff ==
    /\ market = Nothing
    /\ phase = "off" /\ minute = 0
    /\ resetAfter = [e \in Epics |-> Nothing]
    /\ candidates = {} /\ audit = {}
    /\ pending = Nothing
    /\ account = [balance |-> 0, held |-> Nothing]

\* A market is loaded; the paper account starts flat.
Load ==
    /\ phase = "off"
    /\ market' \in Markets
    /\ phase' = "scan"
    /\ UNCHANGED <<minute, resetAfter, candidates, pending, account, audit>>

Abandoned ==
    /\ phase' = "failed"
    /\ UNCHANGED <<market, minute, resetAfter, candidates, pending, account, audit>>

-----------------------------------------------------------------------------
(* First pass: the candidates. *)

\* Mutant: a window may reach back over the gap.
EligibleAcross(e, span, time) ==
    {s \in Minutes \cup FirstStart[span] .. 0 :
        /\ (s - FirstStart[span]) % span = 0
        /\ s >= FirstStart[span] /\ s + span <= time
        /\ span = 1 => ~Missing(e, s)}

\* The closed candles of a resolution at a decision time, the latest ones only.
Eligible(e, span, time) ==
    {s \in Minutes \cup FirstStart[span] .. 0 :
        /\ (s - FirstStart[span]) % span = 0
        /\ s >= FirstStart[span] /\ s + span <= time
        /\ span = 1 => ~Missing(e, s)
        /\ resetAfter[e] # Nothing => s >= resetAfter[e]}

Latest(S) == {s \in S : Cardinality({x \in S : x >= s}) <= WarmupCandles}
ClosedWindow(e, span, time) == Latest(Eligible(e, span, time))

Ready(e, time) ==
    \A span \in Resolutions : Cardinality(ClosedWindow(e, span, time)) = WarmupCandles

Candidates(m) ==
    {[epic |-> c.epic, at |-> m + 1, side |-> c.side, confidence |-> c.confidence,
      terms |-> c.terms,
      reads |-> UNION {{span} \X ClosedWindow(c.epic, span, m + 1) : span \in Resolutions}] :
        c \in {x \in market.signals : x.minute = m /\ ~Missing(x.epic, m)
                                      /\ Ready(x.epic, m + 1)}}

Unclassified(e, m) == Missing(e, m) /\ ~(e = GapInstrument /\ m = GapMinute)

ScanMinute ==
    /\ phase = "scan" /\ minute <= LastMinute
    /\ \A e \in Epics : ~Unclassified(e, minute)
    /\ resetAfter' = [e \in Epics |-> IF Missing(e, minute) THEN minute + 1 ELSE resetAfter[e]]
    /\ candidates' = candidates \cup Candidates(minute)
    /\ minute' = minute + 1
    /\ UNCHANGED <<market, phase, pending, account, audit>>

\* "unclassified replay gap encountered".
RefuseGap ==
    /\ phase = "scan" /\ minute <= LastMinute
    /\ \E e \in Epics : Unclassified(e, minute)
    /\ Abandoned

EndScan ==
    /\ phase = "scan" /\ minute > LastMinute
    /\ phase' = "execute" /\ minute' = 0
    /\ UNCHANGED <<market, resetAfter, candidates, pending, account, audit>>

-----------------------------------------------------------------------------
(* Second pass: the executions. *)

\* resolve_exit: on a candle that reaches both, the stop comes first.
Stops(side, candle) == candle = "both" \/ candle = IF side = "BUY" THEN "down" ELSE "up"
Reaches(side, candle) == candle = IF side = "BUY" THEN "up" ELSE "down"
Result(side, candle) == IF Stops(side, candle) THEN -2 ELSE 3

Exits(c) ==
    {m \in Minutes : m >= c.at /\ (Stops(c.side, Candle(c.epic, m))
                                    \/ Reaches(c.side, Candle(c.epic, m)))}

\* The exit is planned when the position opens, over all the candles to come.
PlanExit(c) ==
    IF Exits(c) = {} THEN Nothing
    ELSE LET m == CHOOSE x \in Exits(c) : \A y \in Exits(c) : x <= y
         IN  [at |-> m + 1, result |-> Result(c.side, Candle(c.epic, m))]

Cycles == {c.at : c \in candidates}
Upcoming == {t \in Cycles : t > minute}
Cycle == CHOOSE t \in Upcoming : \A u \in Upcoming : t <= u

\* Confidence first, then the order of the epics.
Before(c, d) ==
    \/ c.confidence > d.confidence
    \/ /\ c.confidence = d.confidence
       /\ \E j, k \in DOMAIN Instruments :
            j < k /\ Instruments[j] = c.epic /\ Instruments[k] = d.epic
Ranked(time) == {c \in candidates : c.at = time}
Selected(time) == CHOOSE c \in Ranked(time) : \A d \in Ranked(time) \ {c} : Before(c, d)

\* Mutant: the exit of the pending position is applied a cycle early.
OverSoon(time) == pending # Nothing /\ pending.exit # Nothing

\* What the pending position has become at a time.
Over(time) == pending # Nothing /\ pending.exit # Nothing /\ pending.exit.at <= time

Settled(time) ==
    IF Over(time) THEN [balance |-> account.balance + pending.exit.result, held |-> Nothing]
    ELSE account

\* evaluate_candidate, then PortfolioRisk.evaluate.  Sizing with a pip value
\* that is not known raises.
Veto(c, books) ==
    IF c.terms = "wide" THEN "MAXIMUM_SPREAD_EXCEEDED"
    ELSE IF books.balance <= -LossLimit THEN "DAILY_LOSS_LIMIT"
    ELSE IF books.held # Nothing THEN "TOTAL_POSITION_LIMIT"
    ELSE IF c.epic \notin Priced THEN "UNPRICED"
    ELSE IF c.terms = "small" THEN "POSITION_SIZE_BELOW_MINIMUM"
    ELSE "ALLOWED"

Entry(c, books, disposition) ==
    [epic |-> c.epic, at |-> c.at, books |-> books, disposition |-> disposition]
Audited(time, books, disposition) ==
    {Entry(c, books, IF c = Selected(time) THEN disposition ELSE "CYCLE_SUPPRESSED") :
        c \in Ranked(time)}

\* One cycle: the pending position is settled, its best candidate is vetoed ...
Execute(time, veto) ==
    /\ phase = "execute" /\ Upcoming # {} /\ time = Cycle
    /\ veto = Veto(Selected(time), Settled(time))
    /\ minute' = time
    /\ audit' = audit \cup Audited(time, Settled(time), veto)
    /\ UNCHANGED <<market, phase, resetAfter, candidates>>

ExecuteVetoed ==
    \E time \in Cycles, veto \in {"MAXIMUM_SPREAD_EXCEEDED", "DAILY_LOSS_LIMIT",
                                  "TOTAL_POSITION_LIMIT", "POSITION_SIZE_BELOW_MINIMUM"} :
        /\ Execute(time, veto)
        /\ account' = Settled(time)
        /\ pending' = IF Over(time) THEN Nothing ELSE pending

\* ... or submitted and filled, with its exit planned.
ExecuteAccepted ==
    \E time \in Cycles :
        /\ Execute(time, "ALLOWED")
        /\ account' = [Settled(time) EXCEPT !.held = Selected(time).epic]
        /\ pending' = [epic |-> Selected(time).epic, exit |-> PlanExit(Selected(time))]

\* ... or cannot be sized: the replay fails, with the exit already booked.
ExecuteUnpriced ==
    /\ phase = "execute" /\ Upcoming # {}
    /\ Veto(Selected(Cycle), Settled(Cycle)) = "UNPRICED"
    /\ phase' = "failed"
    /\ account' = Settled(Cycle)
    /\ pending' = IF Over(Cycle) THEN Nothing ELSE pending
    /\ UNCHANGED <<market, minute, resetAfter, candidates, audit>>

\* The last position is settled if an exit was planned for it.
EndReplay ==
    /\ phase = "execute" /\ Upcoming = {}
    /\ phase' = "done"
    /\ account' = Settled(LastMinute + 1)
    /\ pending' = IF Over(LastMinute + 1) THEN Nothing ELSE pending
    /\ UNCHANGED <<market, minute, resetAfter, candidates, audit>>

ReplayNext ==
    \/ Load \/ ScanMinute \/ RefuseGap \/ EndScan
    \/ ExecuteVetoed \/ ExecuteAccepted \/ ExecuteUnpriced \/ EndReplay

ReplaySpec == ReplayOff /\ [][ReplayNext]_replayVars

-----------------------------------------------------------------------------
(* Properties. *)

\* No candidate has read a candle that was still open, or candles from both
\* sides of the gap in any resolution, and its minutes are consecutive.
CandidatesAreClean ==
    \A c \in candidates :
        /\ \A r \in c.reads : r[2] + r[1] <= c.at
        /\ \A m \in Minutes : Missing(c.epic, m) =>
                \/ \A r \in c.reads : r[2] > m
                \/ m >= c.at
        /\ {r[2] : r \in {x \in c.reads : x[1] = 1}} = c.at - WarmupCandles .. c.at - 1

\* The same account lived forward, a minute at a time and knowing nothing later:
\* the candle that ended at t may end the position ...
Ended(was, t) ==
    /\ was.trade # Nothing
    /\ \/ Stops(was.trade.side, Candle(was.trade.epic, t - 1))
       \/ Reaches(was.trade.side, Candle(was.trade.epic, t - 1))
Kept(was, t) == IF Ended(was, t) THEN Nothing ELSE was.trade
Books(was, t) ==
    [balance |-> IF Ended(was, t)
                 THEN was.balance + Result(was.trade.side, Candle(was.trade.epic, t - 1))
                 ELSE was.balance,
     held |-> IF Kept(was, t) = Nothing THEN Nothing ELSE was.trade.epic]

\* ... and only then is the best candidate of t decided.
LivedMinute(was, t) ==
    LET books == Books(was, t)
        veto == Veto(Selected(t), books)
    IN  IF Ranked(t) = {}
        THEN [balance |-> books.balance, trade |-> Kept(was, t), audit |-> was.audit]
        ELSE [balance |-> books.balance,
              trade |-> IF veto = "ALLOWED" THEN Selected(t) ELSE Kept(was, t),
              audit |-> was.audit \cup Audited(t, books, veto)]

Life[t \in 0 .. LastMinute + 1] ==
    IF t = 0 THEN [balance |-> 0, trade |-> Nothing, audit |-> {}]
    ELSE LivedMinute(Life[t - 1], t)
Lived == Life[LastMinute + 1]

\* Although exits are planned with the future known and booked late, every
\* decision was taken on the account as it stood at that minute, every
\* candidate has one disposition, and the books end as if lived forward.
ReplayIsLived ==
    /\ phase = "execute" => audit \subseteq Lived.audit
    /\ phase = "done" =>
        /\ audit = Lived.audit
        /\ account.balance = Lived.balance
        /\ (account.held = Nothing) <=> (Lived.trade = Nothing)

\* Neither a window nor a decision of the replay knows what comes after it
\* (g3b_replay/data.py:188, g3b_replay/engine.py:366).
ReplayIsCausal == CandidatesAreClean /\ ReplayIsLived
=============================================================================
