-------------------------- MODULE TournamentProofs --------------------------
(***************************************************************************)
(* The evidence of the tournament, for any number of processes, markets,   *)
(* days and horizons; and the data it begins with, handed over from the    *)
(* qualification by three files, for any number of executions, symbols,    *)
(* contracts, samples and accounts.                                        *)
(***************************************************************************)
EXTENDS Tournament, DQ03Handoff, FiniteSetTheorems, WellFoundedInduction, TLAPS

InCycle == {"cycle", "market", "read", "label", "append"}

\* What a label may be.
Causal(l) ==
    /\ <<l.market, l.day>> \in long
    /\ l.session >= l.day + l.horizon
    /\ l.session <= LastAnchor(clock)

\* The memory r of a process: a probe is about one of the days; a cycle is about an
\* anchor that has come and, past its first step, about a market; entered late, all
\* of the anchor's observations are complete; only a timely one reads; the labels
\* still to be written are causal.
Fits(r) ==
    /\ r.pc \in InCycle => r.anchor \in Day /\ r.anchor <= LastAnchor(clock)
    /\ r.pc \in {"probe", "healthy", "ready"} => r.anchor \in Day
    /\ r.pc \in InCycle \ {"cycle"} => r.market \in Markets
    /\ r.pc \in {"cycle", "market"} /\ ~r.timely => FullyRecorded(r.anchor)
    /\ r.pc \in {"read", "label", "append"} => r.timely
    /\ \A l \in r.due : Causal(l)

\* The epoch rests on a readiness row with a healthy probe.
EpochIsGranted == epoch # 0 => \E r \in readiness \intersect probes : r <= epoch

RowsFollowEpoch == \A m \in Markets, d \in Day : rows[<<m, d>>] # {} => epoch \in 1 .. d

\* Where no script was cut short the trigger is there, or a script will create it.
GuardIsKept == whole => guarded \/ \E p \in Runtimes : run[p].pc = "opening"

IInv ==
    /\ TypeOK
    /\ GuardIsKept
    /\ \A p \in Runtimes : Fits(run[p])
    /\ LabelsAreCausal
    /\ EpochIsGranted
    /\ RowsFollowEpoch
    /\ BundlesAreUnmixed

-----------------------------------------------------------------------------
(* Arithmetic of the clock.                                                *)

LEMMA Numbers == Day \subseteq Nat /\ Horizons \subseteq Nat /\ Markets \subseteq Nat
  BY TournamentAssumption DEF Day, Markets

\* The anchor a monitor is about has a number; once it has come it is one of the
\* days' and no later than the last anchor.
LEMMA TargetFits ==
    ASSUME TypeOK, NEW p \in Runtimes
    PROVE  /\ Target(p) \in 1 .. Days + 1
           /\ clock >= At(Target(p)) =>
                  Target(p) \in Day /\ Target(p) <= LastAnchor(clock)
<1>1. clock \in 0 .. 3 * Days - 1 /\ Days \in Nat \ {0}
  BY TournamentAssumption DEF TypeOK
<1>2. run[p].last \in 0 .. Days /\ run[p].scheduled \in 0 .. Days + 1
  BY DEF TypeOK, Memory
<1>3. Target(p) \in 1 .. Days + 1
  BY <1>1, <1>2 DEF Target, LastAnchor, Today, At
<1>4. QED
  BY <1>1, <1>3 DEF At, LastAnchor, Day

\* Time passing leaves the last anchor where it was or moves it on.
LEMMA AnchorsPass == ASSUME TypeOK, Tick PROVE LastAnchor(clock) <= LastAnchor(clock')
  BY TournamentAssumption DEF TypeOK, Tick, LastAnchor

\* A close that lies h usable bars behind the decision lies at least h days behind.
LEMMA HorizonIsBehind ==
    ASSUME NEW d \in Nat, NEW h \in Nat, NEW n \in Nat, NEW bars \in SUBSET (1 .. n),
           NEW s \in HorizonClose(d, h, bars)
    PROVE  s \in Nat /\ s <= n /\ s >= d + h
<1>1. s \in 1 .. n /\ s > d
  BY DEF HorizonClose
<1>2. Cardinality({t \in bars : d < t /\ t <= s}) = h
  BY DEF HorizonClose
<1>3. IsFiniteSet(d + 1 .. s) /\ Cardinality(d + 1 .. s) = s - d
  <2>1. d + 1 \in Int /\ s \in Int /\ d + 1 <= s
    BY <1>1
  <2>2. QED
    BY <2>1, FS_Interval
<1>4. {t \in bars : d < t /\ t <= s} \subseteq d + 1 .. s
  <2>1. SUFFICES ASSUME NEW t \in bars, d < t, t <= s PROVE t \in d + 1 .. s
    OBVIOUS
  <2>2. t \in 1 .. n
    OBVIOUS
  <2>3. QED
    BY <1>1, <2>1, <2>2
<1>5. Cardinality({t \in bars : d < t /\ t <= s}) <= Cardinality(d + 1 .. s)
  BY <1>3, <1>4, FS_Subset
<1>6. QED
  BY <1>1, <1>2, <1>3, <1>5

-----------------------------------------------------------------------------
(* Types.                                                                  *)

LEMMA IdleType == Idle \in Memory
  BY TournamentAssumption DEF Idle, Memory

LEMMA TypesAtStart == Init => TypeOK
<1> SUFFICES ASSUME Init PROVE TypeOK
  OBVIOUS
<1>1. clock \in 0 .. 3 * Days - 1 /\ epoch \in 0 .. Days
  BY TournamentAssumption DEF Init
<1>2. rows \in [Markets \X Day -> SUBSET [part : Parts, by : {"bundle", "row"}]]
  BY DEF Init
<1>3. run \in [Runtimes -> Memory]
  BY IdleType DEF Init
<1>4. QED
  BY <1>1, <1>2, <1>3 DEF Init, TypeOK

\* The labels that a history resolves are labels.
LEMMA ResolvedTypes ==
    ASSUME NEW m \in Markets, NEW n \in Nat, NEW bars \in SUBSET (1 .. n)
    PROVE  Resolved(m, bars) \subseteq Label
<1>1. \A l \in Resolved(m, bars) :
          l \in [market : {m}, day : Day, horizon : Horizons, session : bars]
  BY DEF Resolved
<1>2. [market : {m}, day : Day, horizon : Horizons, session : bars] \subseteq Label
  <2>1. bars \subseteq Nat
    OBVIOUS
  <2>2. QED
    BY <2>1 DEF Label
<1>3. QED
  BY <1>1, <1>2

LEMMA NextMarketType ==
    ASSUME TypeOK, NEW p \in Runtimes, run[p].anchor \in Day
    PROVE  NextMarket(p) \in Memory
<1>1. run[p] \in Memory
  BY DEF TypeOK
<1>2. CASE run[p].market < MarketCount
  <2>1. run[p].market + 1 \in 0 .. MarketCount
    BY <1>1, <1>2, TournamentAssumption DEF Memory
  <2>2. QED
    BY <1>1, <1>2, <2>1 DEF NextMarket, Memory
<1>3. CASE ~(run[p].market < MarketCount)
  <2>1. 0 \in 0 .. MarketCount /\ 0 \in 0 .. Days /\ 0 \in 0 .. Days + 1
    BY TournamentAssumption
  <2>2. run[p].anchor \in 0 .. Days
    BY DEF Day
  <2>3. QED
    BY <1>1, <1>3, <2>1, <2>2 DEF NextMarket, AfterCycle, Handled, Memory
<1>4. QED
  BY <1>2, <1>3

LEMMA LabellingType ==
    ASSUME TypeOK, NEW p \in Runtimes, NEW due \in SUBSET Label
    PROVE  Labelling(p, due) \in Memory
  BY DEF TypeOK, Memory, Labelling

\* What a step of one process leaves in its memory.
LEMMA UpdateType ==
    ASSUME TypeOK, NEW p \in Runtimes, NEW with \in Memory, Update(p, with)
    PROVE  run' \in [Runtimes -> Memory]
  BY DEF TypeOK, Update

-----------------------------------------------------------------------------
(* What lasts: time, decisions and complete observations.                  *)

Lasting ==
    /\ LastAnchor(clock) \in Int /\ LastAnchor(clock') \in Int
    /\ LastAnchor(clock) <= LastAnchor(clock')
    /\ long \subseteq long'
    /\ \A m \in Markets, d \in Day : State(m, d) = "COMPLETE" => State(m, d)' = "COMPLETE"

\* A part is appended only where it is missing.
LEMMA AppendLasts ==
    ASSUME TypeOK, NEW m \in Markets, NEW d \in Day, NEW part \in Parts, AppendRow(m, d, part)
    PROVE  \A n \in Markets, e \in Day : State(n, e) = "COMPLETE" => rows'[<<n, e>>] = rows[<<n, e>>]
<1>1. State(m, d) # "COMPLETE"
  BY DEF AppendRow, State
<1>2. \A n \in Markets, e \in Day : <<n, e>> # <<m, d>> => rows'[<<n, e>>] = rows[<<n, e>>]
  BY DEF AppendRow, TypeOK
<1>3. QED
  BY <1>1, <1>2

\* A bundle is written only where nothing is.
LEMMA BundleLasts ==
    ASSUME TypeOK, NEW m \in Markets, NEW d \in Day, AppendBundle(m, d)
    PROVE  /\ \A n \in Markets, e \in Day : State(n, e) = "COMPLETE" => rows'[<<n, e>>] = rows[<<n, e>>]
           /\ long \subseteq long' /\ long' \subseteq Markets \X Day
<1>1. \A n \in Markets, e \in Day : <<n, e>> # <<m, d>> => rows'[<<n, e>>] = rows[<<n, e>>]
  BY DEF AppendBundle, TypeOK
<1>2. State(m, d) = "COMPLETE" => UNCHANGED rows
  BY DEF AppendBundle
<1>3. long \subseteq long' /\ long' \subseteq Markets \X Day
  BY DEF AppendBundle, TypeOK
<1>4. QED
  BY <1>1, <1>2, <1>3

\* The last anchor is a number.
LEMMA AnchorIsInt == ASSUME NEW t \in Int PROVE LastAnchor(t) \in Int
  BY DEF LastAnchor

\* Nothing that happens takes back a complete observation, a decision or time.
LEMMA LastingStep == ASSUME IInv, [Next]_vars PROVE Lasting
<1> USE DEF IInv
<1>1. clock \in Int /\ clock' \in Int /\ LastAnchor(clock) <= LastAnchor(clock')
  <2>1. CASE Tick
    BY <2>1, AnchorsPass DEF TypeOK, Tick
  <2>2. CASE UNCHANGED clock
    BY <2>2, AnchorIsInt DEF TypeOK
  <2>3. QED
    BY <2>1, <2>2 DEF Next, vars, evidence, OpenStore, CreateTriggers, CutShort,
        BeginProbe, ProbeReads, CheckReadiness, InsertReadiness,
       StartMonitor, MonitorSteps, Crash, CreateEpoch, AppendRow, RequestStop, Sleep, Observe,
       WakeLate, SeeStop, BeginCycle, PreflightMarket, ReadMarket, WriteLabel, PersistMarket
<1>2. /\ long \subseteq long'
      /\ \A m \in Markets, d \in Day : State(m, d) = "COMPLETE" => rows'[<<m, d>>] = rows[<<m, d>>]
  <2>1. CASE UNCHANGED <<rows, long>>
    BY <2>1
  <2>2. ASSUME NEW m \in Markets, NEW d \in Day, NEW part \in Parts, AppendRow(m, d, part)
        PROVE  <1>2
    BY <2>2, AppendLasts DEF AppendRow
  <2>3. ASSUME NEW p \in Runtimes, PersistMarket(p)
        PROVE  <1>2
    <3>1. Fits(run[p]) /\ run[p].pc = "append"
      BY <2>3 DEF PersistMarket
    <3>2. run[p].anchor \in Day /\ run[p].market \in Markets
      BY <3>1 DEF Fits, InCycle
    <3>3. QED
      BY <2>1, <2>3, <3>2, BundleLasts DEF PersistMarket
  <2>4. QED
    BY <2>1, <2>2, <2>3
    DEF Next, vars, evidence, OpenStore, CreateTriggers, CutShort,
        BeginProbe, ProbeReads, CheckReadiness, InsertReadiness,
        StartMonitor, MonitorSteps, Crash, CreateEpoch, RequestStop, Tick, Sleep, Observe,
        WakeLate, SeeStop, BeginCycle, PreflightMarket, ReadMarket, WriteLabel
<1>3. QED
  BY <1>1, <1>2, AnchorIsInt DEF Lasting, State

-----------------------------------------------------------------------------
(* The memory of the processes.                                            *)

\* What fits goes on fitting.
LEMMA FitsLasts == ASSUME Lasting, NEW r \in Memory, Fits(r) PROVE Fits(r)'
<1>1. r.pc \in InCycle => r.anchor \in Day /\ r.anchor <= LastAnchor(clock')
  BY DEF Fits, Lasting, Day
<1>2. r.pc \in {"cycle", "market"} /\ ~r.timely => FullyRecorded(r.anchor)'
  BY DEF Fits, Lasting, InCycle, FullyRecorded
<1>3. ASSUME NEW l \in r.due PROVE Causal(l)'
  <2>1. Causal(l) /\ l \in Label
    BY DEF Fits, Memory
  <2>2. QED
    BY <2>1 DEF Causal, Lasting, Label
<1>4. QED
  BY <1>1, <1>2, <1>3 DEF Fits

\* A process that leaves a fitting memory leaves every memory fitting.
LEMMA UpdateFits ==
    ASSUME IInv, [Next]_vars, NEW p \in Runtimes, NEW with \in Memory, Fits(with),
           Update(p, with)
    PROVE  run' \in [Runtimes -> Memory] /\ \A q \in Runtimes : Fits(run[q])'
<1>1. Lasting
  BY LastingStep
<1>2. run' \in [Runtimes -> Memory]
  BY UpdateType DEF IInv
<1>3. ASSUME NEW q \in Runtimes PROVE Fits(run[q])'
  <2>1. run \in [Runtimes -> Memory] /\ Fits(run[q])
    BY DEF IInv, TypeOK
  <2>2. CASE q = p
    <3>1. run'[q] = with
      BY <2>1, <2>2 DEF Update
    <3>2. Fits(with)'
      BY <1>1, FitsLasts
    <3>3. QED
      BY <3>1, <3>2 DEF Fits
  <2>3. CASE q # p
    <3>1. run'[q] = run[q] /\ run[q] \in Memory
      BY <2>1, <2>3 DEF Update
    <3>2. Fits(run'[q])
      BY <2>1, <3>1
    <3>3. \A r \in Memory : Fits(r) => Fits(r)'
      BY <1>1, FitsLasts
    <3>4. run'[q] \in Memory
      BY <3>1
    <3>5. QED
      BY <3>2, <3>3, <3>4 DEF Fits
  <2>4. QED
    BY <2>2, <2>3
<1>4. QED
  BY <1>2, <1>3

LEMMA IdleFits == Fits(Idle)
  BY DEF Idle, Fits, InCycle

\* The memory at the end of a market's observation.
LEMMA NextMarketFits ==
    ASSUME IInv, NEW p \in Runtimes, run[p].pc \in InCycle \ {"cycle"}
    PROVE  NextMarket(p) \in Memory /\ Fits(NextMarket(p))
<1>1. run[p] \in Memory /\ Fits(run[p])
  BY DEF IInv, TypeOK
<1>2. /\ run[p].anchor \in Day /\ run[p].anchor <= LastAnchor(clock)
      /\ run[p].market \in Markets
      /\ ~run[p].timely => FullyRecorded(run[p].anchor)
  BY <1>1 DEF Fits, InCycle
<1>3. NextMarket(p) \in Memory
  BY <1>2, NextMarketType DEF IInv
<1>4. CASE run[p].market < MarketCount
  <2>1. run[p].market + 1 \in Markets
    BY <1>2, <1>4, TournamentAssumption DEF Markets
  <2>2. /\ NextMarket(p).pc = "market" /\ NextMarket(p).anchor = run[p].anchor
        /\ NextMarket(p).timely = run[p].timely /\ NextMarket(p).due = {}
        /\ NextMarket(p).market = run[p].market + 1
    BY <1>1, <1>4 DEF NextMarket, Memory
  <2>3. QED
    BY <1>2, <1>3, <2>1, <2>2 DEF Fits
<1>5. CASE ~(run[p].market < MarketCount)
  <2>1. NextMarket(p).pc = "monitor" /\ NextMarket(p).due = {}
    BY <1>1, <1>5 DEF NextMarket, AfterCycle, Handled, Memory
  <2>2. QED
    BY <1>3, <2>1 DEF Fits, InCycle
<1>6. QED
  BY <1>4, <1>5

\* The memory of a process with labels still to write.
LEMMA LabellingFits ==
    ASSUME IInv, NEW p \in Runtimes, run[p].pc \in {"read", "label"},
           NEW due \in SUBSET Label, \A l \in due : Causal(l)
    PROVE  Labelling(p, due) \in Memory /\ Fits(Labelling(p, due))
<1>1. run[p] \in Memory /\ Fits(run[p])
  BY DEF IInv, TypeOK
<1>2. /\ Labelling(p, due).pc \in {"label", "append"} /\ Labelling(p, due).due = due
      /\ Labelling(p, due).anchor = run[p].anchor
      /\ Labelling(p, due).market = run[p].market
      /\ Labelling(p, due).timely = run[p].timely
  BY <1>1 DEF Labelling, Memory
<1>3. QED
  BY <1>1, <1>2, LabellingType DEF IInv, Fits, InCycle

-----------------------------------------------------------------------------
(* The steps of the processes.                                             *)

\* What a process's step must leave in its memory.
GoesOn(p) == \E with \in Memory : Fits(with) /\ Update(p, with)

LEMMA ProbeSteps ==
    ASSUME IInv, NEW p \in Runtimes,
           \/ OpenStore(p) \/ CreateTriggers(p) \/ CutShort(p)
           \/ BeginProbe(p) \/ ProbeReads(p) \/ CheckReadiness(p) \/ InsertReadiness(p)
           \/ \E d \in Day : CreateEpoch(p, d)
    PROVE  GoesOn(p)
<1>1. run[p] \in Memory /\ Fits(run[p])
  BY DEF IInv, TypeOK
<1>2. Idle \in Memory /\ Fits(Idle)
  BY IdleType, IdleFits
<1>3. CASE BeginProbe(p)
  <2> DEFINE with == [Idle EXCEPT !.pc = "probe", !.anchor = Today(clock)]
  <2>1. Today(clock) \in Day /\ Today(clock) \in 0 .. Days
    BY <1>3, TournamentAssumption DEF IInv, TypeOK, Today, Day
  <2>2. with \in Memory
    BY <1>2, <2>1 DEF Memory
  <2>3. Fits(with)
    BY <1>2, <2>1 DEF Idle, Fits, InCycle
  <2>4. QED
    BY <1>3, <2>2, <2>3 DEF BeginProbe, GoesOn
<1>4. ASSUME NEW pc \in {"healthy", "ready", "opening", "gate"}, Go(p, pc),
             pc \in {"healthy", "ready"} => run[p].pc \in {"probe", "healthy"}
      PROVE  GoesOn(p)
  <2> DEFINE with == [run[p] EXCEPT !.pc = pc]
  <2>1. /\ with \in Memory /\ with.pc = pc /\ with.due = run[p].due
        /\ with.anchor = run[p].anchor
    BY <1>1 DEF Memory
  <2>2. Fits(with)
    BY <1>1, <1>4, <2>1 DEF Fits, InCycle
  <2>3. QED
    BY <1>4, <2>1, <2>2 DEF Go, GoesOn
<1>5. Return(p) => GoesOn(p)
  BY <1>2 DEF Return, GoesOn
<1>6. QED
  BY <1>3, <1>4, <1>5
  DEF OpenStore, CreateTriggers, CutShort, ProbeReads, CheckReadiness, InsertReadiness,
      CreateEpoch

\* A cycle is entered in time, or when everything is recorded.
LEMMA EnterCycleFits ==
    ASSUME IInv, NEW p \in Runtimes, clock >= At(Target(p)), NEW timely \in BOOLEAN,
           timely \/ FullyRecorded(Target(p)), EnterCycle(p, Target(p), timely),
           run[p].pc = "monitor"
    PROVE  GoesOn(p)
<1> DEFINE with == [run[p] EXCEPT !.pc = "cycle", !.scheduled = 0, !.anchor = Target(p),
                                  !.timely = timely]
<1>1. run[p] \in Memory /\ Fits(run[p])
  BY DEF IInv, TypeOK
<1>2. Target(p) \in Day /\ Target(p) <= LastAnchor(clock)
  BY TargetFits DEF IInv
<1>3. 0 \in 0 .. Days + 1 /\ Target(p) \in 0 .. Days
  BY <1>2, TournamentAssumption DEF Day
<1>4. /\ with \in Memory /\ with.pc = "cycle" /\ with.anchor = Target(p)
      /\ with.timely = timely /\ with.due = run[p].due
  BY <1>1, <1>3 DEF Memory
<1>5. Fits(with)
  BY <1>1, <1>2, <1>4 DEF Fits
<1>6. QED
  BY <1>4, <1>5 DEF EnterCycle, GoesOn

LEMMA ScheduleSteps ==
    ASSUME IInv, NEW p \in Runtimes,
           StartMonitor(p) \/ Sleep(p) \/ Observe(p) \/ WakeLate(p) \/ SeeStop(p) \/ Crash(p)
    PROVE  GoesOn(p)
<1>1. run[p] \in Memory /\ Fits(run[p])
  BY DEF IInv, TypeOK
<1>2. Idle \in Memory /\ Fits(Idle)
  BY IdleType, IdleFits
<1>3. Target(p) \in 1 .. Days + 1 /\ clock \in Int /\ At(Target(p)) \in Int
  BY TargetFits DEF IInv, TypeOK, At
<1>4. CASE StartMonitor(p)
  <2> DEFINE with == [Idle EXCEPT !.pc = "monitor"]
  <2>1. with \in Memory /\ with.pc = "monitor" /\ with.due = {}
    BY <1>2 DEF Memory, Idle
  <2>2. QED
    BY <1>4, <2>1 DEF StartMonitor, GoesOn, Fits, InCycle
<1>5. CASE Sleep(p)
  <2> DEFINE with == [run[p] EXCEPT !.scheduled = Target(p)]
  <2>1. with \in Memory /\ with.pc = "monitor" /\ with.due = run[p].due
    BY <1>1, <1>3, <1>5, TournamentAssumption DEF Memory, Sleep
  <2>2. QED
    BY <1>1, <1>5, <2>1 DEF Sleep, GoesOn, Fits, InCycle
<1>6. CASE Observe(p)
  <2>1. clock = At(Target(p)) /\ run[p].pc = "monitor"
    BY <1>6 DEF Observe
  <2>2. EnterCycle(p, Target(p), TRUE)
    BY <1>6 DEF Observe
  <2>3. clock >= At(Target(p))
    BY <1>3, <2>1
  <2>4. QED
    BY <2>1, <2>2, <2>3, EnterCycleFits
<1>7. CASE WakeLate(p)
  <2>1. CASE FullyRecorded(Target(p))
    <3>1. clock > At(Target(p)) /\ run[p].pc = "monitor"
      BY <1>7 DEF WakeLate
    <3>2. EnterCycle(p, Target(p), FALSE)
      BY <1>7, <2>1 DEF WakeLate
    <3>3. clock >= At(Target(p))
      BY <1>3, <3>1
    <3>4. QED
      BY <2>1, <3>1, <3>2, <3>3, EnterCycleFits
  <2>2. CASE ~FullyRecorded(Target(p))
    <3> DEFINE with == Handled(p, Target(p))
    <3>1. Target(p) \in 0 .. Days /\ 0 \in 0 .. Days + 1
      BY <1>3, <1>7, TargetFits, TournamentAssumption DEF WakeLate, IInv, Day
    <3>2. with \in Memory /\ with.pc = "monitor" /\ with.due = run[p].due
      BY <1>1, <3>1 DEF Memory, Handled
    <3>3. QED
      BY <1>1, <1>7, <2>2, <3>2 DEF WakeLate, GoesOn, Fits, InCycle
  <2>3. QED
    BY <2>1, <2>2
<1>8. CASE SeeStop(p) \/ Crash(p)
  BY <1>2, <1>8 DEF SeeStop, Crash, Return, GoesOn
<1>9. QED
  BY <1>4, <1>5, <1>6, <1>7, <1>8

LEMMA CycleSteps ==
    ASSUME IInv, NEW p \in Runtimes,
           BeginCycle(p) \/ PreflightMarket(p) \/ WriteLabel(p) \/ PersistMarket(p)
    PROVE  GoesOn(p)
<1>1. run[p] \in Memory /\ Fits(run[p])
  BY DEF IInv, TypeOK
<1>2. ASSUME run[p].pc \in InCycle \ {"cycle"}, Update(p, NextMarket(p)) PROVE GoesOn(p)
  BY <1>2, NextMarketFits DEF GoesOn
<1>3. CASE BeginCycle(p)
  <2>1. run[p].pc = "cycle" /\ run[p].anchor \in Day
    BY <1>1, <1>3 DEF BeginCycle, Fits, InCycle
  <2>2. CASE Update(p, [run[p] EXCEPT !.pc = "market", !.market = 1])
    <3> DEFINE with == [run[p] EXCEPT !.pc = "market", !.market = 1]
    <3>1. 1 \in 0 .. MarketCount /\ 1 \in Markets
      BY TournamentAssumption DEF Markets
    <3>2. /\ with \in Memory /\ with.pc = "market" /\ with.market = 1
          /\ with.anchor = run[p].anchor /\ with.timely = run[p].timely
          /\ with.due = run[p].due
      BY <1>1, <3>1 DEF Memory
    <3>3. Fits(with)
      BY <1>1, <2>1, <3>1, <3>2 DEF Fits, InCycle
    <3>4. QED
      BY <2>2, <3>2, <3>3 DEF GoesOn
  <2>3. CASE Update(p, AfterCycle(p))
    <3>1. /\ 0 \in 0 .. MarketCount /\ 0 \in 0 .. Days /\ 0 \in 0 .. Days + 1
          /\ run[p].anchor \in 0 .. Days
      BY <2>1, TournamentAssumption DEF Day
    <3>2. /\ AfterCycle(p) \in Memory /\ AfterCycle(p).pc = "monitor"
          /\ AfterCycle(p).due = {}
      BY <1>1, <3>1 DEF Memory, AfterCycle, Handled
    <3>3. QED
      BY <2>3, <3>2 DEF GoesOn, Fits, InCycle
  <2>4. CASE Return(p)
    BY <2>4, IdleType, IdleFits DEF Return, GoesOn
  <2>5. QED
    BY <1>3, <2>2, <2>3, <2>4 DEF BeginCycle
<1>4. CASE PreflightMarket(p)
  <2>1. run[p].pc = "market" /\ run[p].anchor \in Day /\ run[p].market \in Markets
    BY <1>1, <1>4 DEF PreflightMarket, Fits, InCycle
  <2>2. CASE State(run[p].market, run[p].anchor) = "ABSENT" /\ Go(p, "read")
    <3> DEFINE with == [run[p] EXCEPT !.pc = "read"]
    <3>1. run[p].timely
      BY <1>1, <2>1, <2>2 DEF Fits, FullyRecorded
    <3>2. /\ with \in Memory /\ with.pc = "read" /\ with.market = run[p].market
          /\ with.anchor = run[p].anchor /\ with.timely = run[p].timely
          /\ with.due = run[p].due
      BY <1>1 DEF Memory
    <3>3. QED
      BY <1>1, <2>1, <2>2, <3>1, <3>2 DEF Go, GoesOn, Fits, InCycle
  <2>3. CASE Update(p, NextMarket(p))
    BY <1>2, <2>1, <2>3 DEF InCycle
  <2>4. QED
    BY <1>4, <2>2, <2>3 DEF PreflightMarket
<1>5. CASE WriteLabel(p)
  <2>1. run[p].pc = "label"
    BY <1>5 DEF WriteLabel
  <2>2. ASSUME NEW l \in run[p].due, Update(p, Labelling(p, run[p].due \ {l}))
        PROVE  GoesOn(p)
    <3>1. run[p].due \ {l} \in SUBSET Label /\ \A k \in run[p].due \ {l} : Causal(k)
      BY <1>1 DEF Memory, Fits
    <3>2. QED
      BY <2>1, <2>2, <3>1, LabellingFits DEF GoesOn
  <2>3. QED
    BY <1>2, <1>5, <2>1, <2>2 DEF WriteLabel, InCycle
<1>6. CASE PersistMarket(p)
  BY <1>2, <1>6 DEF PersistMarket, InCycle
<1>7. QED
  BY <1>3, <1>4, <1>5, <1>6

\* The labels that are due carry closes of sessions complete at the anchor.
LEMMA ReadStep ==
    ASSUME IInv, NEW p \in Runtimes, ReadMarket(p)
    PROVE  GoesOn(p)
<1>1. run[p] \in Memory /\ Fits(run[p]) /\ run[p].pc = "read"
  BY DEF IInv, TypeOK, ReadMarket
<1>2. /\ run[p].anchor \in Day /\ run[p].market \in Markets
      /\ run[p].anchor <= LastAnchor(clock)
  BY <1>1 DEF Fits, InCycle
<1>3. ASSUME NEW bars \in SUBSET (1 .. run[p].anchor),
             Update(p, Labelling(p, Resolved(run[p].market, bars)))
      PROVE  GoesOn(p)
  <2> DEFINE due == Resolved(run[p].market, bars)
  <2>1. run[p].anchor \in Nat
    BY <1>2 DEF Day
  <2>2. due \in SUBSET Label
    BY <1>2, <2>1, ResolvedTypes
  <2>3. ASSUME NEW l \in due PROVE Causal(l)
    <3>0. /\ l \in [market : {run[p].market}, day : Day, horizon : Horizons, session : bars]
          /\ <<run[p].market, l.day>> \in long
          /\ l.session \in HorizonClose(l.day, l.horizon, bars)
      BY DEF Resolved
    <3>1. /\ l \in Label /\ <<run[p].market, l.day>> \in long /\ l.market = run[p].market
          /\ l.session \in HorizonClose(l.day, l.horizon, bars)
      BY <2>2, <3>0
    <3>2. l.day \in Nat /\ l.horizon \in Nat
      <4>1. l.day \in Day /\ l.horizon \in Horizons
        BY <3>1 DEF Label
      <4>2. QED
        BY <4>1, Numbers
    <3>3. l.session \in Nat /\ l.session <= run[p].anchor /\ l.session >= l.day + l.horizon
      BY <2>1, <3>1, <3>2, HorizonIsBehind
    <3>4. LastAnchor(clock) \in Int
      BY AnchorIsInt DEF IInv, TypeOK
    <3>5. QED
      BY <1>2, <2>1, <3>1, <3>3, <3>4 DEF Causal
  <2>4. QED
    BY <1>1, <1>3, <2>2, <2>3, LabellingFits DEF GoesOn
<1>4. CASE Update(p, NextMarket(p))
  BY <1>1, <1>4, NextMarketFits DEF GoesOn, InCycle
<1>5. QED
  BY <1>3, <1>4 DEF ReadMarket

\* Every step leaves every memory fitting.
LEMMA RunStep ==
    ASSUME IInv, [Next]_vars
    PROVE  run' \in [Runtimes -> Memory] /\ \A q \in Runtimes : Fits(run[q])'
<1>1. CASE \E p \in Runtimes : GoesOn(p)
  BY <1>1, UpdateFits DEF GoesOn
<1>2. CASE UNCHANGED run
  <2>1. Lasting
    BY LastingStep
  <2>2. run \in [Runtimes -> Memory] /\ \A q \in Runtimes : Fits(run[q])
    BY DEF IInv, TypeOK
  <2>3. \A r \in Memory : Fits(r) => Fits(r)'
    BY <2>1, FitsLasts
  <2>4. ASSUME NEW q \in Runtimes PROVE Fits(run[q])'
    <3>1. run'[q] \in Memory /\ Fits(run'[q])
      BY <1>2, <2>2
    <3>2. QED
      BY <2>3, <3>1 DEF Fits
  <2>5. QED
    BY <1>2, <2>2, <2>4
<1>3. ASSUME NEW p \in Runtimes,
             \/ OpenStore(p) \/ CreateTriggers(p) \/ CutShort(p)
             \/ BeginProbe(p) \/ ProbeReads(p) \/ CheckReadiness(p) \/ InsertReadiness(p)
             \/ \E d \in Day : CreateEpoch(p, d)
             \/ StartMonitor(p) \/ MonitorSteps(p) \/ Crash(p)
      PROVE  GoesOn(p)
  BY <1>3, ProbeSteps, ScheduleSteps, CycleSteps, ReadStep DEF MonitorSteps
<1>4. QED
  BY <1>1, <1>2, <1>3 DEF Next, vars, AppendRow, RequestStop, Tick

-----------------------------------------------------------------------------
(* The store.                                                              *)

StoreTypes ==
    /\ clock \in 0 .. 3 * Days - 1
    /\ stop \in BOOLEAN
    /\ guarded \in BOOLEAN
    /\ whole \in BOOLEAN
    /\ epoch \in 0 .. Days
    /\ probes \subseteq Day
    /\ readiness \subseteq Day
    /\ rows \in [Markets \X Day -> SUBSET [part : Parts, by : {"bundle", "row"}]]
    /\ long \subseteq Markets \X Day
    /\ labels \subseteq Label

StoreInv ==
    /\ StoreTypes
    /\ LabelsAreCausal
    /\ EpochIsGranted
    /\ RowsFollowEpoch
    /\ BundlesAreUnmixed

\* Steps that change the clock, the stop marker or the trigger at most.
LEMMA AroundStep ==
    ASSUME IInv, Lasting, UNCHANGED evidence, clock' \in 0 .. 3 * Days - 1, stop' \in BOOLEAN,
           guarded' \in BOOLEAN, whole' \in BOOLEAN
    PROVE  StoreInv'
<1> USE DEF IInv, TypeOK, evidence
<1>1. StoreTypes'
  BY DEF StoreTypes
<1>2. LabelsAreCausal'
  BY DEF LabelsAreCausal, Lasting, Label
<1>3. EpochIsGranted' /\ RowsFollowEpoch' /\ BundlesAreUnmixed'
  BY DEF EpochIsGranted, RowsFollowEpoch, BundlesAreUnmixed
<1>4. QED
  BY <1>1, <1>2, <1>3 DEF StoreInv

\* Probes, readiness and the epoch.
LEMMA EpochStep ==
    ASSUME IInv, NEW p \in Runtimes,
           ProbeReads(p) \/ InsertReadiness(p) \/ \E d \in Day : CreateEpoch(p, d)
    PROVE  StoreInv'
<1> USE DEF IInv, TypeOK
<1>1. /\ UNCHANGED <<clock, stop, schema, rows, long, labels>>
      /\ probes \subseteq probes' /\ readiness \subseteq readiness'
  BY DEF ProbeReads, InsertReadiness, CreateEpoch
<1>2. probes' \subseteq Day /\ readiness' \subseteq Day
  <2>1. CASE ProbeReads(p) \/ InsertReadiness(p)
    <3>1. run[p].anchor \in Day
      BY <2>1 DEF ProbeReads, InsertReadiness, Fits
    <3>2. QED
      BY <2>1, <3>1 DEF ProbeReads, InsertReadiness
  <2>2. QED
    BY <2>1 DEF CreateEpoch
<1>3. epoch' \in 0 .. Days /\ (epoch # 0 => epoch' = epoch)
  BY DEF ProbeReads, InsertReadiness, CreateEpoch, Day
<1>4. EpochIsGranted'
  <2>1. CASE UNCHANGED epoch
    BY <1>1, <2>1 DEF EpochIsGranted
  <2>2. ASSUME NEW d \in Day, CreateEpoch(p, d) PROVE EpochIsGranted'
    BY <2>2 DEF CreateEpoch, HasReadiness, EpochIsGranted
  <2>3. QED
    BY <2>1, <2>2 DEF ProbeReads, InsertReadiness
<1>5. RowsFollowEpoch' /\ BundlesAreUnmixed' /\ LabelsAreCausal'
  BY <1>1, <1>3 DEF RowsFollowEpoch, BundlesAreUnmixed, LabelsAreCausal, Day
<1>6. QED
  BY <1>1, <1>2, <1>3, <1>4, <1>5 DEF StoreInv, StoreTypes, schema

\* A label is written once, and it is causal.
LEMMA LabelStep == ASSUME IInv, NEW p \in Runtimes, WriteLabel(p) PROVE StoreInv'
<1> USE DEF IInv, TypeOK
<1>1. UNCHANGED <<clock, stop, schema, epoch, probes, readiness, rows, long>>
  BY DEF WriteLabel
<1>2. \/ UNCHANGED labels
      \/ \E l \in run[p].due : Unlabelled(l) /\ labels' = labels \union {l}
  BY DEF WriteLabel
<1>3. \A l \in run[p].due : l \in Label /\ Causal(l)
  BY DEF Memory, Fits
<1>4. labels' \subseteq Label
  BY <1>2, <1>3
<1>5. LabelsAreCausal'
  <2>1. \A k \in labels' : /\ <<k.market, k.day>> \in long'
                           /\ k.session >= k.day + k.horizon
                           /\ k.session <= LastAnchor(clock')
    BY <1>1, <1>2, <1>3 DEF LabelsAreCausal, Causal
  <2>2. \A k, o \in labels' :
            <<k.market, k.day, k.horizon>> = <<o.market, o.day, o.horizon>> => k = o
    BY <1>2 DEF LabelsAreCausal, Unlabelled
  <2>3. QED
    BY <2>1, <2>2 DEF LabelsAreCausal
<1>6. EpochIsGranted' /\ RowsFollowEpoch' /\ BundlesAreUnmixed'
  BY <1>1 DEF EpochIsGranted, RowsFollowEpoch, BundlesAreUnmixed
<1>7. QED
  BY <1>1, <1>4, <1>5, <1>6 DEF StoreInv, StoreTypes, schema

\* Rows, one by one or as a bundle, of one observation.
LEMMA RowsStep ==
    ASSUME IInv, NEW m \in Markets, NEW d \in Day,
           \/ AppendBundle(m, d) \/ UNCHANGED <<rows, long>>
           \/ \E part \in Parts : AppendRow(m, d, part),
           UNCHANGED <<clock, stop, schema, epoch, probes, readiness, labels>>
    PROVE  StoreInv'
<1> USE DEF IInv, TypeOK
<1>1. /\ \A n \in Markets, e \in Day :
             <<n, e>> # <<m, d>> => rows'[<<n, e>>] = rows[<<n, e>>]
      /\ rows' \in [Markets \X Day -> SUBSET [part : Parts, by : {"bundle", "row"}]]
      /\ long \subseteq long' /\ long' \subseteq Markets \X Day
  BY DEF AppendBundle, AppendRow, Whole
<1>2. rows'[<<m, d>>] # rows[<<m, d>>] => epoch \in 1 .. d
  BY DEF AppendBundle, AppendRow, Day
<1>3. (\E r \in rows'[<<m, d>>] : r.by = "bundle") => rows'[<<m, d>>] = Whole("bundle")
  <2>1. CASE AppendBundle(m, d) \/ UNCHANGED <<rows, long>>
    BY <2>1 DEF AppendBundle, BundlesAreUnmixed
  <2>2. ASSUME NEW part \in Parts, AppendRow(m, d, part) PROVE <1>3
    <3>1. rows'[<<m, d>>] = rows[<<m, d>>] \union {[part |-> part, by |-> "row"]}
      BY <2>2 DEF AppendRow
    <3>2. rows[<<m, d>>] # Whole("bundle")
      <4>1. [part |-> part, by |-> "bundle"] \in Whole("bundle")
        BY DEF Whole
      <4>2. part \in {x.part : x \in Whole("bundle")}
        BY <4>1
      <4>3. QED
        BY <2>2, <4>2 DEF AppendRow
    <3>3. QED
      BY <3>1, <3>2 DEF BundlesAreUnmixed
  <2>3. QED
    BY <2>1, <2>2
<1>4. RowsFollowEpoch'
  BY <1>1, <1>2 DEF RowsFollowEpoch
<1>5. BundlesAreUnmixed'
  BY <1>1, <1>3 DEF BundlesAreUnmixed
<1>6. EpochIsGranted' /\ LabelsAreCausal'
  BY <1>1 DEF EpochIsGranted, LabelsAreCausal
<1>7. QED
  BY <1>1, <1>4, <1>5, <1>6 DEF StoreInv, StoreTypes, schema

LEMMA StoreStep == ASSUME IInv, [Next]_vars PROVE StoreInv'
<1>1. Lasting
  BY LastingStep
<1>2. CASE UNCHANGED evidence
  <2>1. clock' \in 0 .. 3 * Days - 1
    <3>1. CASE UNCHANGED clock
      BY <3>1 DEF IInv, TypeOK
    <3>2. CASE Tick
      BY <3>2, TournamentAssumption DEF IInv, TypeOK, Tick
    <3>3. QED
      BY <3>1, <3>2 DEF Next, vars, OpenStore, CreateTriggers, CutShort,
        BeginProbe, ProbeReads, CheckReadiness, InsertReadiness,
         StartMonitor, MonitorSteps, Crash, CreateEpoch, AppendRow, RequestStop, Sleep,
         Observe, WakeLate, SeeStop, BeginCycle, PreflightMarket, ReadMarket, WriteLabel,
         PersistMarket
  <2>2. stop' \in BOOLEAN
    <3>1. CASE UNCHANGED stop
      BY <3>1 DEF IInv, TypeOK
    <3>2. CASE RequestStop
      BY <3>2 DEF RequestStop
    <3>3. QED
      BY <3>1, <3>2 DEF Next, vars, OpenStore, CreateTriggers, CutShort,
        BeginProbe, ProbeReads, CheckReadiness, InsertReadiness,
         StartMonitor, MonitorSteps, Crash, CreateEpoch, AppendRow, Tick, Sleep,
         Observe, WakeLate, SeeStop, BeginCycle, PreflightMarket, ReadMarket, WriteLabel,
         PersistMarket
  <2>3. guarded' \in BOOLEAN /\ whole' \in BOOLEAN
    <3>1. CASE UNCHANGED schema
      BY <3>1 DEF IInv, TypeOK, schema
    <3>2. ASSUME NEW p \in Runtimes,
                 OpenStore(p) \/ CreateTriggers(p) \/ CutShort(p) \/ Crash(p)
          PROVE  <2>3
      BY <3>2 DEF IInv, TypeOK, OpenStore, CreateTriggers, CutShort, Crash
    <3>3. QED
      BY <3>1, <3>2 DEF Next, vars, BeginProbe, ProbeReads, CheckReadiness, InsertReadiness,
         StartMonitor, MonitorSteps, CreateEpoch, AppendRow, RequestStop, Tick, Sleep,
         Observe, WakeLate, SeeStop, BeginCycle, PreflightMarket, ReadMarket, WriteLabel,
         PersistMarket
  <2>4. QED
    BY <1>1, <1>2, <2>1, <2>2, <2>3, AroundStep
<1>3. ASSUME NEW p \in Runtimes, PersistMarket(p) PROVE StoreInv'
  <2>1. run[p].anchor \in Day /\ run[p].market \in Markets
    BY <1>3 DEF PersistMarket, IInv, Fits, InCycle
  <2>2. QED
    BY <1>3, <2>1, RowsStep DEF PersistMarket
<1>4. ASSUME NEW m \in Markets, NEW d \in Day, NEW part \in Parts, AppendRow(m, d, part)
      PROVE  StoreInv'
  BY <1>4, RowsStep DEF AppendRow
<1>5. QED
  BY <1>2, <1>3, <1>4, EpochStep, LabelStep
  DEF Next, vars, evidence, OpenStore, CreateTriggers, CutShort, BeginProbe, CheckReadiness,
      StartMonitor, MonitorSteps, Crash, RequestStop, Tick, Sleep, Observe, WakeLate, SeeStop, BeginCycle, PreflightMarket,
      ReadMarket

-----------------------------------------------------------------------------
(* The trigger.                                                            *)

\* A step of a process that is not at its script leaves the scripts of the others.
LEMMA ScriptsGoOn ==
    ASSUME IInv, NEW p \in Runtimes, run[p].pc # "opening", NEW with, Update(p, with),
           UNCHANGED schema
    PROVE  GuardIsKept'
<1>1. \A q \in Runtimes : run[q].pc = "opening" => run'[q] = run[q]
  BY DEF IInv, TypeOK, Update
<1>2. QED
  BY <1>1 DEF IInv, GuardIsKept, schema

LEMMA GuardStep == ASSUME IInv, [Next]_vars PROVE GuardIsKept'
<1>1. CASE UNCHANGED <<schema, run>>
  BY <1>1 DEF IInv, GuardIsKept, schema
<1>2. ASSUME NEW p \in Runtimes, OpenStore(p) PROVE GuardIsKept'
  <2>1. run'[p].pc = "opening"
    BY <1>2 DEF OpenStore, Go, Update, IInv, TypeOK, Memory
  <2>2. QED
    BY <2>1 DEF GuardIsKept
<1>3. ASSUME NEW p \in Runtimes, CreateTriggers(p) \/ CutShort(p) PROVE GuardIsKept'
  BY <1>3 DEF CreateTriggers, CutShort, GuardIsKept
<1>4. ASSUME NEW p \in Runtimes, Crash(p) PROVE GuardIsKept'
  <2>1. CASE run[p].pc = "opening"
    BY <1>4, <2>1 DEF Crash, GuardIsKept
  <2>2. CASE run[p].pc # "opening"
    <3>1. Update(p, Idle) /\ UNCHANGED schema
      BY <1>4, <2>2 DEF Crash, Return, schema
    <3>2. QED
      BY <2>2, <3>1, ScriptsGoOn
  <2>3. QED
    BY <2>1, <2>2
<1>5. ASSUME NEW p \in Runtimes,
             \/ BeginProbe(p) \/ ProbeReads(p) \/ CheckReadiness(p) \/ InsertReadiness(p)
             \/ \E d \in Day : CreateEpoch(p, d)
             \/ StartMonitor(p) \/ MonitorSteps(p)
      PROVE  GuardIsKept'
  <2>1. UNCHANGED schema /\ run[p].pc # "opening"
    BY <1>5 DEF BeginProbe, ProbeReads, CheckReadiness, InsertReadiness, CreateEpoch,
       StartMonitor, MonitorSteps, Sleep, Observe, WakeLate, SeeStop, BeginCycle,
       PreflightMarket, ReadMarket, WriteLabel, PersistMarket
  <2>2. GoesOn(p)
    BY <1>5, ProbeSteps, ScheduleSteps, CycleSteps, ReadStep DEF MonitorSteps
  <2>3. QED
    BY <2>1, <2>2, ScriptsGoOn DEF GoesOn
<1>6. QED
  BY <1>1, <1>2, <1>3, <1>4, <1>5 DEF Next, vars, AppendRow, RequestStop, Tick

-----------------------------------------------------------------------------
(* Theorems.                                                               *)

LEMMA InitIInv == Init => IInv
<1> SUFFICES ASSUME Init PROVE IInv
  OBVIOUS
<1>1. \A p \in Runtimes : Fits(run[p])
  BY IdleFits DEF Init
<1>2. LabelsAreCausal /\ EpochIsGranted /\ RowsFollowEpoch /\ BundlesAreUnmixed
  BY DEF Init, LabelsAreCausal, EpochIsGranted, RowsFollowEpoch, BundlesAreUnmixed
<1>3. GuardIsKept
  BY DEF Init, GuardIsKept
<1>4. QED
  BY <1>1, <1>2, <1>3, TypesAtStart DEF IInv

\* Types, the trigger, fitting memories and a sound store hold throughout, whatever processes,
\* markets, days and horizons there are (monitor, the store's transactions, triggers).
THEOREM InductiveInvariant == Spec => []IInv
<1>1. IInv /\ [Next]_vars => IInv'
  <2>1. SUFFICES ASSUME IInv, [Next]_vars PROVE IInv'
    OBVIOUS
  <2>2. StoreInv' /\ run' \in [Runtimes -> Memory] /\ \A q \in Runtimes : Fits(run[q])'
    BY <2>1, StoreStep, RunStep
  <2>3. GuardIsKept'
    BY <2>1, GuardStep
  <2>4. QED
    BY <2>2, <2>3 DEF IInv, TypeOK, StoreInv, StoreTypes
<1>2. QED
  BY <1>1, InitIInv, PTL DEF Spec

\* Every variable keeps its type (the store's schema and the monitor's memory).
THEOREM TypeCorrect == Spec => []TypeOK
<1>1. IInv => TypeOK
  BY DEF IInv
<1>2. QED
  BY <1>1, InductiveInvariant, PTL

\* No observation mixes a bundle with anything else, however many monitors and row
\* writers there are (append_market_observation).
THEOREM BundlesHold == Spec => []BundlesAreUnmixed
<1>1. IInv => BundlesAreUnmixed
  BY DEF IInv
<1>2. QED
  BY <1>1, InductiveInvariant, PTL

\* Labels are single and carry the close of a session far enough behind the decision
\* and complete (resolve_outcomes), from whatever history a monitor read.
THEOREM LabelsHold == Spec => []LabelsAreCausal
<1>1. IInv => LabelsAreCausal
  BY DEF IInv
<1>2. QED
  BY <1>1, InductiveInvariant, PTL

\* All evidence is at or after the epoch, the epoch after a verified readiness, and a
\* late restart reads nothing (create_epoch, the append paths, monitor).
THEOREM EvidenceHolds == Spec => []ObservationsAreProspective
<1>1. IInv => EvidenceIsProspective
  BY DEF IInv, TypeOK, EvidenceIsProspective, EpochIsGranted, RowsFollowEpoch, Day
<1>2. IInv => OnlyTimelyCyclesRead
  BY DEF IInv, Fits, OnlyTimelyCyclesRead
<1>3. QED
  BY <1>1, <1>2, InductiveInvariant, PTL DEF ObservationsAreProspective

\* The epoch is never touched again, and its readiness only while the insert trigger is
\* missing: between the DROP and the CREATE of a process that opens the store, or after
\* one that was cut short there (record_epoch_readiness, initialize, triggers).
THEOREM EpochHolds == Spec => EpochIsFinal
<1> DEFINE Final == epoch # 0 => epoch' = epoch /\ (readiness' = readiness \/ Reopening)
<1>1. ASSUME IInv, [Next]_vars PROVE [Final]_<<epoch, readiness>>
  <2>1. CASE UNCHANGED <<epoch, readiness>>
    BY <2>1
  <2>2. ASSUME NEW p \in Runtimes, InsertReadiness(p) PROVE Final
    <3>1. epoch' = epoch /\ (epoch # 0 /\ guarded => readiness' = readiness)
      BY <2>2 DEF InsertReadiness
    <3>2. guarded \/ Reopening
      BY <1>1 DEF IInv, TypeOK, GuardIsKept, Reopening
    <3>3. QED
      BY <3>1, <3>2
  <2>3. ASSUME NEW p \in Runtimes, NEW d \in Day, CreateEpoch(p, d) PROVE Final
    BY <2>3 DEF CreateEpoch
  <2>4. QED
    BY <1>1, <2>1, <2>2, <2>3
    DEF Next, vars, evidence, OpenStore, CreateTriggers, CutShort, BeginProbe, ProbeReads,
        CheckReadiness, StartMonitor, MonitorSteps, Crash, AppendRow, RequestStop, Tick,
        Sleep, Observe, WakeLate, SeeStop, BeginCycle, PreflightMarket, ReadMarket,
        WriteLabel, PersistMarket
<1>2. QED
  BY <1>1, InductiveInvariant, PTL DEF Spec, EpochIsFinal

-----------------------------------------------------------------------------
(* The handoff: what the files hold                                        *)

Tables(T) == UNION {[S -> T] : S \in SUBSET Symbols}

Prints == Symbols \X Contracts \X Candles
HistorySamples == [symbol : Symbols, epic : Contracts, rows : Candles \cup {None}]
RegistryRows ==
    [made : Nat, epic : Contracts \cup {None},
     status : {"BROKER_VALIDATION_PENDING", "BROKER_VALIDATED", "DATA_QUALITY_FAIL"},
     print : Prints \cup {None}, sample : HistorySamples \cup {None}]
Registries ==
    [context : Accounts, latest : Phases \cup {None}, rows : Tables(RegistryRows)]
Manifests ==
    [context : Accounts, phase : Phases, count : 0 .. Cardinality(Symbols), history : BOOLEAN]

Filling == {"registry", "fill registry", "history", "fill history", "manifest"}
LaterOnly == {"context", "load", "sample"}

\* What an execution may hold.
Memories ==
    {m \in [pc : {"off", "previous", "fill manifest"} \cup Filling \cup LaterOnly,
            phase : Phases, context : Accounts \cup {None}, items : Tables(RegistryRows),
            samples : Tables(HistorySamples), document : Registries \cup Manifests \cup {None}] :
        /\ m.pc # "off" => m.context \in Accounts
        /\ m.pc \in LaterOnly => m.phase # "PHASE_1"
        /\ m.pc \in Filling => m.document \in Registries
        /\ m.pc = "fill manifest" => m.document \in Manifests}

HandoffTypeOK ==
    /\ Document(registry) => registry \in Registries
    /\ Document(manifest) => manifest \in Manifests
    /\ Document(history) => history \in Tables(HistorySamples)
    /\ execution \in [Executions -> Memories]
    /\ loader \in [kind : {None, "tournament", "laboratory"}, found : Registries \cup {None},
                   pc : {"off", "manifest", "history"}]
    /\ loader.pc # "off" => loader.found \in Registries
    /\ resolved \in Seq(Accounts)
    /\ begun \in Nat /\ deaths \in Nat
    /\ read \subseteq [made : Nat, print : Prints, by : Accounts]
    /\ overlapped \in BOOLEAN /\ disturbed \in BOOLEAN

-----------------------------------------------------------------------------
\* A sample that passed was read.
WasRead(x) == x.rows # None => \E r \in read : r.print = Fingerprint(x)

SamplesWereRead ==
    /\ \A p \in Executions : \A x \in Values(execution[p].samples) : WasRead(x)
    /\ Document(history) => \A x \in Values(history) : WasRead(x)

\* A row of the registry of account c: it was resolved by c; its validation and its sample
\* are of readings for this very resolution.
Rooted(row, c) ==
    /\ row.made \in DOMAIN resolved /\ resolved[row.made] = c
    /\ row.status = "BROKER_VALIDATED" =>
          \E r \in read : r.made = row.made /\ r.print = row.print
    /\ row.sample # None /\ row.sample.rows # None =>
          \E r \in read : r.made = row.made /\ r.print = Fingerprint(row.sample)

\* ... and the validation is by c.
Owned(row, c) ==
    row.status = "BROKER_VALIDATED" =>
        \E r \in read : r.made = row.made /\ r.print = row.print /\ r.by = c

AllRooted(held, c) == \A s \in DOMAIN held : Rooted(held[s], c)
AllOwned(held, c) == \A s \in DOMAIN held : Owned(held[s], c)

\* Without overlap one execution is under way at a time.
AtMostOne ==
    \A p, q \in Executions : execution[p].pc # "off" /\ execution[q].pc # "off" => p = q

\* Every row of the registry is rooted; if the manifest is of its account, that account
\* validated its rows.
FilesFit ==
    Document(registry) =>
        /\ AllRooted(registry.rows, registry.context)
        /\ (Document(manifest) /\ manifest.context = registry.context) =>
              AllOwned(registry.rows, registry.context)

\* A later phase goes on from the files of its own account, ...
Joined(m) == Document(manifest) /\ manifest.context = m.context

\* ... with resolutions that are still those of the registry, ...
OfRegistry(m) ==
    /\ Document(registry)
    /\ \A s \in DOMAIN m.items :
          /\ s \in DOMAIN registry.rows
          /\ m.items[s].made = registry.rows[s].made
          /\ Rooted(m.items[s], registry.context)
          /\ m.context = registry.context => Owned(m.items[s], registry.context)

\* ... and samples that it read for these resolutions.
OfSamples(m) ==
    \A x \in Values(m.samples) : x.rows # None =>
        /\ x.symbol \in DOMAIN m.items
        /\ \E r \in read : r.made = m.items[x.symbol].made /\ r.print = Fingerprint(x)

\* What an execution holds, step by step, of the evidence it is about to write.
Knows(m) ==
    /\ m.phase # "PHASE_1" /\ m.pc \in {"load", "sample", "previous"} \cup Filling => Joined(m)
    /\ m.pc = "previous" /\ m.phase = "PHASE_1" =>
          \A s \in DOMAIN m.items :
              Rooted(m.items[s], m.context) /\ m.items[s].status # "BROKER_VALIDATED"
    /\ m.phase # "PHASE_1" /\ m.pc \in {"sample", "previous"} => OfRegistry(m)
    /\ m.pc = "previous" => OfSamples(m)
    /\ m.pc \in {"context", "load", "sample"} => m.samples = <<>>
    /\ m.pc \in {"registry", "fill registry"} =>
          /\ AllRooted(m.document.rows, m.document.context)
          /\ m.phase = "PHASE_1" \/ m.document.context = m.context =>
                AllOwned(m.document.rows, m.document.context)
    /\ m.pc \in {"history", "fill history", "manifest", "fill manifest"} =>
          (Document(registry) /\ m.context = registry.context =>
              AllOwned(registry.rows, registry.context))
    /\ m.pc = "fill manifest" => m.document.context = m.context

\* A loader that no execution disturbs reads one state of the files.
LoaderFits ==
    loader.pc # "off" /\ ~disturbed =>
        /\ \A p \in Executions : execution[p].pc = "off"
        /\ Document(registry) /\ loader.found = registry
        /\ loader.kind = "tournament" /\ loader.pc = "history" => Linked(registry)

OriginsFit ==
    ~overlapped =>
        /\ AtMostOne
        /\ FilesFit
        /\ \A p \in Executions : Knows(execution[p])
        /\ LoaderFits

-----------------------------------------------------------------------------
\* Where nobody dies and nobody overlaps, the three files fit together.
IsValidated(row) == row.status = "BROKER_VALIDATED"
AnyValidated(held) == \E s \in DOMAIN held : IsValidated(held[s])
Alone(held, s) == \A t \in DOMAIN held \ {s} : held[t].epic # held[s].epic

\* The sample at t is the only one of symbol s.
OnlySample(samples, s, t) ==
    t \in DOMAIN samples /\ {u \in DOMAIN samples : samples[u].symbol = s} = {t}

\* A validated row has a contract; one whose contract no other row has is bound to its sample.
Chosen(held) == \A s \in DOMAIN held : IsValidated(held[s]) => held[s].epic # None
Match(held, samples) ==
    \A s \in DOMAIN held :
        IsValidated(held[s]) /\ Alone(held, s) =>
            \E t \in DOMAIN samples :
                /\ OnlySample(samples, s, t)
                /\ samples[t].epic = held[s].epic /\ samples[t].rows # None
                /\ held[s].print = Fingerprint(samples[t])

Evidenced(held) == AnyValidated(held) => Document(history) /\ Match(held, history)

\* The three files are of one execution, and the history proves what the registry says.
Sound ==
    Document(registry) =>
        /\ Document(manifest) /\ manifest.context = registry.context
        /\ registry.latest # None => manifest.phase = registry.latest
        /\ manifest.count = Cardinality(DOMAIN registry.rows)
        /\ AnyValidated(registry.rows) => manifest.history
        /\ Chosen(registry.rows) /\ Evidenced(registry.rows)

\* What the execution m is about to write matches what it sampled, or the history.
Pending(m, held) ==
    /\ Chosen(held)
    /\ IF DOMAIN m.samples = {} THEN Evidenced(held)
       ELSE Match(held, m.samples)

Same(items, held) ==
    /\ DOMAIN items = DOMAIN held
    /\ \A s \in DOMAIN items : items[s].epic = held[s].epic

Latest(m) == IF m.phase = "PHASE_1" THEN None ELSE m.phase

\* What an execution carries from file to file.
Carries(m) ==
    /\ m.pc = "previous" /\ m.phase = "PHASE_1" => ~AnyValidated(m.items)
    /\ m.phase # "PHASE_1" /\ m.pc \in {"sample", "previous"} =>
          Document(registry) /\ Same(m.items, registry.rows) /\ Chosen(m.items)
    /\ m.phase # "PHASE_1" /\ m.pc = "previous" => Pending(m, m.items)
    /\ m.pc \in Filling =>
          m.document.context = m.context /\ m.document.latest = Latest(m)
    /\ m.pc \in {"registry", "fill registry"} => Pending(m, m.document.rows)
    /\ m.pc \in {"history", "fill history"} =>
          registry = m.document /\ Chosen(registry.rows) /\ Match(registry.rows, m.samples)
    /\ m.pc = "manifest" =>
          registry = m.document /\ Chosen(registry.rows) /\ Evidenced(registry.rows)
    /\ m.pc = "fill manifest" /\ Document(registry) =>
          /\ Chosen(registry.rows) /\ Evidenced(registry.rows)
          /\ m.document.context = registry.context
          /\ registry.latest # None => m.document.phase = registry.latest
          /\ m.document.count = Cardinality(DOMAIN registry.rows)
          /\ AnyValidated(registry.rows) => m.document.history

\* Between its first and its last file an execution leaves the three files apart.
Writing == {"fill registry", "history", "fill history", "manifest", "fill manifest"}

NothingIsLost ==
    deaths = 0 /\ ~overlapped =>
        /\ (\A p \in Executions : execution[p].pc \notin Writing) => Sound
        /\ \A p \in Executions : Carries(execution[p])
        /\ loader.pc # "off" /\ loader.kind = "tournament" => loader.found.latest # None

HandoffIInv == HandoffTypeOK /\ SamplesWereRead /\ OriginsFit /\ NothingIsLost

-----------------------------------------------------------------------------
(* Types *)

LEMMA TableParts ==
    ASSUME NEW T, NEW f \in Tables(T)
    PROVE  /\ f \in [DOMAIN f -> T]
           /\ DOMAIN f \subseteq Symbols
           /\ IsFiniteSet(DOMAIN f)
           /\ Cardinality(DOMAIN f) \in 0 .. Cardinality(Symbols)
<1>1. PICK S \in SUBSET Symbols : f \in [S -> T]
    BY DEF Tables
<1>2. DOMAIN f = S
    BY <1>1
<1>3. /\ IsFiniteSet(S) /\ Cardinality(S) <= Cardinality(Symbols)
    BY FS_Subset, SymbolsAssumption
<1>4. Cardinality(S) \in Nat /\ Cardinality(Symbols) \in Nat
    BY <1>3, FS_CardinalityType, SymbolsAssumption
<1>5. QED
    BY <1>1, <1>2, <1>3, <1>4

LEMMA MakesTable ==
    ASSUME NEW T, NEW f, DOMAIN f \subseteq Symbols, f \in [DOMAIN f -> T]
    PROVE  f \in Tables(T)
BY DEF Tables

LEMMA EmptyTable ==
    ASSUME NEW T
    PROVE  <<>> \in Tables(T) /\ DOMAIN <<>> = {}
<1>1. DOMAIN <<>> = {}
    OBVIOUS
<1>2. <<>> \in [{} -> T]
  <2>1. <<>> \in Seq(T) /\ Len(<<>>) = 0
      OBVIOUS
  <2>2. \A f \in Seq(T) : f \in [1 .. Len(f) -> T]
      OBVIOUS
  <2>3. 1 .. 0 = {}
      OBVIOUS
  <2>4. QED
      BY <2>1, <2>2, <2>3
<1>3. QED
    BY <1>1, <1>2 DEF Tables

LEMMA NotUnderWayType == NotUnderWay \in Memories
<1>1. <<>> \in Tables(RegistryRows) /\ <<>> \in Tables(HistorySamples)
    BY EmptyTable
<1>2. QED
    BY <1>1 DEF NotUnderWay, Memories, Filling, LaterOnly, Phases

LEMMA HandoffTypeInit ==
    ASSUME HandoffInit
    PROVE  HandoffTypeOK
<1>1. execution \in [Executions -> Memories]
    BY NotUnderWayType DEF HandoffInit
<1>2. loader \in [kind : {None, "tournament", "laboratory"}, found : Registries \cup {None},
                  pc : {"off", "manifest", "history"}] /\ loader.pc = "off"
    BY DEF HandoffInit, Unread
<1>3. resolved \in Seq(Accounts)
    BY DEF HandoffInit
<1>4. QED
    BY <1>1, <1>2, <1>3 DEF HandoffInit, HandoffTypeOK, Document

LEMMA Remembers ==
    ASSUME execution \in [Executions -> Memories], NEW p \in Executions, NEW m \in Memories,
           Remember(p, m)
    PROVE  /\ execution' \in [Executions -> Memories]
           /\ execution'[p] = m
           /\ \A q \in Executions \ {p} : execution'[q] = execution[q]
BY DEF Remember

LEMMA ProceedsType ==
    ASSUME NEW m \in Memories, m.pc # "off",
           NEW pc \in {"load", "sample", "previous", "fill registry", "history", "fill history", "manifest"},
           pc \in LaterOnly => m.phase # "PHASE_1",
           pc \in Filling => m.pc \in Filling
    PROVE  [m EXCEPT !.pc = pc] \in Memories
BY DEF Memories, Filling, LaterOnly

LEMMA ResolutionsType ==
    ASSUME resolved \in Seq(Accounts), NEW items \in Resolutions(Len(resolved) + 1)
    PROVE  /\ items \in Tables(RegistryRows)
           /\ \A s \in DOMAIN items :
                 /\ items[s].made = Len(resolved) + 1
                 /\ items[s].status = "BROKER_VALIDATION_PENDING"
                 /\ items[s].print = None
                 /\ items[s].sample = None
<1> DEFINE made == Len(resolved) + 1
           Row(epic) == [made |-> made, epic |-> epic, status |-> "BROKER_VALIDATION_PENDING",
                         print |-> None, sample |-> None]
<1>1. PICK S \in {{s} : s \in Symbols} \cup {Symbols} :
          \E choice \in [S -> Contracts \cup {None}] : items = [s \in S |-> Row(choice[s])]
  <2>1. Resolutions(made) =
            UNION {{[s \in S |-> Row(choice[s])] : choice \in [S -> Contracts \cup {None}]} :
                      S \in {{s} : s \in Symbols} \cup {Symbols}}
      BY DEF Resolutions
  <2> HIDE DEF Row
  <2>2. QED
      BY <2>1
<1> PICK choice \in [S -> Contracts \cup {None}] : items = [s \in S |-> Row(choice[s])]
    BY <1>1
<1>2. S \subseteq Symbols /\ made \in Nat
    OBVIOUS
<1>3. \A s \in S : items[s] = Row(choice[s]) /\ choice[s] \in Contracts \cup {None}
    BY <1>1
<1>4. DOMAIN items = S
    BY <1>1
<1>5. \A s \in S : items[s] \in RegistryRows
    BY <1>2, <1>3 DEF RegistryRows
<1>6. items \in [DOMAIN items -> RegistryRows]
    BY <1>1, <1>4, <1>5
<1>7. items \in Tables(RegistryRows)
    BY <1>2, <1>4, <1>6, MakesTable
<1>8. QED
    BY <1>3, <1>4, <1>7

LEMMA ResolveType ==
    ASSUME HandoffTypeOK, NEW p \in Executions, Resolve(p)
    PROVE  HandoffTypeOK'
<1>1. PICK context \in Accounts, items \in Resolutions(Len(resolved) + 1) :
          /\ Remember(p, [NotUnderWay EXCEPT !.pc = "previous", !.context = context,
                                             !.items = items])
          /\ resolved' = Append(resolved, context)
    BY DEF Resolve
<1>2. items \in Tables(RegistryRows)
    BY ResolutionsType DEF HandoffTypeOK
<1>3. NotUnderWay.phase = "PHASE_1"
    BY DEF NotUnderWay
<1>4. [NotUnderWay EXCEPT !.pc = "previous", !.context = context, !.items = items] \in Memories
    BY <1>2, <1>3, NotUnderWayType DEF Memories, Filling, LaterOnly, Phases
<1>5. execution' \in [Executions -> Memories]
    BY <1>1, <1>4, Remembers DEF HandoffTypeOK
<1>6. resolved' \in Seq(Accounts)
    BY <1>1 DEF HandoffTypeOK
<1>7. QED
    BY <1>5, <1>6 DEF HandoffTypeOK, Resolve, Begins, files, Document

LEMMA BeginLaterType ==
    ASSUME HandoffTypeOK, NEW p \in Executions, NEW phase \in {"PHASE_2", "PHASE_3"},
           BeginLater(p, phase)
    PROVE  HandoffTypeOK'
<1>1. PICK context \in Accounts :
          Remember(p, [NotUnderWay EXCEPT !.pc = "context", !.phase = phase,
                                          !.context = context])
    BY DEF BeginLater
<1>2. [NotUnderWay EXCEPT !.pc = "context", !.phase = phase, !.context = context] \in Memories
    BY NotUnderWayType DEF Memories, Filling, LaterOnly, Phases
<1>3. execution' \in [Executions -> Memories]
    BY <1>1, <1>2, Remembers DEF HandoffTypeOK
<1>4. QED
    BY <1>3 DEF HandoffTypeOK, BeginLater, Begins, files, Document

LEMMA EndsType ==
    ASSUME HandoffTypeOK, NEW p \in Executions, End(p)
    PROVE  execution' \in [Executions -> Memories]
BY NotUnderWayType, Remembers DEF HandoffTypeOK, End

LEMMA CheckContextType ==
    ASSUME HandoffTypeOK, NEW p \in Executions, CheckContext(p)
    PROVE  HandoffTypeOK'
<1>1. execution[p] \in Memories /\ execution[p].phase # "PHASE_1"
    BY DEF HandoffTypeOK, CheckContext, Memories, LaterOnly
<1>2. [execution[p] EXCEPT !.pc = "load"] \in Memories
    BY <1>1, ProceedsType DEF CheckContext, Filling
<1>3. execution' \in [Executions -> Memories]
    BY <1>2, Remembers, EndsType DEF HandoffTypeOK, CheckContext, Proceed
<1>4. QED
    BY <1>3 DEF HandoffTypeOK, CheckContext, observed, files, Document

LEMMA LoadResolutionsType ==
    ASSUME HandoffTypeOK, NEW p \in Executions, LoadResolutions(p)
    PROVE  HandoffTypeOK'
<1> DEFINE items == [s \in DOMAIN registry.rows |-> [registry.rows[s] EXCEPT !.sample = None]]
           m == [execution[p] EXCEPT
                    !.pc = IF execution[p].phase = "PHASE_2" THEN "sample" ELSE "previous",
                    !.items = items]
<1>1. execution[p] \in Memories /\ execution[p].phase # "PHASE_1" /\ execution[p].pc # "off"
    BY DEF HandoffTypeOK, LoadResolutions, Memories, LaterOnly
<1>2. CASE Document(registry)
  <2>1. registry.rows \in Tables(RegistryRows)
      BY <1>2 DEF HandoffTypeOK, Registries
  <2>2. /\ DOMAIN registry.rows \subseteq Symbols
        /\ \A s \in DOMAIN registry.rows : registry.rows[s] \in RegistryRows
      BY <2>1, TableParts
  <2>3. \A s \in DOMAIN registry.rows : [registry.rows[s] EXCEPT !.sample = None] \in RegistryRows
      BY <2>2 DEF RegistryRows
  <2>4. items \in Tables(RegistryRows)
      BY <2>2, <2>3, MakesTable
  <2>5. m \in Memories
      BY <1>1, <2>4 DEF Memories, LaterOnly, Filling
  <2>6. Remember(p, m)
      BY <1>2 DEF LoadResolutions
  <2>7. execution' \in [Executions -> Memories]
      BY <2>5, <2>6, Remembers DEF HandoffTypeOK
  <2>8. QED
      BY <2>7 DEF HandoffTypeOK, LoadResolutions, observed, files, Document
<1>3. CASE ~Document(registry)
    BY <1>3, EndsType DEF HandoffTypeOK, LoadResolutions, observed, files, Document
<1>4. QED
    BY <1>2, <1>3

LEMMA Smallest ==
    ASSUME NEW S \in SUBSET Nat, S # {}
    PROVE  \E t \in S : \A u \in S : t <= u
<1> DEFINE R == OpToRel(<, Nat)
<1>1. IsWellFoundedOn(R, Nat)
    BY NatLessThanWellFounded, Zenon
<1>2. \A x, y \in Nat : x < y => <<x, y>> \in R
    BY DEF OpToRel
<1> HIDE DEF R
<1>3. PICK t \in S : \A u \in S : <<u, t>> \notin R
    BY <1>1, WFMin, Zenon
<1>4. \A u \in S : ~(u < t)
    BY <1>2, <1>3
<1>5. QED
    BY <1>4

\* The rows with a contract.
WithContract(items) == {s \in DOMAIN items : items[s].epic # None}

Sharing(items, answer, s) ==
    {t \in DOMAIN answer : t < s /\ items[t].epic = items[s].epic /\ answer[t] # "no answer"}

FirstSharing(items, answer, s) ==
    IF Sharing(items, answer, s) = {} THEN s
    ELSE CHOOSE t \in Sharing(items, answer, s) : \A u \in Sharing(items, answer, s) : t <= u

LEMMA FirstShares ==
    ASSUME NEW items, NEW answer, DOMAIN answer \subseteq Nat, NEW s \in DOMAIN answer,
           NEW f, f = FirstSharing(items, answer, s)
    PROVE  /\ f \in DOMAIN answer /\ items[f].epic = items[s].epic
           /\ FirstSharing(items, answer, f) = f
           /\ (\A t \in DOMAIN answer \ {s} : items[t].epic # items[s].epic) => f = s
<1>1. ASSUME NEW t \in Sharing(items, answer, s)
      PROVE  t \in DOMAIN answer /\ t \in Nat /\ t < s /\ t # s /\ items[t].epic = items[s].epic
  <2>1. t \in DOMAIN answer /\ t < s /\ items[t].epic = items[s].epic
      BY DEF Sharing
  <2>2. t \in Nat /\ s \in Nat
      BY <2>1
  <2>3. t # s
      BY <2>1, <2>2
  <2>4. QED
      BY <2>1, <2>2, <2>3
<1>2. CASE Sharing(items, answer, s) = {}
    BY <1>2 DEF FirstSharing
<1>3. CASE Sharing(items, answer, s) # {}
  <2>1. \E t \in Sharing(items, answer, s) : \A u \in Sharing(items, answer, s) : t <= u
      BY <1>1, <1>3, Smallest
  <2>2. f \in Sharing(items, answer, s) /\ \A u \in Sharing(items, answer, s) : f <= u
      BY <1>3, <2>1 DEF FirstSharing
  <2>3. Sharing(items, answer, f) = {}
    <3>1. SUFFICES ASSUME NEW t \in Sharing(items, answer, f)
                   PROVE  FALSE
        OBVIOUS
    <3>2. t \in DOMAIN answer /\ t < f /\ items[t].epic = items[f].epic /\ answer[t] # "no answer"
        BY DEF Sharing
    <3>3. t \in Nat /\ f \in Nat /\ s \in Nat /\ f < s
        BY <1>1, <2>2, <3>2
    <3>4. t < s /\ ~(f <= t)
      <4>1. \A a, b, c \in Nat : a < b /\ b < c => a < c /\ ~(b <= a)
          OBVIOUS
      <4>2. QED
          BY <3>2, <3>3, <4>1, Zenon
    <3>5. items[t].epic = items[s].epic
        BY <1>1, <2>2, <3>2
    <3>6. t \in Sharing(items, answer, s)
        BY <3>2, <3>4, <3>5 DEF Sharing
    <3>7. QED
        BY <2>2, <3>4, <3>6
  <2>4. FirstSharing(items, answer, f) = f
      BY <2>3 DEF FirstSharing
  <2>5. QED
      BY <1>1, <2>2, <2>4
<1>4. QED
    BY <1>2, <1>3

\* The sample taken for a symbol is the one taken for the first of the symbols that share it.
LEMMA Taken ==
    ASSUME NEW items \in Tables(RegistryRows), NEW answer,
           DOMAIN answer = WithContract(items), NEW s \in DOMAIN answer
    PROVE  LET x == TakenFor(items, answer, s)
           IN /\ x \in HistorySamples
              /\ x.symbol \in DOMAIN answer
              /\ items[x.symbol].epic = items[s].epic
              /\ x.epic = items[s].epic
              /\ TakenFor(items, answer, x.symbol) = x
              /\ (\A t \in DOMAIN answer \ {s} : items[t].epic # items[s].epic) => x.symbol = s
<1> PICK f : f = FirstSharing(items, answer, s)
    OBVIOUS
<1>1. ASSUME NEW n PROVE TakenFor(items, answer, n)
          = [symbol |-> FirstSharing(items, answer, n), epic |-> items[n].epic,
             rows |-> IF answer[FirstSharing(items, answer, n)] \in Candles
                      THEN answer[FirstSharing(items, answer, n)] ELSE None]
    BY DEF TakenFor, FirstSharing, Sharing
<1>2. DOMAIN items \subseteq Symbols /\ \A n \in DOMAIN items : items[n] \in RegistryRows
    BY TableParts
<1>3. DOMAIN answer \subseteq Nat
    BY <1>2, SymbolsAssumption DEF WithContract
<1>4. /\ f \in DOMAIN answer /\ items[f].epic = items[s].epic
      /\ FirstSharing(items, answer, f) = f
      /\ (\A t \in DOMAIN answer \ {s} : items[t].epic # items[s].epic) => f = s
    BY <1>3, FirstShares
<1>5. f \in Symbols /\ items[s].epic \in Contracts
    BY <1>2, <1>4 DEF RegistryRows, WithContract
<1> DEFINE held == IF answer[f] \in Candles THEN answer[f] ELSE None
<1>6. held \in Candles \cup {None}
    OBVIOUS
<1>7. TakenFor(items, answer, s) = [symbol |-> f, epic |-> items[s].epic, rows |-> held]
    BY <1>1
<1>8. TakenFor(items, answer, f) = [symbol |-> f, epic |-> items[s].epic, rows |-> held]
    BY <1>1, <1>4
<1> HIDE DEF held
<1>9. [symbol |-> f, epic |-> items[s].epic, rows |-> held] \in HistorySamples
    BY <1>5, <1>6 DEF HistorySamples
<1>10. QED
    BY <1>4, <1>7, <1>8, <1>9

\* The samples taken for the rows with a contract, and the rows with their verdicts.
SamplesOf(items, answer) == [s \in WithContract(items) |-> TakenFor(items, answer, s)]
VerdictOn(row, print) ==
    [row EXCEPT !.print = print,
                !.status = IF print # None THEN "BROKER_VALIDATED" ELSE "DATA_QUALITY_FAIL"]
Verdicts(items, samples) ==
    [s \in DOMAIN items |-> IF s \notin DOMAIN samples THEN items[s]
                            ELSE VerdictOn(items[s], Fingerprint(samples[s]))]
ReadBy(items, samples, context) ==
    {[made |-> items[s].made, print |-> Fingerprint(samples[s]), by |-> context] :
        s \in {t \in DOMAIN samples : Fingerprint(samples[t]) # None}}

LEMMA SampleParts ==
    ASSUME NEW p \in Executions, Sample(p)
    PROVE  \E answer, samples :
              /\ DOMAIN answer = WithContract(execution[p].items)
              /\ samples = SamplesOf(execution[p].items, answer)
              /\ Remember(p, [execution[p] EXCEPT !.pc = "previous", !.samples = samples,
                                 !.items = Verdicts(execution[p].items, samples)])
              /\ read' = read \cup ReadBy(execution[p].items, samples, execution[p].context)
<1> DEFINE items == execution[p].items
           verified == {s \in DOMAIN items : items[s].epic # None}
<1>1. PICK answer \in [verified -> Candles \cup {"poor", "no answer"}] :
          LET samples == [s \in verified |-> TakenFor(items, answer, s)]
              print(s) == Fingerprint(samples[s])
          IN /\ Remember(p, [execution[p] EXCEPT !.pc = "previous", !.samples = samples,
                    !.items = [s \in DOMAIN items |->
                        IF s \notin verified THEN items[s]
                        ELSE [items[s] EXCEPT
                                 !.print = print(s),
                                 !.status = IF print(s) # None THEN "BROKER_VALIDATED"
                                            ELSE "DATA_QUALITY_FAIL"]]])
             /\ read' = read \cup
                    {[made |-> items[s].made, print |-> print(s), by |-> execution[p].context] :
                        s \in {t \in verified : print(t) # None}}
    BY DEF Sample
<1> DEFINE samples == SamplesOf(items, answer)
<1>2. DOMAIN samples = verified
    BY DEF SamplesOf, WithContract
<1>3. samples = [s \in verified |-> TakenFor(items, answer, s)]
    BY DEF SamplesOf, WithContract
<1> HIDE DEF samples
<1> DEFINE V == [s \in DOMAIN items |->
                    IF s \notin verified THEN items[s]
                    ELSE [items[s] EXCEPT
                             !.print = Fingerprint(samples[s]),
                             !.status = IF Fingerprint(samples[s]) # None
                                        THEN "BROKER_VALIDATED"
                                        ELSE "DATA_QUALITY_FAIL"]]
           R == {[made |-> items[s].made, print |-> Fingerprint(samples[s]),
                  by |-> execution[p].context] :
                    s \in {t \in verified : Fingerprint(samples[t]) # None}}
<1>4. Verdicts(items, samples) = V
    BY <1>2 DEF Verdicts, VerdictOn
<1>5. ReadBy(items, samples, execution[p].context) = R
    BY <1>2 DEF ReadBy
<1>6. DOMAIN answer = WithContract(items)
    BY DEF WithContract
<1>7. /\ Remember(p, [execution[p] EXCEPT !.pc = "previous", !.samples = samples, !.items = V])
      /\ read' = read \cup R
    BY <1>1, <1>3
<1> HIDE DEF V, R
<1>8. /\ Remember(p, [execution[p] EXCEPT !.pc = "previous", !.samples = samples,
                         !.items = Verdicts(items, samples)])
      /\ read' = read \cup ReadBy(items, samples, execution[p].context)
    BY <1>4, <1>5, <1>7
<1>9. QED
    BY <1>6, <1>8 DEF samples

LEMMA FingerprintType ==
    ASSUME NEW x \in HistorySamples
    PROVE  /\ Fingerprint(x) \in Prints \cup {None}
           /\ x.rows # None => Fingerprint(x) = <<x.symbol, x.epic, x.rows>>
           /\ x.rows # None <=> Fingerprint(x) # None
BY NoFingerprintAssumption DEF Fingerprint, HistorySamples, Prints

LEMMA SampledType ==
    ASSUME NEW items \in Tables(RegistryRows), NEW answer, NEW samples,
           DOMAIN answer = WithContract(items), samples = SamplesOf(items, answer)
    PROVE  /\ samples \in Tables(HistorySamples)
           /\ DOMAIN samples = WithContract(items) /\ DOMAIN samples \subseteq DOMAIN items
           /\ \A s \in DOMAIN samples : samples[s] = TakenFor(items, answer, s)
           /\ Verdicts(items, samples) \in Tables(RegistryRows)
           /\ DOMAIN Verdicts(items, samples) = DOMAIN items
           /\ \A s \in DOMAIN items :
                 LET new == Verdicts(items, samples)[s]
                 IN /\ new.made = items[s].made
                    /\ new.epic = items[s].epic
                    /\ new.sample = items[s].sample
                    /\ s \notin DOMAIN samples => new = items[s]
                    /\ s \in DOMAIN samples =>
                          /\ new.print = Fingerprint(samples[s])
                          /\ new.status = IF new.print # None THEN "BROKER_VALIDATED"
                                          ELSE "DATA_QUALITY_FAIL"
<1>1. /\ DOMAIN items \subseteq Symbols
      /\ \A s \in DOMAIN items : items[s] \in RegistryRows
    BY TableParts
<1>2. DOMAIN samples = WithContract(items) /\ DOMAIN samples \subseteq DOMAIN items
    BY DEF SamplesOf, WithContract
<1>3. \A s \in DOMAIN samples : samples[s] = TakenFor(items, answer, s)
    BY <1>2 DEF SamplesOf
<1>4. \A s \in DOMAIN samples : samples[s] \in HistorySamples
  <2>1. \A s \in DOMAIN answer : TakenFor(items, answer, s) \in HistorySamples
      BY Taken
  <2>2. QED
      BY <1>2, <1>3, <2>1
<1>5. samples \in [DOMAIN samples -> HistorySamples]
    BY <1>2, <1>4 DEF SamplesOf
<1>6. samples \in Tables(HistorySamples)
    BY <1>1, <1>2, <1>5, MakesTable
<1>7. ASSUME NEW row \in RegistryRows, NEW print \in Prints \cup {None}
      PROVE  /\ VerdictOn(row, print) \in RegistryRows
             /\ VerdictOn(row, print).made = row.made
             /\ VerdictOn(row, print).epic = row.epic
             /\ VerdictOn(row, print).sample = row.sample
             /\ VerdictOn(row, print).print = print
             /\ VerdictOn(row, print).status = IF print # None THEN "BROKER_VALIDATED"
                                               ELSE "DATA_QUALITY_FAIL"
    BY <1>7 DEF VerdictOn, RegistryRows
<1>8. \A s \in DOMAIN samples : Fingerprint(samples[s]) \in Prints \cup {None}
    BY <1>4, FingerprintType
<1> DEFINE verdicts == Verdicts(items, samples)
<1>9. /\ DOMAIN verdicts = DOMAIN items
      /\ verdicts = [s \in DOMAIN items |-> verdicts[s]]
      /\ \A s \in DOMAIN items :
            verdicts[s] = IF s \notin DOMAIN samples THEN items[s]
                          ELSE VerdictOn(items[s], Fingerprint(samples[s]))
    BY DEF Verdicts
<1> HIDE DEF verdicts
<1>10. \A s \in DOMAIN items : verdicts[s] \in RegistryRows
    BY <1>1, <1>7, <1>8, <1>9
<1>11. verdicts \in Tables(RegistryRows)
    BY <1>1, <1>9, <1>10, MakesTable
<1>12. ASSUME NEW s \in DOMAIN items
       PROVE  /\ verdicts[s].made = items[s].made
              /\ verdicts[s].epic = items[s].epic
              /\ verdicts[s].sample = items[s].sample
              /\ s \notin DOMAIN samples => verdicts[s] = items[s]
              /\ s \in DOMAIN samples =>
                    /\ verdicts[s].print = Fingerprint(samples[s])
                    /\ verdicts[s].status = IF verdicts[s].print # None THEN "BROKER_VALIDATED"
                                            ELSE "DATA_QUALITY_FAIL"
    BY <1>1, <1>7, <1>8, <1>9
<1>13. QED
    BY <1>2, <1>3, <1>6, <1>9, <1>11, <1>12 DEF verdicts

LEMMA SampleType ==
    ASSUME HandoffTypeOK, NEW p \in Executions, Sample(p)
    PROVE  HandoffTypeOK'
<1> DEFINE items == execution[p].items
<1>1. PICK answer, samples :
              /\ DOMAIN answer = WithContract(items)
              /\ samples = SamplesOf(items, answer)
              /\ Remember(p, [execution[p] EXCEPT !.pc = "previous", !.samples = samples,
                                 !.items = Verdicts(items, samples)])
              /\ read' = read \cup ReadBy(items, samples, execution[p].context)
    BY SampleParts
<1>2. /\ execution[p] \in Memories /\ items \in Tables(RegistryRows)
      /\ execution[p].phase # "PHASE_1" /\ execution[p].context \in Accounts
    BY DEF HandoffTypeOK, Sample, Memories, LaterOnly
<1>3. /\ samples \in Tables(HistorySamples) /\ DOMAIN samples \subseteq DOMAIN items
      /\ Verdicts(items, samples) \in Tables(RegistryRows)
    BY <1>1, <1>2, SampledType
<1>4. [execution[p] EXCEPT !.pc = "previous", !.samples = samples,
                           !.items = Verdicts(items, samples)] \in Memories
    BY <1>2, <1>3 DEF Memories, Filling, LaterOnly
<1>5. execution' \in [Executions -> Memories]
    BY <1>1, <1>4, Remembers DEF HandoffTypeOK
<1>6. ASSUME NEW s \in DOMAIN samples, Fingerprint(samples[s]) # None
      PROVE  items[s].made \in Nat /\ Fingerprint(samples[s]) \in Prints
  <2>1. items[s] \in RegistryRows /\ samples[s] \in HistorySamples
      BY <1>2, <1>3, TableParts
  <2>2. QED
      BY <1>6, <2>1, FingerprintType DEF RegistryRows
<1>7. ReadBy(items, samples, execution[p].context) \subseteq
          [made : Nat, print : Prints, by : Accounts]
    BY <1>2, <1>6 DEF ReadBy
<1>8. read' \subseteq [made : Nat, print : Prints, by : Accounts]
    BY <1>1, <1>7 DEF HandoffTypeOK
<1>9. QED
    BY <1>5, <1>8 DEF HandoffTypeOK, Sample, files, Document

\* What _augment_registry makes of a row.
LEMMA Augmented ==
    ASSUME HandoffTypeOK, NEW p \in Executions, execution[p].pc # "off"
    PROVE  LET items == execution[p].items
               new == AugmentedRegistry(p)
               there == Document(registry)
           IN /\ new \in Registries
              /\ new.context = IF there THEN registry.context ELSE execution[p].context
              /\ new.latest = execution[p].phase
              /\ DOMAIN new.rows = DOMAIN items
              /\ \A s \in DOMAIN items :
                    /\ new.rows[s].status = items[s].status
                    /\ new.rows[s].print = items[s].print
                    /\ there /\ s \in DOMAIN registry.rows =>
                          /\ new.rows[s].made = registry.rows[s].made
                          /\ new.rows[s].epic = registry.rows[s].epic
                          /\ \/ new.rows[s].sample = registry.rows[s].sample
                             \/ \E x \in Values(execution[p].samples) :
                                   x.symbol = s /\ new.rows[s].sample = x
<1> DEFINE items == execution[p].items
           there == Document(registry)
           Kept(s) == IF there /\ s \in DOMAIN registry.rows
                      THEN [registry.rows[s] EXCEPT !.status = items[s].status,
                                                    !.print = items[s].print]
                      ELSE items[s]
           Own(s) == {x \in Values(execution[p].samples) : x.symbol = s}
           Row(s) == IF Own(s) = {} THEN Kept(s)
                     ELSE [Kept(s) EXCEPT !.sample = CHOOSE x \in Own(s) : TRUE]
           held == [s \in DOMAIN items |-> Row(s)]
           context == IF there THEN registry.context ELSE execution[p].context
<1>1. AugmentedRegistry(p) = [context |-> context, latest |-> execution[p].phase, rows |-> held]
    BY DEF AugmentedRegistry
<1>2. /\ items \in Tables(RegistryRows) /\ execution[p].samples \in Tables(HistorySamples)
      /\ execution[p].phase \in Phases /\ execution[p].context \in Accounts
    BY DEF HandoffTypeOK, Memories
<1>3. DOMAIN items \subseteq Symbols /\ \A s \in DOMAIN items : items[s] \in RegistryRows
    BY <1>2, TableParts
<1>4. there => /\ registry.context \in Accounts
               /\ \A s \in DOMAIN registry.rows : registry.rows[s] \in RegistryRows
  <2>1. there => registry.context \in Accounts /\ registry.rows \in Tables(RegistryRows)
      BY DEF HandoffTypeOK, Registries
  <2>2. QED
      BY <2>1, TableParts
<1>5. \A x \in Values(execution[p].samples) : x \in HistorySamples
    BY <1>2, TableParts DEF Values
<1>6. ASSUME NEW s \in DOMAIN items
      PROVE  /\ Kept(s) \in RegistryRows
             /\ Kept(s).status = items[s].status /\ Kept(s).print = items[s].print
             /\ there /\ s \in DOMAIN registry.rows =>
                   /\ Kept(s).made = registry.rows[s].made
                   /\ Kept(s).epic = registry.rows[s].epic
                   /\ Kept(s).sample = registry.rows[s].sample
  <2>1. CASE there /\ s \in DOMAIN registry.rows
    <3>1. registry.rows[s] \in RegistryRows /\ items[s] \in RegistryRows
        BY <1>3, <1>4, <2>1
    <3>2. Kept(s) = [registry.rows[s] EXCEPT !.status = items[s].status, !.print = items[s].print]
        BY <2>1
    <3> HIDE DEF Kept
    <3>3. QED
        BY <3>1, <3>2 DEF RegistryRows
  <2>2. CASE ~(there /\ s \in DOMAIN registry.rows)
      BY <1>3, <2>2
  <2>3. QED
      BY <2>1, <2>2
<1>7. \A s : Own(s) # {} =>
          LET x == CHOOSE x \in Own(s) : TRUE
          IN x \in HistorySamples /\ x \in Values(execution[p].samples) /\ x.symbol = s
    BY <1>5
<1> HIDE DEF Kept, Own
<1>8. ASSUME NEW s \in DOMAIN items
      PROVE  /\ Row(s) \in RegistryRows
             /\ Row(s).status = items[s].status /\ Row(s).print = items[s].print
             /\ there /\ s \in DOMAIN registry.rows =>
                   /\ Row(s).made = registry.rows[s].made
                   /\ Row(s).epic = registry.rows[s].epic
                   /\ \/ Row(s).sample = registry.rows[s].sample
                      \/ \E x \in Values(execution[p].samples) :
                            x.symbol = s /\ Row(s).sample = x
  <2>1. CASE Own(s) = {}
      BY <1>6, <2>1
  <2>2. CASE Own(s) # {}
    <3> DEFINE x == CHOOSE y \in Own(s) : TRUE
    <3>1. x \in HistorySamples /\ x \in Values(execution[p].samples) /\ x.symbol = s
        BY <1>7, <2>2
    <3>2. Row(s) = [Kept(s) EXCEPT !.sample = x]
        BY <2>2
    <3> HIDE DEF x, Row
    <3>3. QED
        BY <1>6, <3>1, <3>2 DEF RegistryRows
  <2>3. QED
      BY <2>1, <2>2
<1> HIDE DEF Row
<1>9. DOMAIN held = DOMAIN items /\ \A s \in DOMAIN items : held[s] = Row(s)
    OBVIOUS
<1>10. held \in Tables(RegistryRows)
    BY <1>3, <1>8, <1>9, MakesTable
<1>11. context \in Accounts
    BY <1>2, <1>4
<1> HIDE DEF held, context
<1>12. [context |-> context, latest |-> execution[p].phase, rows |-> held] \in Registries
    BY <1>2, <1>10, <1>11 DEF Registries
<1>13. QED
    BY <1>1, <1>8, <1>9, <1>12 DEF context

LEMMA ReadPreviousType ==
    ASSUME HandoffTypeOK, NEW p \in Executions, ReadPrevious(p)
    PROVE  HandoffTypeOK'
<1> DEFINE document == IF execution[p].phase = "PHASE_1" THEN PhaseOneRegistry(p)
                       ELSE AugmentedRegistry(p)
<1>1. execution[p] \in Memories /\ execution[p].pc = "previous"
    BY DEF HandoffTypeOK, ReadPrevious
<1>2. PhaseOneRegistry(p) \in Registries
    BY <1>1 DEF PhaseOneRegistry, Registries, Memories
<1>3. document \in Registries
    BY <1>1, <1>2, Augmented
<1>4. <<>> \in Tables(RegistryRows)
    BY EmptyTable
<1> HIDE DEF document
<1>5. [execution[p] EXCEPT !.pc = "registry", !.items = <<>>, !.document = document] \in Memories
    BY <1>1, <1>3, <1>4 DEF Memories, Filling, LaterOnly
<1>6. Remember(p, [execution[p] EXCEPT !.pc = "registry", !.items = <<>>, !.document = document])
    BY DEF ReadPrevious, document
<1>7. execution' \in [Executions -> Memories]
    BY <1>5, <1>6, Remembers DEF HandoffTypeOK
<1>8. QED
    BY <1>7 DEF HandoffTypeOK, ReadPrevious, observed, files, Document

LEMMA WriteRegistryType ==
    ASSUME HandoffTypeOK, NEW p \in Executions, WriteRegistry(p)
    PROVE  HandoffTypeOK'
<1>1. execution[p] \in Memories /\ execution[p].pc \in {"registry", "fill registry"}
    BY DEF HandoffTypeOK, WriteRegistry
<1>2. PICK pc \in {"fill registry", "manifest", "history"} : Proceed(p, pc)
    BY DEF WriteRegistry
<1>3. [execution[p] EXCEPT !.pc = pc] \in Memories
    BY <1>1, ProceedsType DEF Filling, LaterOnly
<1>4. execution' \in [Executions -> Memories]
    BY <1>2, <1>3, Remembers DEF HandoffTypeOK, Proceed
<1>5. Document(registry)' => registry' \in Registries
    BY <1>1 DEF WriteRegistry, Document, Memories, Filling
<1>6. QED
    BY <1>4, <1>5 DEF HandoffTypeOK, WriteRegistry, observed, Document

LEMMA WriteHistoryType ==
    ASSUME HandoffTypeOK, NEW p \in Executions, WriteHistory(p)
    PROVE  HandoffTypeOK'
<1>1. execution[p] \in Memories /\ execution[p].pc \in {"history", "fill history"}
    BY DEF HandoffTypeOK, WriteHistory
<1>2. PICK pc \in {"fill history", "manifest"} : Proceed(p, pc)
    BY DEF WriteHistory
<1>3. [execution[p] EXCEPT !.pc = pc] \in Memories
    BY <1>1, ProceedsType DEF Filling, LaterOnly
<1>4. execution' \in [Executions -> Memories]
    BY <1>2, <1>3, Remembers DEF HandoffTypeOK, Proceed
<1>5. Document(history)' => history' \in Tables(HistorySamples)
    BY <1>1 DEF WriteHistory, Document, Memories
<1>6. QED
    BY <1>4, <1>5 DEF HandoffTypeOK, WriteHistory, observed, Document

LEMMA WriteManifestType ==
    ASSUME HandoffTypeOK, NEW p \in Executions, WriteManifest(p)
    PROVE  HandoffTypeOK'
<1>1. execution[p] \in Memories /\ execution[p].pc \in {"manifest", "fill manifest"}
    BY DEF HandoffTypeOK, WriteManifest
<1>2. CASE execution[p].pc = "manifest"
  <2> DEFINE document == [context |-> execution[p].context, phase |-> execution[p].phase,
                          count |-> Cardinality(DOMAIN execution[p].document.rows),
                          history |-> history # Absent]
  <2>1. execution[p].document.rows \in Tables(RegistryRows)
      BY <1>1, <1>2 DEF Memories, Filling, Registries
  <2>2. Cardinality(DOMAIN execution[p].document.rows) \in 0 .. Cardinality(Symbols)
      BY <2>1, TableParts
  <2>3. document \in Manifests
      BY <1>1, <1>2, <2>2 DEF Manifests, Memories
  <2>4. Remember(p, [execution[p] EXCEPT !.pc = "fill manifest", !.document = document])
      BY <1>2 DEF WriteManifest
  <2> HIDE DEF document
  <2>5. [execution[p] EXCEPT !.pc = "fill manifest", !.document = document] \in Memories
      BY <1>1, <1>2, <2>3 DEF Memories, Filling, LaterOnly
  <2>6. execution' \in [Executions -> Memories]
      BY <2>4, <2>5, Remembers DEF HandoffTypeOK
  <2>7. QED
      BY <1>2, <2>6 DEF HandoffTypeOK, WriteManifest, observed, Document
<1>3. CASE execution[p].pc = "fill manifest"
  <2>1. execution' \in [Executions -> Memories]
      BY <1>3, EndsType DEF WriteManifest
  <2>2. manifest' \in Manifests
      BY <1>1, <1>3 DEF WriteManifest, Memories
  <2>3. QED
      BY <1>3, <2>1, <2>2 DEF HandoffTypeOK, WriteManifest, observed, Document
<1>4. QED
    BY <1>1, <1>2, <1>3

LEMMA LoaderType ==
    ASSUME HandoffTypeOK,
           OpenRegistry("tournament") \/ OpenRegistry("laboratory") \/ CheckManifest \/ OpenHistory
    PROVE  HandoffTypeOK'
<1>1. ASSUME NEW kind \in {"tournament", "laboratory"}, OpenRegistry(kind)
      PROVE  HandoffTypeOK'
    BY <1>1 DEF HandoffTypeOK, OpenRegistry, files, Document
<1>2. ASSUME LoaderReturns
      PROVE  HandoffTypeOK'
    BY <1>2 DEF HandoffTypeOK, LoaderReturns, Unread, files, Document
<1>3. ASSUME CheckManifest
      PROVE  HandoffTypeOK'
    BY <1>2, <1>3 DEF HandoffTypeOK, CheckManifest, files, observed, Document
<1>4. QED
    BY <1>1, <1>2, <1>3 DEF OpenHistory

LEMMA HandoffTypeNext ==
    ASSUME HandoffTypeOK, [HandoffNext]_handoffVars
    PROVE  HandoffTypeOK'
<1>1. CASE UNCHANGED handoffVars
    BY <1>1 DEF HandoffTypeOK, handoffVars, files, observed, Document
<1>2. ASSUME NEW p \in Executions, Die(p)
      PROVE  HandoffTypeOK'
    BY <1>2, EndsType DEF HandoffTypeOK, Die, files, Document
<1>3. QED
    BY <1>1, <1>2, ResolveType, BeginLaterType, CheckContextType, LoadResolutionsType, SampleType,
       ReadPreviousType, WriteRegistryType, WriteHistoryType, WriteManifestType, LoaderType
       DEF HandoffNext

-----------------------------------------------------------------------------
(* What is unlocked was validated *)

LEMMA ReadGrows ==
    ASSUME [HandoffNext]_handoffVars
    PROVE  read \subseteq read' /\ (read' # read => \E p \in Executions : Sample(p))
BY DEF HandoffNext, handoffVars, files, observed, Resolve, BeginLater, CheckContext,
       LoadResolutions, Sample, ReadPrevious, WriteRegistry, WriteHistory, WriteManifest, Die,
       OpenRegistry, LoaderReturns, CheckManifest, OpenHistory

\* A step other than Sample leaves an execution's samples or forgets them.
LEMMA SamplesStay ==
    ASSUME HandoffTypeOK, HandoffNext, NEW p \in Executions, ~Sample(p)
    PROVE  execution'[p].samples = execution[p].samples \/ DOMAIN execution'[p].samples = {}
<1> DEFINE Stays == execution'[p].samples = execution[p].samples \/ DOMAIN execution'[p].samples = {}
<1>1. execution \in [Executions -> Memories]
    BY DEF HandoffTypeOK
<1>2. ASSUME NEW q \in Executions, NEW m, Remember(q, m), m.samples = execution[q].samples
      PROVE  Stays
    BY <1>1, <1>2 DEF Remember
<1>3. NotUnderWay.samples = <<>> /\ DOMAIN NotUnderWay.samples = {}
    BY EmptyTable DEF NotUnderWay
<1>4. ASSUME NEW q \in Executions, NEW m, Remember(q, m), m.samples = <<>>
      PROVE  Stays
  <2>1. DOMAIN m.samples = {}
      BY <1>4, EmptyTable
  <2>2. CASE q = p
      BY <1>1, <1>4, <2>1, <2>2 DEF Remember
  <2>3. CASE q # p
      BY <1>1, <1>4, <2>3 DEF Remember
  <2>4. QED
      BY <2>2, <2>3
<1>0. ASSUME UNCHANGED execution
      PROVE  Stays
    BY <1>0
<1> HIDE DEF Stays
<1>5. ASSUME NEW q \in Executions, End(q)
      PROVE  Stays
    BY <1>3, <1>4, <1>5 DEF End
<1>6. ASSUME NEW q \in Executions, NEW pc, Proceed(q, pc)
      PROVE  Stays
  <2>1. [execution[q] EXCEPT !.pc = pc].samples = execution[q].samples
      BY <1>1 DEF Memories
  <2>2. QED
      BY <1>2, <1>6, <2>1 DEF Proceed
<1>8. ASSUME NEW q \in Executions, Resolve(q)
      PROVE  Stays
  <2>1. PICK context, items : Remember(q, [NotUnderWay EXCEPT !.pc = "previous", !.context = context,
                                              !.items = items])
      BY <1>8 DEF Resolve
  <2>2. [NotUnderWay EXCEPT !.pc = "previous", !.context = context, !.items = items].samples = <<>>
      BY <1>3, NotUnderWayType DEF Memories
  <2>3. QED
      BY <1>4, <2>1, <2>2
<1>9. ASSUME NEW q \in Executions, NEW phase, BeginLater(q, phase)
      PROVE  Stays
  <2>1. PICK context : Remember(q, [NotUnderWay EXCEPT !.pc = "context", !.phase = phase,
                                                       !.context = context])
      BY <1>9 DEF BeginLater
  <2>2. [NotUnderWay EXCEPT !.pc = "context", !.phase = phase, !.context = context].samples = <<>>
      BY <1>3, NotUnderWayType DEF Memories
  <2>3. QED
      BY <1>4, <2>1, <2>2
<1>10. ASSUME NEW q \in Executions, LoadResolutions(q)
       PROVE  Stays
  <2>1. CASE Document(registry)
    <3>1. PICK pc, items : Remember(q, [execution[q] EXCEPT !.pc = pc, !.items = items])
        BY <1>10, <2>1 DEF LoadResolutions
    <3>2. [execution[q] EXCEPT !.pc = pc, !.items = items].samples = execution[q].samples
        BY <1>1 DEF Memories
    <3>3. QED
        BY <1>2, <3>1, <3>2
  <2>2. CASE ~Document(registry)
      BY <1>5, <1>10, <2>2 DEF LoadResolutions
  <2>3. QED
      BY <2>1, <2>2
<1>11. ASSUME NEW q \in Executions, ReadPrevious(q)
       PROVE  Stays
  <2>1. PICK document : Remember(q, [execution[q] EXCEPT !.pc = "registry", !.items = <<>>,
                                                         !.document = document])
      BY <1>11 DEF ReadPrevious
  <2>2. [execution[q] EXCEPT !.pc = "registry", !.items = <<>>, !.document = document].samples
            = execution[q].samples
      BY <1>1 DEF Memories
  <2>3. QED
      BY <1>2, <2>1, <2>2
<1>12. ASSUME NEW q \in Executions, WriteManifest(q)
       PROVE  Stays
  <2>1. ASSUME NEW document, Remember(q, [execution[q] EXCEPT !.pc = "fill manifest",
                                                              !.document = document])
        PROVE  Stays
    <3>1. [execution[q] EXCEPT !.pc = "fill manifest", !.document = document].samples
              = execution[q].samples
        BY <1>1 DEF Memories
    <3>2. QED
        BY <1>2, <2>1, <3>1
  <2>2. QED
      BY <1>5, <1>12, <2>1 DEF WriteManifest
<1>13. ASSUME NEW q \in Executions, Sample(q), q # p
       PROVE  Stays
  <2>1. PICK m : Remember(q, m)
      BY <1>13, SampleParts
  <2>2. QED
      BY <1>1, <1>13, <2>1 DEF Remember, Stays
<1>14. ASSUME NEW q \in Executions,
              CheckContext(q) \/ WriteRegistry(q) \/ WriteHistory(q) \/ Die(q)
       PROVE  Stays
    BY <1>5, <1>6, <1>14 DEF CheckContext, WriteRegistry, WriteHistory, Die
<1>15. ASSUME OpenRegistry("tournament") \/ OpenRegistry("laboratory") \/ CheckManifest \/ OpenHistory
       PROVE  Stays
    BY <1>0, <1>15 DEF OpenRegistry, CheckManifest, OpenHistory, LoaderReturns
<1>16. Stays
    BY <1>8, <1>9, <1>10, <1>11, <1>12, <1>13, <1>14, <1>15 DEF HandoffNext
<1>17. QED
    BY <1>16 DEF Stays

\* A history that is filled is filled with an execution's samples.
LEMMA HistoryComesFromSamples ==
    ASSUME [HandoffNext]_handoffVars
    PROVE  \/ history' = history
           \/ history' = Torn
           \/ \E p \in Executions : history' = execution[p].samples
BY DEF HandoffNext, handoffVars, files, observed, Resolve, BeginLater, CheckContext,
       LoadResolutions, Sample, ReadPrevious, WriteRegistry, WriteHistory, WriteManifest, Die,
       OpenRegistry, LoaderReturns, CheckManifest, OpenHistory

LEMMA SampleReads ==
    ASSUME HandoffTypeOK, NEW p \in Executions, Sample(p), NEW x \in Values(execution'[p].samples),
           x.rows # None
    PROVE  /\ x.symbol \in DOMAIN execution[p].items
           /\ \E r \in read' :
                 /\ r.made = execution[p].items[x.symbol].made
                 /\ r.print = Fingerprint(x) /\ r.by = execution[p].context
<1> DEFINE items == execution[p].items
<1>1. PICK answer, samples :
              /\ DOMAIN answer = WithContract(items)
              /\ samples = SamplesOf(items, answer)
              /\ Remember(p, [execution[p] EXCEPT !.pc = "previous", !.samples = samples,
                                 !.items = Verdicts(items, samples)])
              /\ read' = read \cup ReadBy(items, samples, execution[p].context)
    BY SampleParts
<1>2. items \in Tables(RegistryRows) /\ execution \in [Executions -> Memories]
    BY DEF HandoffTypeOK, Memories
<1>3. execution'[p].samples = samples
    BY <1>1, <1>2 DEF Remember, Memories
<1>4. /\ samples \in Tables(HistorySamples) /\ DOMAIN samples = WithContract(items)
      /\ DOMAIN samples \subseteq DOMAIN items
      /\ \A s \in DOMAIN samples : samples[s] = TakenFor(items, answer, s)
    BY <1>1, <1>2, SampledType
<1>5. PICK s \in DOMAIN samples : x = samples[s]
    BY <1>3 DEF Values
<1>6. x \in HistorySamples /\ x = TakenFor(items, answer, s)
    BY <1>4, <1>5, TableParts
<1> HIDE DEF items
<1>7. x.symbol \in DOMAIN samples /\ samples[x.symbol] = x
  <2>1. DOMAIN answer = WithContract(items) /\ DOMAIN samples = DOMAIN answer
      BY <1>1, <1>4
  <2>2. s \in DOMAIN answer
      BY <1>5, <2>1
  <2>3. x.symbol \in DOMAIN answer /\ TakenFor(items, answer, x.symbol) = x
      BY <1>2, <1>6, <2>1, <2>2, Taken
  <2>4. QED
      BY <1>4, <2>1, <2>3
<1>8. Fingerprint(x) # None
    BY <1>6, FingerprintType
<1>9. [made |-> items[x.symbol].made, print |-> Fingerprint(x), by |-> execution[p].context]
          \in ReadBy(items, samples, execution[p].context)
    BY <1>7, <1>8 DEF ReadBy
<1>10. QED
    BY <1>1, <1>4, <1>7, <1>9 DEF items

LEMMA SamplesWereReadNext ==
    ASSUME HandoffTypeOK, SamplesWereRead, [HandoffNext]_handoffVars
    PROVE  SamplesWereRead'
<1>1. ASSUME NEW x, WasRead(x)
      PROVE  WasRead(x)'
    BY <1>1, ReadGrows DEF WasRead
<1>2. ASSUME NEW p \in Executions, NEW x \in Values(execution'[p].samples)
      PROVE  WasRead(x)'
  <2>1. CASE UNCHANGED handoffVars
    <3>1. x \in Values(execution[p].samples)
        BY <1>2, <2>1 DEF handoffVars
    <3>2. QED
        BY <1>1, <3>1 DEF SamplesWereRead
  <2>2. CASE HandoffNext /\ ~Sample(p)
    <3>1. execution'[p].samples = execution[p].samples
        BY <1>2, <2>2, SamplesStay DEF Values
    <3>2. x \in Values(execution[p].samples)
        BY <1>2, <3>1
    <3>3. QED
        BY <1>1, <3>2 DEF SamplesWereRead
  <2>3. CASE Sample(p)
    <3>1. x.rows # None => \E r \in read' : r.print = Fingerprint(x)
        BY <1>2, <2>3, SampleReads
    <3>2. QED
        BY <3>1 DEF WasRead
  <2>4. QED
      BY <2>1, <2>2, <2>3
<1>3. ASSUME Document(history)', NEW x \in Values(history')
      PROVE  WasRead(x)'
  <2>1. CASE history' = history
    <3>1. Document(history) /\ x \in Values(history)
        BY <1>3, <2>1 DEF Document
    <3>2. QED
        BY <1>1, <3>1 DEF SamplesWereRead
  <2>2. CASE history' = Torn
      BY <1>3, <2>2 DEF Document
  <2>3. CASE \E p \in Executions : history' = execution[p].samples
    <3>1. PICK p \in Executions : x \in Values(execution[p].samples)
        BY <1>3, <2>3
    <3>2. QED
        BY <1>1, <3>1 DEF SamplesWereRead
  <2>4. QED
      BY <2>1, <2>2, <2>3, HistoryComesFromSamples
<1>4. QED
    BY <1>2, <1>3 DEF SamplesWereRead

\* What a loader unlocks is a sample of the history, of the row's symbol and contract, and
\* the row is validated; the tournament's has the row's fingerprint, the laboratories' that
\* of the row's sample.
LEMMA WhatIsUnlocked ==
    ASSUME NEW m \in Unlocked
    PROVE  /\ Document(history) /\ loader.pc = "history"
           /\ m.symbol \in DOMAIN loader.found.rows /\ m.row = loader.found.rows[m.symbol]
           /\ m.sample \in Values(history) /\ m.sample.rows # None
           /\ m.sample.symbol = m.symbol /\ m.sample.epic = m.row.epic
           /\ m.row.status = "BROKER_VALIDATED"
           /\ Passed(m) = Fingerprint(m.sample)
           /\ loader.kind = "tournament" => m.row.print = Fingerprint(m.sample)
           /\ loader.kind # "tournament" =>
                 /\ m.row.sample # None /\ m.row.sample.rows # None
                 /\ Fingerprint(m.row.sample) = Fingerprint(m.sample)
<1> DEFINE held == loader.found.rows
           validated == {[symbol |-> s, row |-> held[s], sample |-> x] :
                            s \in DOMAIN held, x \in Values(history)}
           bound == {n \in validated : n.sample \in Bound(n.symbol, n.row)}
           proven == {n \in validated : n.sample \in Embedded(n.symbol, n.row)}
<1>1. /\ loader.pc = "history" /\ Document(history)
      /\ m \in IF loader.kind = "tournament" THEN bound ELSE proven
    BY DEF Unlocked
<1>2. m \in validated
    BY <1>1
<1>3. PICK s \in DOMAIN held, x \in Values(history) :
          m = [symbol |-> s, row |-> held[s], sample |-> x]
    BY <1>2
<1>4. loader.kind = "tournament" => m.sample \in Bound(m.symbol, m.row)
    BY <1>1
<1>5. loader.kind # "tournament" => m.sample \in Embedded(m.symbol, m.row)
    BY <1>1
<1>6. CASE loader.kind = "tournament"
  <2>1. /\ m.row.status = "BROKER_VALIDATED"
        /\ m.sample.epic = m.row.epic /\ m.sample.rows # None
        /\ m.row.print = Fingerprint(m.sample)
      BY <1>4, <1>6 DEF Bound
  <2>2. m.sample.symbol = m.symbol
      BY <1>4, <1>6 DEF Bound
  <2>3. QED
      BY <1>1, <1>3, <1>6, <2>1, <2>2 DEF Passed, Fingerprint
<1>7. CASE loader.kind # "tournament"
    BY <1>1, <1>3, <1>5, <1>7 DEF Embedded, Passed, Fingerprint
<1>8. QED
    BY <1>6, <1>7

-----------------------------------------------------------------------------
(* One origin *)

\* What was resolved and read stays resolved and read.
LEMMA OriginsStay ==
    ASSUME HandoffTypeOK, [HandoffNext]_handoffVars, NEW row, NEW c
    PROVE  /\ Rooted(row, c) => Rooted(row, c)'
           /\ Owned(row, c) => Owned(row, c)'
<1>1. read \subseteq read'
    BY ReadGrows
<1>2. \/ resolved' = resolved
      \/ \E context \in Accounts : resolved' = Append(resolved, context)
  <2>1. ASSUME NEW p \in Executions, Resolve(p)
        PROVE  \E context \in Accounts : resolved' = Append(resolved, context)
      BY <2>1 DEF Resolve
  <2>2. CASE UNCHANGED handoffVars
      BY <2>2 DEF handoffVars, observed
  <2>3. CASE HandoffNext /\ \A p \in Executions : ~Resolve(p)
      BY <2>3 DEF HandoffNext, observed, BeginLater, CheckContext, LoadResolutions, Sample,
                  ReadPrevious, WriteRegistry, WriteHistory, WriteManifest, Die, OpenRegistry,
                  LoaderReturns, CheckManifest, OpenHistory
  <2>4. QED
      BY <2>1, <2>2, <2>3
<1>3. \A n \in DOMAIN resolved : n \in DOMAIN resolved' /\ resolved'[n] = resolved[n]
    BY <1>2 DEF HandoffTypeOK
<1>4. QED
    BY <1>1, <1>3 DEF Rooted, Owned

LEMMA TablesStay ==
    ASSUME HandoffTypeOK, [HandoffNext]_handoffVars, NEW held, NEW c
    PROVE  /\ AllRooted(held, c) => AllRooted(held, c)'
           /\ AllOwned(held, c) => AllOwned(held, c)'
BY OriginsStay DEF AllRooted, AllOwned

LEMMA FilesStayFit ==
    ASSUME HandoffTypeOK, FilesFit, [HandoffNext]_handoffVars,
           registry' = registry, manifest' = manifest
    PROVE  FilesFit'
<1>1. CASE Document(registry)
  <2>1. AllRooted(registry.rows, registry.context)
      BY <1>1 DEF FilesFit
  <2>2. Document(manifest) /\ manifest.context = registry.context =>
            AllOwned(registry.rows, registry.context)
      BY <1>1 DEF FilesFit
  <2>3. AllRooted(registry.rows, registry.context)'
      BY <2>1, TablesStay
  <2>4. Document(manifest) /\ manifest.context = registry.context =>
            AllOwned(registry.rows, registry.context)'
      BY <2>2, TablesStay
  <2>5. QED
      BY <2>3, <2>4 DEF FilesFit, Document
<1>2. CASE ~Document(registry)
    BY <1>2 DEF FilesFit, Document
<1>3. QED
    BY <1>1, <1>2

LEMMA NothingToKnow ==
    ASSUME NEW m, m.pc = "off"
    PROVE  Knows(m) /\ Knows(m)'
BY DEF Knows, Filling

\* The memory by a name of its own.
LEMMA KnowsOfMemory ==
    ASSUME NEW p, NEW m, m = execution'[p], Knows(m)'
    PROVE  Knows(execution[p])'
BY DEF Knows, Joined, OfRegistry, OfSamples

LEMMA EndsKnows ==
    ASSUME HandoffTypeOK, NEW p \in Executions, End(p), NEW m, m = execution'[p]
    PROVE  Knows(m)'
<1>1. m = NotUnderWay
    BY DEF HandoffTypeOK, End, Remember
<1>2. m.pc = "off"
    BY <1>1 DEF NotUnderWay
<1>3. QED
    BY <1>2, NothingToKnow DEF Knows, Filling

\* The memory after a step that changes only where the execution is.
LEMMA Proceeding ==
    ASSUME HandoffTypeOK, NEW p \in Executions, NEW pc, Proceed(p, pc)
    PROVE  LET m == execution[p]  n == execution'[p]
           IN /\ n.pc = pc /\ n.phase = m.phase /\ n.context = m.context /\ n.items = m.items
              /\ n.samples = m.samples /\ n.document = m.document
BY DEF HandoffTypeOK, Proceed, Remember, Memories

LEMMA ResolveKnows ==
    ASSUME HandoffTypeOK, FilesFit, NEW p \in Executions, Resolve(p),
           NEW m, m = execution'[p]
    PROVE  FilesFit' /\ Knows(m)'
<1>1. PICK context \in Accounts, items \in Resolutions(Len(resolved) + 1) :
          /\ Remember(p, [NotUnderWay EXCEPT !.pc = "previous", !.context = context,
                                             !.items = items])
          /\ resolved' = Append(resolved, context)
    BY DEF Resolve
<1>2. m = [NotUnderWay EXCEPT !.pc = "previous", !.context = context, !.items = items]
    BY <1>1 DEF HandoffTypeOK, Remember
<1>3. NotUnderWay.samples = <<>> /\ NotUnderWay.phase = "PHASE_1"
    BY DEF NotUnderWay
<1>4. /\ m.pc = "previous" /\ m.phase = "PHASE_1" /\ m.context = context
      /\ m.items = items /\ m.samples = <<>>
    BY <1>2, <1>3, NotUnderWayType DEF Memories
<1>5. \A s \in DOMAIN items : /\ items[s].made = Len(resolved) + 1
                              /\ items[s].status = "BROKER_VALIDATION_PENDING"
                              /\ items[s].sample = None
    BY ResolutionsType DEF HandoffTypeOK
<1>6. Len(resolved) + 1 \in DOMAIN resolved' /\ resolved'[Len(resolved) + 1] = context
    BY <1>1 DEF HandoffTypeOK
<1>7. \A s \in DOMAIN items : Rooted(items[s], context)' /\ items[s].status # "BROKER_VALIDATED"
    BY <1>5, <1>6 DEF Rooted
<1>8. Values(m.samples) = {}
    BY <1>4, EmptyTable DEF Values
<1>9. OfSamples(m)'
    BY <1>8 DEF OfSamples
<1>10. Knows(m)'
    BY <1>4, <1>7, <1>9 DEF Knows, Filling
<1>11. FilesFit'
    BY FilesStayFit DEF Resolve, files, HandoffNext
<1>12. QED
    BY <1>10, <1>11

LEMMA BeginLaterKnows ==
    ASSUME HandoffTypeOK, FilesFit, NEW p \in Executions, NEW phase \in {"PHASE_2", "PHASE_3"},
           BeginLater(p, phase),
           NEW m, m = execution'[p]
    PROVE  FilesFit' /\ Knows(m)'
<1>1. PICK context \in Accounts :
          Remember(p, [NotUnderWay EXCEPT !.pc = "context", !.phase = phase,
                                          !.context = context])
    BY DEF BeginLater
<1>2. m = [NotUnderWay EXCEPT !.pc = "context", !.phase = phase, !.context = context]
    BY <1>1 DEF HandoffTypeOK, Remember
<1>3. NotUnderWay.samples = <<>>
    BY DEF NotUnderWay
<1>4. m.pc = "context" /\ m.samples = <<>>
    BY <1>2, <1>3, NotUnderWayType DEF Memories
<1>5. Knows(m)'
    BY <1>4 DEF Knows, Filling
<1>6. FilesFit'
    BY FilesStayFit DEF BeginLater, files, HandoffNext
<1>7. QED
    BY <1>5, <1>6

LEMMA CheckContextKnows ==
    ASSUME HandoffTypeOK, FilesFit, NEW p \in Executions, CheckContext(p), Knows(execution[p]),
           NEW m, m = execution'[p]
    PROVE  FilesFit' /\ Knows(m)'
<1>1. FilesFit'
    BY FilesStayFit DEF CheckContext, files, HandoffNext
<1>2. CASE Document(manifest) /\ manifest.context = execution[p].context /\ Proceed(p, "load")
  <2>1. m.pc = "load" /\ m.context = execution[p].context /\ m.samples = execution[p].samples
      BY <1>2, Proceeding
  <2>2. m.samples = <<>>
      BY <2>1 DEF Knows, CheckContext
  <2>3. Joined(m)'
      BY <1>2, <2>1 DEF Joined, CheckContext, files, Document
  <2>4. Knows(m)'
      BY <2>1, <2>2, <2>3 DEF Knows, Filling
  <2>5. QED
      BY <1>1, <2>4
<1>3. CASE End(p)
    BY <1>1, <1>3, EndsKnows
<1>4. QED
    BY <1>1, <1>2, <1>3 DEF CheckContext

LEMMA LoadResolutionsKnows ==
    ASSUME HandoffTypeOK, FilesFit, NEW p \in Executions, LoadResolutions(p), Knows(execution[p]),
           NEW m, m = execution'[p]
    PROVE  FilesFit' /\ Knows(m)'
<1>1. FilesFit'
    BY FilesStayFit DEF LoadResolutions, files, HandoffNext
<1>2. CASE Document(registry)
  <2> DEFINE items == [s \in DOMAIN registry.rows |-> [registry.rows[s] EXCEPT !.sample = None]]
             pc == IF execution[p].phase = "PHASE_2" THEN "sample" ELSE "previous"
  <2>1. Remember(p, [execution[p] EXCEPT !.pc = pc, !.items = items])
      BY <1>2 DEF LoadResolutions
  <2> HIDE DEF items
  <2>2. /\ m.pc = pc /\ m.items = items /\ m.context = execution[p].context
        /\ m.samples = execution[p].samples /\ m.phase = execution[p].phase
      BY <2>1 DEF HandoffTypeOK, Remember, Memories
  <2>3. execution[p].phase # "PHASE_1" /\ execution[p].pc = "load"
      BY DEF HandoffTypeOK, LoadResolutions, Memories, LaterOnly
  <2>4. m.samples = <<>> /\ Joined(execution[p])
      BY <2>2, <2>3 DEF Knows
  <2>5. Document(manifest) /\ manifest.context = m.context
      BY <2>2, <2>4 DEF Joined
  <2>6. /\ registry.rows \in Tables(RegistryRows)
        /\ AllRooted(registry.rows, registry.context)
        /\ m.context = registry.context => AllOwned(registry.rows, registry.context)
      BY <1>2, <2>5 DEF HandoffTypeOK, Registries, FilesFit
  <2>7. ASSUME NEW s \in DOMAIN items
        PROVE  /\ s \in DOMAIN registry.rows /\ items[s].made = registry.rows[s].made
               /\ Rooted(items[s], registry.context)
               /\ m.context = registry.context => Owned(items[s], registry.context)
    <3>1. s \in DOMAIN registry.rows /\ items[s] = [registry.rows[s] EXCEPT !.sample = None]
        BY DEF items
    <3>2. registry.rows[s] \in RegistryRows
        BY <2>6, <3>1, TableParts
    <3>3. /\ items[s].made = registry.rows[s].made /\ items[s].status = registry.rows[s].status
          /\ items[s].print = registry.rows[s].print /\ items[s].sample = None
        BY <3>1, <3>2 DEF RegistryRows
    <3>4. Rooted(registry.rows[s], registry.context)
        BY <2>6, <3>1 DEF AllRooted
    <3>5. m.context = registry.context => Owned(registry.rows[s], registry.context)
        BY <2>6, <3>1 DEF AllOwned
    <3>6. QED
        BY <3>1, <3>3, <3>4, <3>5 DEF Rooted, Owned
  <2>8. Values(m.samples) = {}
      BY <2>4, EmptyTable DEF Values
  <2>9. OfRegistry(m)
      BY <1>2, <2>2, <2>7 DEF OfRegistry
  <2>10. OfSamples(m)
      BY <2>8 DEF OfSamples
  <2>11. Knows(m)
      BY <2>2, <2>3, <2>4, <2>5, <2>9, <2>10 DEF Knows, Filling, Joined
  <2>12. UNCHANGED <<registry, manifest, history, read, resolved>>
      BY DEF LoadResolutions, files, observed
  <2>13. Joined(m)' = Joined(m) /\ OfSamples(m)' = OfSamples(m)
      BY <2>12 DEF Joined, OfSamples, Document
  <2>14. OfRegistry(m)'
      BY <2>9, <2>12 DEF OfRegistry, Rooted, Owned, Document
  <2>15. Knows(m)'
      BY <2>2, <2>3, <2>4, <2>5, <2>10, <2>11, <2>13, <2>14 DEF Knows, Filling, Joined
  <2>16. QED
      BY <1>1, <2>15
<1>3. CASE ~Document(registry)
    BY <1>1, <1>3, EndsKnows DEF LoadResolutions
<1>4. QED
    BY <1>2, <1>3

\* Knowledge about files and history that do not change.
LEMMA KnowsStays ==
    ASSUME NEW m, Knows(m), registry' = registry, manifest' = manifest, resolved' = resolved,
           read' = read
    PROVE  Knows(m)'
BY DEF Knows, Joined, OfRegistry, OfSamples, AllOwned, AllRooted, Rooted, Owned, Document

LEMMA SampleKnows ==
    ASSUME HandoffTypeOK, FilesFit, NEW p \in Executions, Sample(p), Knows(execution[p]),
           NEW m, m = execution'[p]
    PROVE  FilesFit' /\ Knows(m)'
<1>1. FilesFit'
    BY FilesStayFit DEF Sample, files, HandoffNext
<1> PICK items : items = execution[p].items
    OBVIOUS
<1>2. PICK answer, samples :
              /\ DOMAIN answer = WithContract(items)
              /\ samples = SamplesOf(items, answer)
              /\ Remember(p, [execution[p] EXCEPT !.pc = "previous", !.samples = samples,
                                 !.items = Verdicts(items, samples)])
              /\ read' = read \cup ReadBy(items, samples, execution[p].context)
    BY SampleParts
<1>3. /\ items \in Tables(RegistryRows) /\ execution[p].phase # "PHASE_1"
      /\ execution[p].pc = "sample"
    BY DEF HandoffTypeOK, Memories, Sample, LaterOnly
<1>4. /\ m.pc = "previous" /\ m.items = Verdicts(items, samples) /\ m.samples = samples
      /\ m.context = execution[p].context /\ m.phase = execution[p].phase
    BY <1>2 DEF HandoffTypeOK, Remember, Memories
<1>5. /\ DOMAIN m.items = DOMAIN items
      /\ \A s \in DOMAIN items :
            /\ m.items[s].made = items[s].made
            /\ m.items[s].sample = items[s].sample
            /\ s \notin DOMAIN samples => m.items[s] = items[s]
            /\ s \in DOMAIN samples =>
                  /\ m.items[s].print = Fingerprint(samples[s])
                  /\ m.items[s].status = IF m.items[s].print # None THEN "BROKER_VALIDATED"
                                         ELSE "DATA_QUALITY_FAIL"
    BY <1>2, <1>3, <1>4, SampledType
<1>6. Joined(execution[p]) /\ OfRegistry(execution[p])
    BY <1>3 DEF Knows
<1>7. registry' = registry /\ manifest' = manifest /\ resolved' = resolved
    BY DEF Sample, files
<1>8. Joined(m)'
    BY <1>4, <1>6, <1>7 DEF Joined, Document
<1>9. ASSUME NEW s \in DOMAIN m.items
      PROVE  /\ s \in DOMAIN registry.rows
             /\ m.items[s].made = registry.rows[s].made
             /\ Rooted(m.items[s], registry.context)'
             /\ m.context = registry.context => Owned(m.items[s], registry.context)'
  <2>1. /\ s \in DOMAIN items /\ s \in DOMAIN registry.rows
        /\ items[s].made = registry.rows[s].made
        /\ Rooted(items[s], registry.context)
        /\ m.context = registry.context => Owned(items[s], registry.context)
      BY <1>4, <1>5, <1>6 DEF OfRegistry
  <2>2. /\ Rooted(items[s], registry.context)'
        /\ m.context = registry.context => Owned(items[s], registry.context)'
    <3> DEFINE row == items[s]  c == registry.context
    <3> HIDE DEF row, c
    <3>1. PICK r, d : r = row /\ d = c
        OBVIOUS
    <3>2. Rooted(r, d) /\ (m.context = d => Owned(r, d))
        BY <2>1, <3>1 DEF row, c
    <3>3. Rooted(r, d)' /\ (m.context = d => Owned(r, d)')
        BY <3>2, OriginsStay DEF HandoffNext
    <3>4. r = items[s] /\ d = registry.context /\ d = registry'.context
        BY <1>7, <3>1 DEF row, c
    <3>5. QED
        BY <3>3, <3>4, <1>7 DEF Rooted, Owned
  <2>3. CASE s \notin DOMAIN samples
      BY <1>5, <2>1, <2>2, <2>3
  <2>4. CASE s \in DOMAIN samples
    <3>1. m.items[s].status = "BROKER_VALIDATED" =>
              \E r \in read' : /\ r.made = m.items[s].made /\ r.print = m.items[s].print
                               /\ r.by = m.context
      <4>1. SUFFICES ASSUME m.items[s].status = "BROKER_VALIDATED"
                     PROVE  [made |-> items[s].made, print |-> Fingerprint(samples[s]),
                             by |-> m.context] \in read'
          BY <1>5, <2>1, <2>4
      <4>2. Fingerprint(samples[s]) # None
          BY <1>5, <2>1, <2>4, <4>1
      <4>3. [made |-> items[s].made, print |-> Fingerprint(samples[s]), by |-> m.context]
                \in ReadBy(items, samples, m.context)
          BY <2>4, <4>2 DEF ReadBy
      <4>4. QED
          BY <1>2, <1>4, <4>3
    <3>2. m.items[s].made = items[s].made /\ m.items[s].sample = items[s].sample
        BY <1>5, <2>1
    <3>3. Rooted(m.items[s], registry.context)'
        BY <1>7, <2>2, <3>1, <3>2 DEF Rooted
    <3>4. m.context = registry.context => Owned(m.items[s], registry.context)'
        BY <1>7, <3>1 DEF Owned
    <3>5. QED
        BY <1>5, <2>1, <3>3, <3>4
  <2>5. QED
      BY <2>3, <2>4
<1>10. OfRegistry(m)'
    BY <1>6, <1>7, <1>9 DEF OfRegistry, Document
<1>11. OfSamples(m)'
  <2>1. ASSUME NEW x \in Values(m.samples), x.rows # None
        PROVE  /\ x.symbol \in DOMAIN m.items
               /\ \E r \in read' : r.made = m.items[x.symbol].made /\ r.print = Fingerprint(x)
      BY <1>5, <2>1, SampleReads
  <2>2. QED
      BY <2>1 DEF OfSamples
<1>12. Knows(m)'
    BY <1>3, <1>4, <1>8, <1>10, <1>11 DEF Knows, Filling
<1>13. QED
    BY <1>1, <1>12

LEMMA ReadPreviousKnows ==
    ASSUME HandoffTypeOK, FilesFit, NEW p \in Executions, ReadPrevious(p), Knows(execution[p]),
           NEW m, m = execution'[p]
    PROVE  FilesFit' /\ Knows(m)'
<1>1. FilesFit'
    BY FilesStayFit DEF ReadPrevious, files, HandoffNext
<1> DEFINE items == execution[p].items
           document == IF execution[p].phase = "PHASE_1" THEN PhaseOneRegistry(p)
                       ELSE AugmentedRegistry(p)
<1>2. execution[p].pc = "previous"
    BY DEF ReadPrevious
<1>3. Remember(p, [execution[p] EXCEPT !.pc = "registry", !.items = <<>>, !.document = document])
    BY DEF ReadPrevious
<1> HIDE DEF document
<1>4. /\ m.pc = "registry" /\ m.document = document
      /\ m.context = execution[p].context /\ m.phase = execution[p].phase
    BY <1>3 DEF HandoffTypeOK, Remember, Memories
<1>5. /\ registry' = registry /\ manifest' = manifest /\ resolved' = resolved /\ read' = read
    BY DEF ReadPrevious, files, observed
<1>6. /\ AllRooted(document.rows, document.context)
      /\ m.phase = "PHASE_1" \/ document.context = m.context =>
            AllOwned(document.rows, document.context)
  <2>1. CASE execution[p].phase = "PHASE_1"
    <3>1. document.context = m.context /\ document.rows = items
        BY <1>4, <2>1 DEF document, PhaseOneRegistry
    <3>2. AllRooted(document.rows, document.context)
        BY <1>2, <1>4, <2>1, <3>1 DEF Knows, AllRooted
    <3>3. AllOwned(document.rows, document.context)
        BY <1>2, <1>4, <2>1, <3>1 DEF Knows, AllOwned, Owned
    <3>4. QED
        BY <3>2, <3>3
  <2>2. CASE execution[p].phase # "PHASE_1"
    <3>1. document = AugmentedRegistry(p)
        BY <2>2 DEF document
    <3>2. OfRegistry(execution[p]) /\ OfSamples(execution[p])
        BY <1>2, <2>2 DEF Knows
    <3>3. Document(registry)
        BY <3>2 DEF OfRegistry
    <3>4. /\ document.context = registry.context
          /\ DOMAIN document.rows = DOMAIN items
          /\ \A s \in DOMAIN items : s \in DOMAIN registry.rows =>
                /\ document.rows[s].status = items[s].status
                /\ document.rows[s].print = items[s].print
                /\ document.rows[s].made = registry.rows[s].made
                /\ \/ document.rows[s].sample = registry.rows[s].sample
                   \/ \E x \in Values(execution[p].samples) :
                         x.symbol = s /\ document.rows[s].sample = x
        BY <1>2, <3>1, <3>3, Augmented
    <3>5. ASSUME NEW s \in DOMAIN document.rows
          PROVE  /\ Rooted(document.rows[s], document.context)
                 /\ document.context = m.context => Owned(document.rows[s], document.context)
      <4> DEFINE row == document.rows[s]
      <4>1. /\ s \in DOMAIN items /\ s \in DOMAIN registry.rows
            /\ items[s].made = registry.rows[s].made
            /\ Rooted(items[s], registry.context)
            /\ m.context = registry.context => Owned(items[s], registry.context)
          BY <1>4, <3>2, <3>4 DEF OfRegistry
      <4>2. Rooted(registry.rows[s], registry.context)
          BY <3>3, <4>1 DEF FilesFit, AllRooted
      <4>3. /\ row.status = items[s].status /\ row.print = items[s].print
            /\ row.made = registry.rows[s].made /\ row.made = items[s].made
            /\ \/ row.sample = registry.rows[s].sample
               \/ \E x \in Values(execution[p].samples) : x.symbol = s /\ row.sample = x
          BY <3>4, <4>1
      <4> HIDE DEF row
      <4>4. row.sample # None /\ row.sample.rows # None =>
                \E r \in read : r.made = row.made /\ r.print = Fingerprint(row.sample)
        <5>1. CASE row.sample = registry.rows[s].sample
            BY <4>2, <4>3, <5>1 DEF Rooted
        <5>2. ASSUME NEW x \in Values(execution[p].samples), x.symbol = s, row.sample = x,
                     row.sample.rows # None
              PROVE  \E r \in read : r.made = row.made /\ r.print = Fingerprint(row.sample)
          <6>1. \E r \in read : r.made = items[x.symbol].made /\ r.print = Fingerprint(x)
              BY <3>2, <5>2 DEF OfSamples
          <6>2. QED
              BY <4>3, <5>2, <6>1
        <5>3. QED
            BY <4>3, <5>1, <5>2
      <4>5. Rooted(row, registry.context)
          BY <4>1, <4>2, <4>3, <4>4 DEF Rooted
      <4>6. m.context = registry.context => Owned(row, registry.context)
          BY <4>1, <4>3 DEF Owned
      <4>7. QED
          BY <3>4, <4>5, <4>6 DEF row
    <3>6. QED
        BY <1>4, <2>2, <3>5 DEF AllRooted, AllOwned
  <2>3. QED
      BY <2>1, <2>2
<1>7. m.phase # "PHASE_1" => Joined(m)
    BY <1>2, <1>4 DEF Knows, Joined
<1>8. Knows(m)
    BY <1>4, <1>6, <1>7 DEF Knows, Filling
<1>9. Knows(m)'
    BY <1>5, <1>8, KnowsStays
<1>10. QED
    BY <1>1, <1>9

LEMMA WriteRegistryKnows ==
    ASSUME HandoffTypeOK, FilesFit, NEW p \in Executions, WriteRegistry(p), Knows(execution[p]),
           NEW m, m = execution'[p]
    PROVE  FilesFit' /\ Knows(m)'
<1>1. manifest' = manifest /\ resolved' = resolved /\ read' = read
    BY DEF WriteRegistry, observed
<1>2. CASE execution[p].pc = "registry"
  <2>1. registry' = Torn /\ Proceed(p, "fill registry")
      BY <1>2 DEF WriteRegistry
  <2>2. FilesFit'
      BY <2>1 DEF FilesFit, Document
  <2>3. /\ m.pc = "fill registry" /\ m.phase = execution[p].phase
        /\ m.context = execution[p].context /\ m.document = execution[p].document
      BY <2>1, Proceeding
  <2>4. /\ m.phase # "PHASE_1" => Joined(m)
        /\ AllRooted(m.document.rows, m.document.context)
        /\ m.phase = "PHASE_1" \/ m.document.context = m.context =>
              AllOwned(m.document.rows, m.document.context)
      BY <1>2, <2>3 DEF Knows, Joined, Filling
  <2>5. /\ m.phase # "PHASE_1" => Joined(m)'
        /\ AllRooted(m.document.rows, m.document.context)'
        /\ m.phase = "PHASE_1" \/ m.document.context = m.context =>
              AllOwned(m.document.rows, m.document.context)'
      BY <1>1, <2>4 DEF Joined, AllRooted, AllOwned, Rooted, Owned, Document
  <2>6. Knows(m)'
      BY <2>3, <2>5 DEF Knows, Filling
  <2>7. QED
      BY <2>2, <2>6
<1>3. CASE execution[p].pc = "fill registry"
  <2> DEFINE document == execution[p].document
  <2>1. /\ registry' = document
        /\ Proceed(p, IF execution[p].samples = <<>> THEN "manifest" ELSE "history")
      BY <1>3 DEF WriteRegistry
  <2>2. /\ m.pc \in {"manifest", "history"} /\ m.phase = execution[p].phase
        /\ m.context = execution[p].context
      BY <2>1, Proceeding
  <2>3. /\ m.phase # "PHASE_1" => Joined(m)
        /\ AllRooted(document.rows, document.context)
        /\ m.phase = "PHASE_1" \/ document.context = m.context =>
              AllOwned(document.rows, document.context)
      BY <1>3, <2>2 DEF Knows, Joined, Filling
  <2>4. m.phase # "PHASE_1" => Joined(m)'
      BY <1>1, <2>3 DEF Joined, Document
  <2>5. m.phase # "PHASE_1" => Document(manifest) /\ manifest.context = m.context
      BY <2>3 DEF Joined
  <2>6. AllRooted(registry'.rows, registry'.context)
      BY <2>1, <2>3
  <2>7. manifest.context = registry'.context \/ m.context = registry'.context =>
            (Document(manifest) \/ m.context = registry'.context =>
                AllOwned(registry'.rows, registry'.context))
      BY <2>1, <2>3, <2>5
  <2>8. AllRooted(registry.rows, registry.context)'
      BY <1>1, <2>6 DEF AllRooted, Rooted
  <2>9. /\ manifest'.context = registry'.context /\ Document(manifest)' =>
              AllOwned(registry.rows, registry.context)'
        /\ m.context = registry'.context => AllOwned(registry.rows, registry.context)'
      BY <1>1, <2>7 DEF AllOwned, Owned, Document
  <2>10. FilesFit'
      BY <2>8, <2>9 DEF FilesFit
  <2>11. Knows(m)'
      BY <2>2, <2>4, <2>9 DEF Knows, Filling
  <2>12. QED
      BY <2>10, <2>11
<1>4. QED
    BY <1>2, <1>3 DEF WriteRegistry

LEMMA WriteHistoryKnows ==
    ASSUME HandoffTypeOK, FilesFit, NEW p \in Executions, WriteHistory(p), Knows(execution[p]),
           NEW m, m = execution'[p]
    PROVE  FilesFit' /\ Knows(m)'
<1>1. /\ registry' = registry /\ manifest' = manifest /\ resolved' = resolved /\ read' = read
    BY DEF WriteHistory, observed
<1>2. FilesFit'
    BY <1>1, FilesStayFit DEF HandoffNext
<1>3. execution[p].pc \in {"history", "fill history"}
    BY DEF WriteHistory
<1>4. PICK pc \in {"fill history", "manifest"} : Proceed(p, pc)
    BY DEF WriteHistory
<1>5. /\ m.pc = pc /\ m.phase = execution[p].phase /\ m.context = execution[p].context
    BY <1>4, Proceeding
<1>6. Knows(m)
    BY <1>3, <1>5 DEF Knows, Filling, Joined
<1>7. QED
    BY <1>1, <1>2, <1>6, KnowsStays

LEMMA WriteManifestKnows ==
    ASSUME HandoffTypeOK, FilesFit, NEW p \in Executions, WriteManifest(p), Knows(execution[p]),
           NEW m, m = execution'[p]
    PROVE  FilesFit' /\ Knows(m)'
<1>1. registry' = registry /\ resolved' = resolved /\ read' = read
    BY DEF WriteManifest, observed
<1>2. Document(registry) => AllRooted(registry.rows, registry.context)
    BY DEF FilesFit
<1>3. Document(registry) /\ execution[p].context = registry.context =>
          AllOwned(registry.rows, registry.context)
    BY DEF Knows, WriteManifest
<1>4. /\ Document(registry)' => AllRooted(registry.rows, registry.context)'
      /\ Document(registry)' /\ execution[p].context = registry'.context =>
            AllOwned(registry.rows, registry.context)'
    BY <1>1, <1>2, <1>3 DEF Document, AllRooted, AllOwned, Rooted, Owned
<1>5. CASE execution[p].pc = "manifest"
  <2>1. PICK document : /\ document.context = execution[p].context
                        /\ Remember(p, [execution[p] EXCEPT !.pc = "fill manifest",
                                                            !.document = document])
                        /\ manifest' = Torn
    <3> DEFINE document == [context |-> execution[p].context, phase |-> execution[p].phase,
                            count |-> Cardinality(DOMAIN execution[p].document.rows),
                            history |-> history # Absent]
    <3>1. /\ Remember(p, [execution[p] EXCEPT !.pc = "fill manifest", !.document = document])
          /\ manifest' = Torn
        BY <1>5 DEF WriteManifest
    <3>2. document.context = execution[p].context
        OBVIOUS
    <3> HIDE DEF document
    <3>3. QED
        BY <3>1, <3>2
  <2>2. m.pc = "fill manifest" /\ m.document = document /\ m.context = execution[p].context
      BY <2>1 DEF HandoffTypeOK, Remember, Memories
  <2>3. FilesFit'
      BY <1>4, <2>1 DEF FilesFit, Document
  <2>4. Knows(m)'
      BY <1>4, <2>1, <2>2 DEF Knows, Filling
  <2>5. QED
      BY <2>3, <2>4
<1>6. CASE execution[p].pc = "fill manifest"
  <2>1. manifest' = execution[p].document /\ End(p)
      BY <1>6 DEF WriteManifest
  <2>2. manifest'.context = execution[p].context
      BY <1>6, <2>1 DEF Knows
  <2>3. FilesFit'
      BY <1>4, <2>2 DEF FilesFit
  <2>4. QED
      BY <2>1, <2>3, EndsKnows
<1>7. QED
    BY <1>5, <1>6 DEF WriteManifest

\* A step of the execution p, and a step of the loader.
StepOf(p) ==
    \/ Resolve(p) \/ BeginLater(p, "PHASE_2") \/ BeginLater(p, "PHASE_3")
    \/ CheckContext(p) \/ LoadResolutions(p) \/ Sample(p) \/ ReadPrevious(p)
    \/ WriteRegistry(p) \/ WriteHistory(p) \/ WriteManifest(p) \/ Die(p)

StepOfLoader ==
    OpenRegistry("tournament") \/ OpenRegistry("laboratory") \/ CheckManifest \/ OpenHistory

LEMMA StepsOfNext == HandoffNext <=> (\E p \in Executions : StepOf(p)) \/ StepOfLoader
BY DEF HandoffNext, StepOf, StepOfLoader

\* A step of p is p's alone.
LEMMA StepIsLocal ==
    ASSUME HandoffTypeOK, NEW p \in Executions, StepOf(p)
    PROVE  /\ \A q \in Executions \ {p} : execution'[q] = execution[q]
           /\ UNCHANGED <<loader.pc, loader.kind, loader.found>>
           /\ Begins(p) \/ (execution[p].pc # "off" /\ overlapped' = overlapped
                                /\ disturbed' = disturbed)
<1>1. ASSUME NEW m, Remember(p, m)
      PROVE  \A q \in Executions \ {p} : execution'[q] = execution[q]
    BY <1>1 DEF HandoffTypeOK, Remember
<1>2. ASSUME NEW pc, Proceed(p, pc)
      PROVE  \E m : Remember(p, m)
    BY <1>2 DEF Proceed
<1>3. ASSUME End(p)
      PROVE  \E m : Remember(p, m)
    BY <1>3 DEF End
<1>4. \E m : Remember(p, m)
  <2>1. CASE Resolve(p) \/ BeginLater(p, "PHASE_2") \/ BeginLater(p, "PHASE_3")
      BY <2>1 DEF Resolve, BeginLater
  <2>2. CASE CheckContext(p) \/ LoadResolutions(p) \/ ReadPrevious(p)
      BY <1>2, <1>3, <2>2 DEF CheckContext, LoadResolutions, ReadPrevious
  <2>3. CASE Sample(p)
      BY <2>3, SampleParts
  <2>4. CASE WriteRegistry(p) \/ WriteHistory(p) \/ WriteManifest(p) \/ Die(p)
      BY <1>2, <1>3, <2>4 DEF WriteRegistry, WriteHistory, WriteManifest, Die
  <2>5. QED
      BY <2>1, <2>2, <2>3, <2>4 DEF StepOf
<1>5. UNCHANGED loader
    BY DEF StepOf, Resolve, BeginLater, CheckContext, LoadResolutions, Sample, ReadPrevious,
           WriteRegistry, WriteHistory, WriteManifest, Die
<1>6. \/ Begins(p)
      \/ execution[p].pc # "off" /\ overlapped' = overlapped /\ disturbed' = disturbed
    BY DEF StepOf, Resolve, BeginLater, CheckContext, LoadResolutions, Sample, ReadPrevious,
           WriteRegistry, WriteHistory, WriteManifest, Die, observed
<1>7. QED
    BY <1>1, <1>4, <1>5, <1>6

\* Without an overlap the others rest while p steps.
LEMMA OthersRest ==
    ASSUME HandoffTypeOK, OriginsFit, ~overlapped', NEW p \in Executions, StepOf(p)
    PROVE  /\ ~overlapped
           /\ \A q \in Executions \ {p} : execution[q].pc = "off" /\ execution'[q] = execution[q]
           /\ AtMostOne'
<1>1. /\ \A q \in Executions \ {p} : execution'[q] = execution[q]
      /\ Begins(p) \/ (execution[p].pc # "off" /\ overlapped' = overlapped)
    BY StepIsLocal
<1>2. ~overlapped
    BY <1>1 DEF Begins
<1>3. \A q \in Executions \ {p} : execution[q].pc = "off"
    BY <1>1, <1>2 DEF Begins, OriginsFit, AtMostOne
<1>4. AtMostOne'
    BY <1>1, <1>3 DEF AtMostOne
<1>5. QED
    BY <1>1, <1>2, <1>3, <1>4

LEMMA StepOfExecutionFits ==
    ASSUME HandoffTypeOK, HandoffTypeOK', OriginsFit, NEW p \in Executions, StepOf(p)
    PROVE  OriginsFit'
<1> SUFFICES ASSUME ~overlapped'
             PROVE  /\ AtMostOne' /\ FilesFit' /\ LoaderFits'
                    /\ \A q \in Executions : Knows(execution[q])'
    BY DEF OriginsFit
<1>1. /\ ~overlapped /\ AtMostOne'
      /\ \A q \in Executions \ {p} : execution[q].pc = "off" /\ execution'[q] = execution[q]
    BY OthersRest
<1>2. FilesFit /\ Knows(execution[p]) /\ LoaderFits
    BY <1>1 DEF OriginsFit
<1> PICK m : m = execution'[p]
    OBVIOUS
<1>3. FilesFit' /\ Knows(m)'
  <2>1. ASSUME Die(p)
        PROVE  FilesFit' /\ Knows(m)'
    <3>1. End(p) /\ registry' = registry /\ manifest' = manifest
        BY <2>1 DEF Die, files
    <3>2. FilesFit'
        BY <1>2, <3>1, FilesStayFit, StepsOfNext
    <3>3. QED
        BY <3>1, <3>2, EndsKnows
  <2>2. QED
      BY <1>2, <2>1, ResolveKnows, BeginLaterKnows, CheckContextKnows, LoadResolutionsKnows,
         SampleKnows, ReadPreviousKnows, WriteRegistryKnows, WriteHistoryKnows,
         WriteManifestKnows DEF StepOf
<1>4. Knows(execution[p])'
    BY <1>3, KnowsOfMemory
<1>5. ASSUME NEW q \in Executions, q # p
      PROVE  Knows(execution[q])'
  <2>1. PICK n : n = execution'[q]
      OBVIOUS
  <2>2. n.pc = "off"
      BY <1>1, <1>5, <2>1
  <2>3. Knows(n)'
      BY <2>2, NothingToKnow
  <2>4. QED
      BY <2>1, <2>3, KnowsOfMemory
<1>6. LoaderFits'
  <2>1. loader'.pc = loader.pc
      BY StepIsLocal
  <2>2. CASE Begins(p)
      BY <2>1, <2>2 DEF Begins, LoaderFits
  <2>3. CASE execution[p].pc # "off" /\ disturbed' = disturbed
      BY <1>2, <2>1, <2>3 DEF LoaderFits
  <2>4. QED
      BY <2>2, <2>3, StepIsLocal
<1>7. QED
    BY <1>1, <1>3, <1>4, <1>5, <1>6

LEMMA StepOfLoaderFits ==
    ASSUME HandoffTypeOK, OriginsFit, StepOfLoader
    PROVE  OriginsFit'
<1>1. /\ UNCHANGED files /\ execution' = execution /\ UNCHANGED <<resolved, read, overlapped>>
    BY DEF StepOfLoader, OpenRegistry, LoaderReturns, CheckManifest, OpenHistory, observed
<1> SUFFICES ASSUME ~overlapped'
             PROVE  /\ AtMostOne' /\ FilesFit' /\ LoaderFits'
                    /\ \A q \in Executions : Knows(execution[q])'
    BY DEF OriginsFit
<1>2. AtMostOne /\ FilesFit /\ LoaderFits /\ \A q \in Executions : Knows(execution[q])
    BY <1>1 DEF OriginsFit
<1>3. AtMostOne'
    BY <1>1, <1>2 DEF AtMostOne
<1>4. FilesFit'
    BY <1>1, <1>2, FilesStayFit, StepsOfNext DEF files
<1>5. ASSUME NEW q \in Executions
      PROVE  Knows(execution[q])'
  <2>1. PICK n : n = execution[q] /\ n = execution'[q]
      BY <1>1
  <2>2. Knows(n)'
      BY <1>1, <1>2, <2>1, KnowsStays DEF files
  <2>3. QED
      BY <2>1, <2>2, KnowsOfMemory
<1>6. LoaderFits'
  <2>1. ASSUME NEW kind \in {"tournament", "laboratory"}, OpenRegistry(kind)
        PROVE  LoaderFits'
      BY <1>1, <2>1 DEF OpenRegistry, LoaderFits, files, Document
  <2>2. ASSUME LoaderReturns
        PROVE  LoaderFits'
      BY <2>2 DEF LoaderReturns, LoaderFits, Unread
  <2>3. ASSUME CheckManifest, Linked(loader.found)
        PROVE  LoaderFits'
    <3>1. loader' = [loader EXCEPT !.pc = "history"] /\ disturbed' = disturbed
        BY <2>3 DEF CheckManifest, observed
    <3>2. loader'.pc = "history" /\ loader'.found = loader.found /\ loader.pc = "manifest"
        BY <2>3, <3>1 DEF HandoffTypeOK, CheckManifest
    <3>3. ~disturbed' => /\ \A q \in Executions : execution[q].pc = "off"
                         /\ Document(registry) /\ loader.found = registry
        BY <1>2, <3>1, <3>2 DEF LoaderFits
    <3>4. ~disturbed' => Linked(registry)
        BY <2>3, <3>3
    <3>5. ~disturbed' => Linked(registry)'
        BY <1>1, <3>4 DEF Linked, files, Document
    <3>6. QED
        BY <1>1, <3>2, <3>3, <3>5 DEF LoaderFits, files, Document
  <2>4. QED
      BY <2>1, <2>2, <2>3 DEF StepOfLoader, CheckManifest, OpenHistory
<1>7. QED
    BY <1>3, <1>4, <1>5, <1>6

LEMMA OriginsFitInit ==
    ASSUME HandoffInit
    PROVE  SamplesWereRead /\ OriginsFit
<1>1. \A p \in Executions : execution[p] = NotUnderWay
    BY DEF HandoffInit
<1>2. NotUnderWay.pc = "off" /\ NotUnderWay.samples = <<>>
    BY DEF NotUnderWay
<1>3. \A p \in Executions : Values(execution[p].samples) = {}
    BY <1>1, <1>2, EmptyTable DEF Values
<1>4. SamplesWereRead
    BY <1>3 DEF SamplesWereRead, HandoffInit, Document
<1>5. \A p \in Executions : Knows(execution[p])
    BY <1>1, <1>2 DEF Knows, Filling
<1>6. AtMostOne /\ FilesFit /\ LoaderFits
    BY <1>1, <1>2 DEF AtMostOne, FilesFit, LoaderFits, HandoffInit, Document, Unread
<1>7. QED
    BY <1>4, <1>5, <1>6 DEF OriginsFit

LEMMA OriginsFitNext ==
    ASSUME HandoffTypeOK, HandoffTypeOK', OriginsFit, [HandoffNext]_handoffVars
    PROVE  OriginsFit'
<1>1. CASE UNCHANGED handoffVars
  <2>1. /\ UNCHANGED files /\ execution' = execution /\ loader' = loader
        /\ UNCHANGED <<resolved, read, overlapped, disturbed>>
      BY <1>1 DEF handoffVars, observed
  <2>2. SUFFICES ASSUME ~overlapped
                 PROVE  /\ AtMostOne' /\ FilesFit' /\ LoaderFits'
                        /\ \A q \in Executions : Knows(execution[q])'
      BY <2>1 DEF OriginsFit
  <2>3. AtMostOne /\ FilesFit /\ LoaderFits /\ \A q \in Executions : Knows(execution[q])
      BY <2>2 DEF OriginsFit
  <2>4. AtMostOne'
      BY <2>1, <2>3 DEF AtMostOne
  <2>5. FilesFit'
      BY <2>1, <2>3, FilesStayFit DEF files
  <2>6. LoaderFits'
      BY <2>1, <2>3 DEF LoaderFits, Linked, Document, files
  <2>7. ASSUME NEW q \in Executions
        PROVE  Knows(execution[q])'
    <3>1. PICK n : n = execution[q] /\ n = execution'[q]
        BY <2>1
    <3>2. Knows(n)'
        BY <2>1, <2>3, <3>1, KnowsStays DEF files
    <3>3. QED
        BY <3>1, <3>2, KnowsOfMemory
  <2>8. QED
      BY <2>4, <2>5, <2>6, <2>7
<1>2. CASE HandoffNext
    BY <1>2, StepsOfNext, StepOfExecutionFits, StepOfLoaderFits
<1>3. QED
    BY <1>1, <1>2

-----------------------------------------------------------------------------
(* Nothing is lost *)

\* The pure part: what a match of rows and samples needs.
LEMMA SampledMatch ==
    ASSUME NEW items \in Tables(RegistryRows), NEW answer, NEW samples,
           DOMAIN answer = WithContract(items), samples = SamplesOf(items, answer),
           Chosen(items)
    PROVE  /\ Chosen(Verdicts(items, samples))
           /\ Match(Verdicts(items, samples), samples)
           /\ DOMAIN samples = {} => ~AnyValidated(Verdicts(items, samples))
<1> DEFINE new == Verdicts(items, samples)
<1>1. /\ samples \in Tables(HistorySamples)
      /\ DOMAIN samples = WithContract(items) /\ DOMAIN samples \subseteq DOMAIN items
      /\ \A s \in DOMAIN samples : samples[s] = TakenFor(items, answer, s)
      /\ DOMAIN new = DOMAIN items
      /\ \A s \in DOMAIN items :
            /\ new[s].epic = items[s].epic
            /\ s \notin DOMAIN samples => new[s] = items[s]
            /\ s \in DOMAIN samples =>
                  /\ new[s].print = Fingerprint(samples[s])
                  /\ new[s].status = IF new[s].print # None THEN "BROKER_VALIDATED"
                                     ELSE "DATA_QUALITY_FAIL"
    BY SampledType
<1> HIDE DEF new
<1>2. \A s \in DOMAIN new : IsValidated(new[s]) => s \in DOMAIN samples /\ items[s].epic # None
  <2>1. SUFFICES ASSUME NEW s \in DOMAIN new, IsValidated(new[s])
                 PROVE  s \in DOMAIN samples /\ items[s].epic # None
      OBVIOUS
  <2>2. CASE s \in DOMAIN samples
      BY <1>1, <2>1, <2>2 DEF WithContract
  <2>3. CASE s \notin DOMAIN samples
    <3>1. IsValidated(items[s]) /\ s \in DOMAIN items
        BY <1>1, <2>1, <2>3 DEF IsValidated
    <3>2. items[s].epic # None
        BY <3>1 DEF Chosen
    <3>3. QED
        BY <1>1, <3>1, <3>2 DEF WithContract
  <2>4. QED
      BY <2>2, <2>3
<1>3. Chosen(new)
    BY <1>1, <1>2 DEF Chosen
<1>4. DOMAIN samples = {} => ~AnyValidated(new)
    BY <1>2 DEF AnyValidated
<1>5. ASSUME NEW s \in DOMAIN new, IsValidated(new[s]), Alone(new, s)
      PROVE  /\ s \in DOMAIN samples /\ OnlySample(samples, s, s)
             /\ samples[s].epic = new[s].epic /\ samples[s].rows # None
             /\ new[s].print = Fingerprint(samples[s])
  <2>1. s \in DOMAIN samples /\ s \in DOMAIN items
      BY <1>1, <1>2, <1>5
  <2>2. \A t \in DOMAIN items \ {s} : items[t].epic # items[s].epic
      BY <1>1, <1>5, <2>1 DEF Alone
  <2>3. DOMAIN answer = DOMAIN samples /\ DOMAIN answer \subseteq DOMAIN items
      BY <1>1
  <2>4. ASSUME NEW u \in DOMAIN answer
        PROVE  LET x == TakenFor(items, answer, u)
               IN /\ x.symbol \in DOMAIN answer
                  /\ items[x.symbol].epic = items[u].epic
                  /\ x.epic = items[u].epic
                  /\ (\A t \in DOMAIN answer \ {u} : items[t].epic # items[u].epic)
                         => x.symbol = u
      BY Taken
  <2>5. \A u \in DOMAIN samples : /\ samples[u].symbol \in DOMAIN items
                                  /\ items[samples[u].symbol].epic = items[u].epic
      BY <1>1, <2>3, <2>4
  <2>6. samples[s].symbol = s /\ samples[s].epic = items[s].epic
    <3>1. \A t \in DOMAIN answer \ {s} : items[t].epic # items[s].epic
        BY <2>2, <2>3
    <3>2. PICK x : x = TakenFor(items, answer, s)
        OBVIOUS
    <3>3. x.epic = items[s].epic /\ x.symbol = s
        BY <2>1, <2>3, <2>4, <3>1, <3>2
    <3>4. QED
        BY <1>1, <2>1, <3>2, <3>3
  <2>7. \A u \in DOMAIN samples : samples[u].symbol = s => u = s
      BY <1>1, <2>2, <2>5
  <2>8. OnlySample(samples, s, s)
      BY <2>1, <2>6, <2>7 DEF OnlySample
  <2>9. new[s].print = Fingerprint(samples[s]) /\ new[s].print # None
      BY <1>1, <1>5, <2>1 DEF IsValidated
  <2>10. samples[s].rows # None
      BY <2>9 DEF Fingerprint
  <2>11. QED
      BY <1>1, <2>1, <2>6, <2>8, <2>9, <2>10
<1>6. Match(new, samples)
    BY <1>5 DEF Match
<1>7. QED
    BY <1>3, <1>4, <1>6 DEF new

\* Rows that agree on contract, status and fingerprint match the same samples.
Agree(held, others) ==
    /\ DOMAIN held = DOMAIN others
    /\ \A s \in DOMAIN held : /\ held[s].epic = others[s].epic
                              /\ held[s].status = others[s].status
                              /\ held[s].print = others[s].print

LEMMA AgreeingMatch ==
    ASSUME NEW held, NEW others, Agree(held, others)
    PROVE  /\ Chosen(others) => Chosen(held)
           /\ AnyValidated(held) => AnyValidated(others)
           /\ \A samples : Match(others, samples) => Match(held, samples)
<1>1. \A s \in DOMAIN held : /\ s \in DOMAIN others
                             /\ IsValidated(held[s]) => IsValidated(others[s])
                             /\ Alone(held, s) => Alone(others, s)
    BY DEF Agree, IsValidated, Alone
<1>2. Chosen(others) => Chosen(held)
    BY <1>1 DEF Agree, Chosen
<1>3. AnyValidated(held) => AnyValidated(others)
    BY <1>1 DEF AnyValidated
<1>4. ASSUME NEW samples, Match(others, samples)
      PROVE  Match(held, samples)
    BY <1>1, <1>4 DEF Match, Agree
<1>5. QED
    BY <1>2, <1>3, <1>4

LEMMA NothingValidated ==
    ASSUME NEW held, ~AnyValidated(held)
    PROVE  /\ Chosen(held) /\ Evidenced(held)
           /\ \A samples : Match(held, samples)
BY DEF AnyValidated, Chosen, Evidenced, Match

LEMMA FilesAreDocuments ==
    /\ \A f \in Tables(HistorySamples) : Document(f)
    /\ \A f \in Manifests : Document(f)
BY FilesAssumption DEF Tables, HistorySamples, Manifests, Document

LEMMA NoTable ==
    ASSUME NEW T, NEW f \in Tables(T), DOMAIN f = {}
    PROVE  f = <<>>
<1>1. f \in [{} -> T]
    BY TableParts
<1>2. <<>> \in [{} -> T]
    BY EmptyTable DEF Tables
<1>3. QED
    BY <1>1, <1>2

LEMMA WholeStays ==
    ASSUME Sound, registry' = registry, manifest' = manifest, history' = history
    PROVE  Sound'
BY DEF Sound, Evidenced, Document

LEMMA PendingStays ==
    ASSUME NEW m, NEW held, Pending(m, held), history' = history
    PROVE  Pending(m, held)'
BY DEF Pending, Evidenced, Document

LEMMA NothingToCarry ==
    ASSUME NEW m, m.pc = "off"
    PROVE  Carries(m)'
BY DEF Carries, Filling

LEMMA EndsCarries ==
    ASSUME HandoffTypeOK, NEW p \in Executions, End(p), NEW m, m = execution'[p]
    PROVE  Carries(m)' /\ m.pc \notin Writing
<1>1. m = NotUnderWay
    BY DEF HandoffTypeOK, End, Remember
<1>2. m.pc = "off"
    BY <1>1 DEF NotUnderWay
<1>3. QED
    BY <1>2, NothingToCarry DEF Writing

LEMMA CarriesOfMemory ==
    ASSUME NEW p, NEW m, m = execution'[p], Carries(m)'
    PROVE  Carries(execution[p])'
BY DEF Carries, Pending, Latest, Same, Evidenced

LEMMA BeginCarries ==
    ASSUME HandoffTypeOK, NEW p \in Executions, Sound, NEW m, m = execution'[p],
           Resolve(p) \/ BeginLater(p, "PHASE_2") \/ BeginLater(p, "PHASE_3")
    PROVE  Sound' /\ Carries(m)'
<1>1. Sound'
    BY WholeStays DEF Resolve, BeginLater, files
<1>2. ASSUME Resolve(p)
      PROVE  Carries(m)'
  <2>1. PICK context \in Accounts, items \in Resolutions(Len(resolved) + 1) :
            Remember(p, [NotUnderWay EXCEPT !.pc = "previous", !.context = context,
                                            !.items = items])
      BY <1>2 DEF Resolve
  <2>2. m = [NotUnderWay EXCEPT !.pc = "previous", !.context = context, !.items = items]
      BY <2>1 DEF HandoffTypeOK, Remember
  <2>3. NotUnderWay.phase = "PHASE_1"
      BY DEF NotUnderWay
  <2>4. m.pc = "previous" /\ m.phase = "PHASE_1" /\ m.items = items
      BY <2>2, <2>3, NotUnderWayType DEF Memories
  <2>5. \A s \in DOMAIN items : items[s].status = "BROKER_VALIDATION_PENDING"
      BY ResolutionsType DEF HandoffTypeOK
  <2>6. ~AnyValidated(m.items)
      BY <2>4, <2>5 DEF AnyValidated, IsValidated
  <2>7. QED
      BY <2>4, <2>6 DEF Carries, Filling
<1>3. ASSUME NEW phase \in {"PHASE_2", "PHASE_3"}, BeginLater(p, phase)
      PROVE  Carries(m)'
  <2>1. PICK context \in Accounts :
            Remember(p, [NotUnderWay EXCEPT !.pc = "context", !.phase = phase,
                                            !.context = context])
      BY <1>3 DEF BeginLater
  <2>2. m = [NotUnderWay EXCEPT !.pc = "context", !.phase = phase, !.context = context]
      BY <2>1 DEF HandoffTypeOK, Remember
  <2>3. m.pc = "context"
      BY <2>2, NotUnderWayType DEF Memories
  <2>4. QED
      BY <2>3 DEF Carries, Filling
<1>4. QED
    BY <1>1, <1>2, <1>3

LEMMA CheckContextCarries ==
    ASSUME HandoffTypeOK, NEW p \in Executions, Sound, NEW m, m = execution'[p], CheckContext(p)
    PROVE  Sound' /\ Carries(m)'
<1>1. Sound'
    BY WholeStays DEF CheckContext, files
<1>2. ASSUME Proceed(p, "load")
      PROVE  Carries(m)'
  <2>1. m.pc = "load"
      BY <1>2, Proceeding
  <2>2. QED
      BY <2>1 DEF Carries, Filling
<1>3. QED
    BY <1>1, <1>2, EndsCarries DEF CheckContext

LEMMA LoadResolutionsCarries ==
    ASSUME HandoffTypeOK, NEW p \in Executions, Sound, NEW m, m = execution'[p],
           LoadResolutions(p), Knows(execution[p])
    PROVE  Sound' /\ Carries(m)'
<1>1. Sound' /\ UNCHANGED <<registry, manifest, history>>
    BY WholeStays DEF LoadResolutions, files
<1>2. CASE Document(registry)
  <2> DEFINE held == registry.rows
             items == [s \in DOMAIN held |-> [held[s] EXCEPT !.sample = None]]
             pc == IF execution[p].phase = "PHASE_2" THEN "sample" ELSE "previous"
  <2>1. Remember(p, [execution[p] EXCEPT !.pc = pc, !.items = items])
      BY <1>2 DEF LoadResolutions
  <2> HIDE DEF items
  <2>2. /\ m.pc = pc /\ m.items = items
        /\ m.samples = execution[p].samples /\ m.phase = execution[p].phase
      BY <2>1 DEF HandoffTypeOK, Remember, Memories
  <2>3. execution[p].phase # "PHASE_1" /\ execution[p].pc = "load"
      BY DEF HandoffTypeOK, LoadResolutions, Memories, LaterOnly
  <2>4. DOMAIN m.samples = {}
      BY <2>2, <2>3, EmptyTable DEF Knows
  <2>5. held \in Tables(RegistryRows)
      BY <1>2 DEF HandoffTypeOK, Registries
  <2>6. Agree(items, held)
    <3>1. DOMAIN items = DOMAIN held
        BY DEF items
    <3>2. ASSUME NEW s \in DOMAIN items
          PROVE  /\ items[s].epic = held[s].epic /\ items[s].status = held[s].status
                 /\ items[s].print = held[s].print
      <4>1. held[s] \in RegistryRows
          BY <2>5, <3>1, TableParts
      <4>2. items[s] = [held[s] EXCEPT !.sample = None]
          BY <3>1 DEF items
      <4>3. QED
          BY <4>1, <4>2 DEF RegistryRows
    <3>3. QED
        BY <3>1, <3>2 DEF Agree
  <2>7. Chosen(held) /\ Evidenced(held)
      BY <1>2 DEF Sound
  <2>8. Chosen(items) /\ Evidenced(items)
      BY <2>6, <2>7, AgreeingMatch DEF Evidenced
  <2>9. Pending(m, items) /\ Same(items, registry.rows)
      BY <2>4, <2>6, <2>8 DEF Pending, Agree, Same
  <2>10. Pending(m, m.items)' /\ Same(m.items, registry.rows)'
      BY <1>1, <2>2, <2>9, PendingStays
  <2>11. Chosen(m.items) /\ Document(registry)'
      BY <1>1, <1>2, <2>2, <2>8 DEF Document
  <2>12. Carries(m)'
      BY <2>2, <2>3, <2>10, <2>11 DEF Carries, Filling
  <2>13. QED
      BY <1>1, <2>12
<1>3. CASE ~Document(registry)
    BY <1>1, <1>3, EndsCarries DEF LoadResolutions
<1>4. QED
    BY <1>2, <1>3

LEMMA SampleCarries ==
    ASSUME HandoffTypeOK, NEW p \in Executions, Sound, NEW m, m = execution'[p],
           Sample(p), Carries(execution[p])
    PROVE  Sound' /\ Carries(m)'
<1>1. Sound' /\ UNCHANGED <<registry, manifest, history>>
    BY WholeStays DEF Sample, files
<1> PICK items : items = execution[p].items
    OBVIOUS
<1>2. PICK answer, samples :
              /\ DOMAIN answer = WithContract(items)
              /\ samples = SamplesOf(items, answer)
              /\ Remember(p, [execution[p] EXCEPT !.pc = "previous", !.samples = samples,
                                 !.items = Verdicts(items, samples)])
    BY SampleParts
<1>3. /\ items \in Tables(RegistryRows) /\ execution[p].phase # "PHASE_1"
      /\ execution[p].pc = "sample"
    BY DEF HandoffTypeOK, Memories, Sample, LaterOnly
<1>4. /\ m.pc = "previous" /\ m.items = Verdicts(items, samples) /\ m.samples = samples
      /\ m.phase = execution[p].phase
    BY <1>2 DEF HandoffTypeOK, Remember, Memories
<1>5. Chosen(items) /\ Same(items, registry.rows) /\ Document(registry)
    BY <1>3 DEF Carries
<1>6. /\ Chosen(m.items) /\ Match(m.items, m.samples)
      /\ DOMAIN m.samples = {} => ~AnyValidated(m.items)
    BY <1>2, <1>3, <1>4, <1>5, SampledMatch
<1>7. Pending(m, m.items)
    BY <1>6, NothingValidated DEF Pending
<1>8. /\ DOMAIN m.items = DOMAIN items
      /\ \A s \in DOMAIN items : m.items[s].epic = items[s].epic
    BY <1>2, <1>3, <1>4, SampledType
<1>9. Same(m.items, registry.rows)
    BY <1>5, <1>8 DEF Same
<1>10. Pending(m, m.items)' /\ Same(m.items, registry.rows)' /\ Document(registry)'
    BY <1>1, <1>5, <1>7, <1>9, PendingStays DEF Document
<1>11. Carries(m)'
    BY <1>3, <1>4, <1>6, <1>10 DEF Carries, Filling
<1>12. QED
    BY <1>1, <1>11

LEMMA ReadPreviousCarries ==
    ASSUME HandoffTypeOK, NEW p \in Executions, Sound, NEW m, m = execution'[p],
           ReadPrevious(p), Knows(execution[p]), Carries(execution[p])
    PROVE  Sound' /\ Carries(m)'
<1>1. Sound' /\ UNCHANGED <<registry, manifest, history>>
    BY WholeStays DEF ReadPrevious, files
<1> DEFINE items == execution[p].items
           document == IF execution[p].phase = "PHASE_1" THEN PhaseOneRegistry(p)
                       ELSE AugmentedRegistry(p)
<1>2. execution[p].pc = "previous"
    BY DEF ReadPrevious
<1>3. Remember(p, [execution[p] EXCEPT !.pc = "registry", !.items = <<>>, !.document = document])
    BY DEF ReadPrevious
<1> HIDE DEF document
<1>4. /\ m.pc = "registry" /\ m.document = document /\ m.samples = execution[p].samples
      /\ m.context = execution[p].context /\ m.phase = execution[p].phase
    BY <1>3 DEF HandoffTypeOK, Remember, Memories
<1>5. document.context = m.context /\ document.latest = Latest(m) /\ Pending(m, document.rows)
  <2>1. CASE execution[p].phase = "PHASE_1"
    <3>1. document.context = m.context /\ document.rows = items /\ document.latest = None
        BY <1>4, <2>1 DEF document, PhaseOneRegistry
    <3>2. ~AnyValidated(document.rows)
        BY <1>2, <2>1, <3>1 DEF Carries
    <3>3. QED
        BY <1>4, <2>1, <3>1, <3>2, NothingValidated DEF Pending, Latest
  <2>2. CASE execution[p].phase # "PHASE_1"
    <3>1. document = AugmentedRegistry(p)
        BY <2>2 DEF document
    <3>2. Document(registry) /\ Same(items, registry.rows) /\ Pending(execution[p], items)
        BY <1>2, <2>2 DEF Carries
    <3>3. /\ document.context = registry.context /\ document.latest = execution[p].phase
          /\ DOMAIN document.rows = DOMAIN items
          /\ \A s \in DOMAIN items : s \in DOMAIN registry.rows =>
                /\ document.rows[s].status = items[s].status
                /\ document.rows[s].print = items[s].print
                /\ document.rows[s].epic = registry.rows[s].epic
        BY <1>2, <3>1, <3>2, Augmented
    <3>4. Agree(document.rows, items)
        BY <3>2, <3>3 DEF Same, Agree
    <3>5. Pending(m, document.rows)
        BY <1>4, <3>2, <3>4, AgreeingMatch DEF Pending, Evidenced
    <3>6. registry.context = m.context
        BY <1>2, <1>4, <2>2, <3>2 DEF Sound, Knows, Joined
    <3>7. QED
        BY <1>4, <2>2, <3>3, <3>5, <3>6 DEF Latest
  <2>3. QED
      BY <2>1, <2>2
<1>6. Pending(m, m.document.rows)'
    BY <1>1, <1>4, <1>5, PendingStays
<1>7. Carries(m)'
    BY <1>4, <1>5, <1>6 DEF Carries, Filling
<1>8. QED
    BY <1>1, <1>7

LEMMA WriteRegistryCarries ==
    ASSUME HandoffTypeOK, NEW p \in Executions, NEW m, m = execution'[p],
           execution[p].pc \notin Writing => Sound,
           WriteRegistry(p), Carries(execution[p])
    PROVE  m.pc \in Writing /\ Carries(m)'
<1>1. history' = history
    BY DEF WriteRegistry
<1>2. CASE execution[p].pc = "registry"
  <2>1. Proceed(p, "fill registry")
      BY <1>2 DEF WriteRegistry
  <2>2. /\ m.pc = "fill registry" /\ m.phase = execution[p].phase
        /\ m.context = execution[p].context /\ m.document = execution[p].document
        /\ m.samples = execution[p].samples
      BY <2>1, Proceeding
  <2>3. /\ m.document.context = m.context /\ m.document.latest = Latest(m)
        /\ Pending(m, m.document.rows)
      BY <1>2, <2>2 DEF Carries, Filling, Latest, Pending
  <2>4. Pending(m, m.document.rows)'
      BY <1>1, <2>3, PendingStays
  <2>5. QED
      BY <2>2, <2>3, <2>4 DEF Carries, Filling, Writing
<1>3. CASE execution[p].pc = "fill registry"
  <2>1. /\ registry' = execution[p].document
        /\ Proceed(p, IF execution[p].samples = <<>> THEN "manifest" ELSE "history")
      BY <1>3 DEF WriteRegistry
  <2>2. /\ m.pc = IF m.samples = <<>> THEN "manifest" ELSE "history"
        /\ m.phase = execution[p].phase
        /\ m.context = execution[p].context /\ m.document = execution[p].document
        /\ m.samples = execution[p].samples
      BY <2>1, Proceeding
  <2>3. /\ m.document.context = m.context /\ m.document.latest = Latest(m)
        /\ Pending(m, m.document.rows)
      BY <1>3, <2>2 DEF Carries, Filling, Latest, Pending
  <2>4. registry' = m.document /\ Chosen(registry'.rows)
      BY <2>1, <2>2, <2>3 DEF Pending
  <2>5. CASE m.samples = <<>>
    <3>1. DOMAIN m.samples = {}
        BY <2>5, EmptyTable
    <3>2. Evidenced(m.document.rows)
        BY <2>3, <3>1 DEF Pending
    <3>3. Evidenced(registry.rows)'
        BY <1>1, <2>4, <3>2 DEF Evidenced, Document
    <3>4. QED
        BY <2>2, <2>3, <2>4, <2>5, <3>3 DEF Carries, Filling, Writing
  <2>6. CASE m.samples # <<>>
    <3>1. DOMAIN m.samples # {}
        BY <2>2, <2>6, NoTable DEF HandoffTypeOK, Memories
    <3>2. Match(registry'.rows, m.samples)
        BY <2>3, <2>4, <3>1 DEF Pending
    <3>3. QED
        BY <2>2, <2>3, <2>4, <2>6, <3>2 DEF Carries, Filling, Writing
  <2>7. QED
      BY <2>5, <2>6
<1>4. QED
    BY <1>2, <1>3 DEF WriteRegistry

LEMMA WriteHistoryCarries ==
    ASSUME HandoffTypeOK, NEW p \in Executions, NEW m, m = execution'[p],
           WriteHistory(p), Carries(execution[p])
    PROVE  m.pc \in Writing /\ Carries(m)'
<1>1. registry' = registry
    BY DEF WriteHistory
<1>2. PICK pc \in {"fill history", "manifest"} : Proceed(p, pc)
    BY DEF WriteHistory
<1>3. /\ m.pc = pc /\ m.phase = execution[p].phase
      /\ m.context = execution[p].context /\ m.document = execution[p].document
      /\ m.samples = execution[p].samples
    BY <1>2, Proceeding
<1>4. /\ execution[p].pc \in {"history", "fill history"}
      /\ registry = m.document /\ Chosen(registry.rows) /\ Match(registry.rows, m.samples)
      /\ m.document.context = m.context /\ m.document.latest = Latest(m)
    BY <1>3 DEF WriteHistory, Carries, Filling, Latest
<1>5. CASE execution[p].pc = "history"
  <2>1. m.pc = "fill history"
      BY <1>5, <1>3, Proceeding DEF WriteHistory
  <2>2. QED
      BY <1>1, <1>4, <2>1 DEF Carries, Filling, Writing
<1>6. CASE execution[p].pc = "fill history"
  <2>1. history' = m.samples /\ m.pc = "manifest"
      BY <1>3, <1>6, Proceeding DEF WriteHistory
  <2>2. m.samples \in Tables(HistorySamples)
      BY <1>3 DEF HandoffTypeOK, Memories
  <2>3. Document(history)'
      BY <2>1, <2>2, FilesAreDocuments DEF Document
  <2>4. Evidenced(registry.rows)'
      BY <1>1, <1>4, <2>1, <2>3 DEF Evidenced
  <2>5. QED
      BY <1>1, <1>4, <2>1, <2>4 DEF Carries, Filling, Writing
<1>7. QED
    BY <1>4, <1>5, <1>6

LEMMA WriteManifestCarries ==
    ASSUME HandoffTypeOK, NEW p \in Executions, NEW m, m = execution'[p],
           WriteManifest(p), Carries(execution[p])
    PROVE  (m.pc \notin Writing => Sound') /\ Carries(m)'
<1>1. registry' = registry /\ history' = history
    BY DEF WriteManifest
<1>2. CASE execution[p].pc = "manifest"
  <2> DEFINE document == [context |-> execution[p].context, phase |-> execution[p].phase,
                          count |-> Cardinality(DOMAIN execution[p].document.rows),
                          history |-> history # Absent]
  <2>1. Remember(p, [execution[p] EXCEPT !.pc = "fill manifest", !.document = document])
      BY <1>2 DEF WriteManifest
  <2>2. /\ document.context = execution[p].context /\ document.phase = execution[p].phase
        /\ document.count = Cardinality(DOMAIN execution[p].document.rows)
        /\ document.history = (history # Absent)
      OBVIOUS
  <2> HIDE DEF document
  <2>3. m.pc = "fill manifest" /\ m.document = document
      BY <2>1 DEF HandoffTypeOK, Remember, Memories
  <2>4. /\ registry = execution[p].document /\ Chosen(registry.rows) /\ Evidenced(registry.rows)
        /\ execution[p].document.context = execution[p].context
        /\ execution[p].document.latest = Latest(execution[p])
      BY <1>2 DEF Carries, Filling
  <2>5. /\ document.context = registry.context
        /\ registry.latest # None => document.phase = registry.latest
        /\ document.count = Cardinality(DOMAIN registry.rows)
      BY <2>2, <2>4 DEF Latest
  <2>6. AnyValidated(registry.rows) => document.history
      BY <2>2, <2>4 DEF Evidenced, Document
  <2>7. Evidenced(registry.rows)'
      BY <1>1, <2>4 DEF Evidenced, Document
  <2>8. Carries(m)'
      BY <1>1, <2>3, <2>4, <2>5, <2>6, <2>7 DEF Carries, Filling
  <2>9. QED
      BY <2>3, <2>8 DEF Writing
<1>3. CASE execution[p].pc = "fill manifest"
  <2>1. manifest' = execution[p].document /\ End(p)
      BY <1>3 DEF WriteManifest
  <2>2. execution[p].document \in Manifests
      BY <1>3 DEF HandoffTypeOK, Memories
  <2>3. Document(manifest)'
      BY <2>1, <2>2, FilesAreDocuments DEF Document
  <2>4. Document(registry) =>
            /\ Chosen(registry.rows) /\ Evidenced(registry.rows)
            /\ manifest'.context = registry.context
            /\ registry.latest # None => manifest'.phase = registry.latest
            /\ manifest'.count = Cardinality(DOMAIN registry.rows)
            /\ AnyValidated(registry.rows) => manifest'.history
      BY <1>3, <2>1 DEF Carries
  <2>5. Sound'
      BY <1>1, <2>3, <2>4 DEF Sound, Evidenced, Document
  <2>6. QED
      BY <2>1, <2>5, EndsCarries
<1>4. QED
    BY <1>2, <1>3 DEF WriteManifest

LEMMA StepOfExecutionLoses ==
    ASSUME HandoffTypeOK, OriginsFit, NothingIsLost, NEW p \in Executions, StepOf(p)
    PROVE  NothingIsLost'
<1> SUFFICES ASSUME deaths' = 0, ~overlapped'
             PROVE  /\ (\A q \in Executions : execution'[q].pc \notin Writing) => Sound'
                    /\ \A q \in Executions : Carries(execution[q])'
                    /\ loader'.pc # "off" /\ loader'.kind = "tournament" =>
                          loader'.found.latest # None
    BY DEF NothingIsLost
<1>1. /\ ~overlapped
      /\ \A q \in Executions \ {p} : execution[q].pc = "off" /\ execution'[q] = execution[q]
    BY OthersRest
<1>2. ~Die(p) /\ deaths = 0
  <2>1. ~Die(p)
      BY DEF Die, HandoffTypeOK
  <2>2. deaths' = deaths
      BY <2>1 DEF StepOf, Resolve, BeginLater, CheckContext, LoadResolutions, Sample,
                  ReadPrevious, WriteRegistry, WriteHistory, WriteManifest, observed
  <2>3. QED
      BY <2>1, <2>2
<1>3. /\ (\A q \in Executions : execution[q].pc \notin Writing) => Sound
      /\ Carries(execution[p])
      /\ loader.pc # "off" /\ loader.kind = "tournament" => loader.found.latest # None
    BY <1>1, <1>2 DEF NothingIsLost
<1>4. Knows(execution[p])
    BY <1>1 DEF OriginsFit
<1>5. execution[p].pc \notin Writing => Sound
    BY <1>1, <1>3 DEF Writing
<1> PICK m : m = execution'[p]
    OBVIOUS
<1>6. (m.pc \notin Writing => Sound') /\ Carries(m)'
  <2>1. ASSUME WriteRegistry(p) \/ WriteHistory(p)
        PROVE  m.pc \in Writing /\ Carries(m)'
      BY <1>3, <1>5, <2>1, WriteRegistryCarries, WriteHistoryCarries
  <2>2. ASSUME WriteManifest(p)
        PROVE  (m.pc \notin Writing => Sound') /\ Carries(m)'
      BY <1>3, <2>2, WriteManifestCarries
  <2>3. ASSUME \/ Resolve(p) \/ BeginLater(p, "PHASE_2") \/ BeginLater(p, "PHASE_3")
               \/ CheckContext(p) \/ LoadResolutions(p) \/ Sample(p) \/ ReadPrevious(p)
        PROVE  Sound' /\ Carries(m)'
    <3>1. execution[p].pc \notin Writing
        BY <2>3 DEF Resolve, BeginLater, Begins, CheckContext, LoadResolutions, Sample,
                    ReadPrevious, Writing
    <3>2. Sound
        BY <1>5, <3>1
    <3>3. QED
        BY <1>3, <1>4, <2>3, <3>2, BeginCarries, CheckContextCarries, LoadResolutionsCarries,
           SampleCarries, ReadPreviousCarries
  <2>4. QED
      BY <1>2, <2>1, <2>2, <2>3 DEF StepOf
<1>7. Carries(execution[p])'
    BY <1>6, CarriesOfMemory
<1>8. ASSUME NEW q \in Executions, q # p
      PROVE  Carries(execution[q])'
  <2>1. PICK n : n = execution'[q]
      OBVIOUS
  <2>2. n.pc = "off"
      BY <1>1, <1>8, <2>1
  <2>3. Carries(n)'
      BY <2>2, NothingToCarry
  <2>4. QED
      BY <2>1, <2>3, CarriesOfMemory
<1>9. loader'.pc = loader.pc /\ loader'.kind = loader.kind /\ loader'.found = loader.found
    BY StepIsLocal
<1>10. QED
    BY <1>3, <1>6, <1>7, <1>8, <1>9

LEMMA CarriesStays ==
    ASSUME NEW m, Carries(m), registry' = registry, history' = history
    PROVE  Carries(m)'
BY DEF Carries, Pending, Latest, Same, Evidenced, Document

LEMMA RestLoses ==
    ASSUME NothingIsLost, UNCHANGED files, execution' = execution,
           UNCHANGED <<deaths, overlapped>>,
           loader'.pc # "off" /\ loader'.kind = "tournament" =>
               loader'.found.latest # None \/ loader' = loader
               \/ (loader.pc # "off" /\ loader.kind = "tournament" /\ loader'.found = loader.found)
    PROVE  NothingIsLost'
<1> SUFFICES ASSUME deaths' = 0, ~overlapped'
             PROVE  /\ (\A q \in Executions : execution'[q].pc \notin Writing) => Sound'
                    /\ \A q \in Executions : Carries(execution[q])'
                    /\ loader'.pc # "off" /\ loader'.kind = "tournament" =>
                          loader'.found.latest # None
    BY DEF NothingIsLost
<1>1. /\ (\A q \in Executions : execution[q].pc \notin Writing) => Sound
      /\ \A q \in Executions : Carries(execution[q])
      /\ loader.pc # "off" /\ loader.kind = "tournament" => loader.found.latest # None
    BY DEF NothingIsLost
<1>2. registry' = registry /\ manifest' = manifest /\ history' = history
    BY DEF files
<1>3. (\A q \in Executions : execution'[q].pc \notin Writing) => Sound'
    BY <1>1, <1>2, WholeStays
<1>4. ASSUME NEW q \in Executions
      PROVE  Carries(execution[q])'
  <2>1. PICK n : n = execution[q] /\ n = execution'[q]
      OBVIOUS
  <2>2. Carries(n)'
      BY <1>1, <1>2, <2>1, CarriesStays
  <2>3. QED
      BY <2>1, <2>2, CarriesOfMemory
<1>5. QED
    BY <1>1, <1>3, <1>4

LEMMA NothingIsLostNext ==
    ASSUME HandoffTypeOK, OriginsFit, NothingIsLost, [HandoffNext]_handoffVars
    PROVE  NothingIsLost'
<1>1. CASE UNCHANGED handoffVars
    BY <1>1, RestLoses DEF handoffVars, observed
<1>2. ASSUME NEW kind \in {"tournament", "laboratory"}, OpenRegistry(kind)
      PROVE  NothingIsLost'
  <2>1. UNCHANGED files /\ execution' = execution /\ UNCHANGED <<deaths, overlapped>>
      BY <1>2 DEF OpenRegistry
  <2>2. loader'.kind = "tournament" => loader'.found.latest # None
      BY <1>2 DEF OpenRegistry
  <2>3. QED
      BY <2>1, <2>2, RestLoses
<1>3. ASSUME LoaderReturns
      PROVE  NothingIsLost'
  <2>1. UNCHANGED files /\ execution' = execution /\ UNCHANGED <<deaths, overlapped>>
      BY <1>3 DEF LoaderReturns
  <2>2. loader'.pc = "off"
      BY <1>3 DEF LoaderReturns, Unread
  <2>3. QED
      BY <2>1, <2>2, RestLoses
<1>4. ASSUME CheckManifest, Linked(loader.found)
      PROVE  NothingIsLost'
  <2>1. UNCHANGED files /\ execution' = execution /\ UNCHANGED <<deaths, overlapped>>
      BY <1>4 DEF CheckManifest, observed
  <2>2. loader.pc = "manifest" /\ loader' = [loader EXCEPT !.pc = "history"]
      BY <1>4 DEF CheckManifest
  <2>3. loader'.found = loader.found /\ loader'.kind = loader.kind
      BY <2>2 DEF HandoffTypeOK
  <2>4. QED
      BY <2>1, <2>2, <2>3, RestLoses
<1>5. QED
    BY <1>1, <1>2, <1>3, <1>4, StepsOfNext, StepOfExecutionLoses
       DEF StepOfLoader, CheckManifest, OpenHistory

LEMMA NothingIsLostInit ==
    ASSUME HandoffInit
    PROVE  NothingIsLost
<1>1. \A p \in Executions : execution[p].pc = "off"
    BY DEF HandoffInit, NotUnderWay
<1>2. Sound
    BY DEF HandoffInit, Sound, Document
<1>3. \A p \in Executions : Carries(execution[p])
    BY <1>1 DEF Carries, Filling
<1>4. loader.pc = "off"
    BY DEF HandoffInit, Unread
<1>5. QED
    BY <1>2, <1>3, <1>4 DEF NothingIsLost

LEMMA HandoffInvariant == HandoffSpec => []HandoffIInv
<1>1. HandoffInit => HandoffIInv
    BY HandoffTypeInit, OriginsFitInit, NothingIsLostInit DEF HandoffIInv
<1>2. HandoffIInv /\ [HandoffNext]_handoffVars => HandoffIInv'
  <2> SUFFICES ASSUME HandoffIInv, [HandoffNext]_handoffVars
               PROVE  HandoffIInv'
      OBVIOUS
  <2>1. HandoffTypeOK /\ SamplesWereRead /\ OriginsFit /\ NothingIsLost
      BY DEF HandoffIInv
  <2>2. HandoffTypeOK'
      BY <2>1, HandoffTypeNext
  <2>3. QED
      BY <2>1, <2>2, SamplesWereReadNext, OriginsFitNext, NothingIsLostNext DEF HandoffIInv
<1>3. QED
    BY <1>1, <1>2, PTL DEF HandoffSpec

\* Type correctness of the handoff: its files, the memory of every execution and the loader
\* have their types whatever the executions do to the files between them.
THEOREM HandoffTypeCorrect == HandoffSpec => []HandoffTypeOK
BY HandoffInvariant, PTL DEF HandoffIInv

\* What a loader unlocks rests on a sample that was read and passed, for the symbol and the
\* contract of the row, however executions overlap and die.
THEOREM UnlockedWasValidated == HandoffSpec => UnlockedIsValidated
<1>1. HandoffIInv => (\A m \in Unlocked : \E r \in read : r.print = Passed(m))
  <2> SUFFICES ASSUME HandoffIInv, NEW m \in Unlocked
               PROVE  \E r \in read : r.print = Passed(m)
      OBVIOUS
  <2>1. /\ Document(history) /\ m.sample \in Values(history) /\ m.sample.rows # None
        /\ Passed(m) = Fingerprint(m.sample)
      BY WhatIsUnlocked
  <2>2. WasRead(m.sample)
      BY <2>1 DEF HandoffIInv, SamplesWereRead
  <2>3. QED
      BY <2>1, <2>2 DEF WasRead
<1>2. HandoffIInv /\ [HandoffNext]_handoffVars =>
          [Returns => \A m \in Unlocked : \E r \in read : r.print = Passed(m)]_handoffVars
    BY <1>1
<1>3. QED
    BY <1>2, HandoffInvariant, PTL DEF HandoffSpec, UnlockedIsValidated

LEMMA OneOrigin ==
    ASSUME HandoffIInv, ~overlapped, ~disturbed, NEW m \in Unlocked
    PROVE  \E r \in read :
              /\ r.made = m.row.made /\ r.print = Passed(m)
              /\ loader.kind = "tournament" =>
                    r.by = loader.found.context /\ resolved[m.row.made] = r.by
<1> DEFINE s == m.symbol
<1>1. /\ loader.pc = "history"
      /\ s \in DOMAIN loader.found.rows /\ m.row = loader.found.rows[s]
      /\ m.row.status = "BROKER_VALIDATED"
      /\ Passed(m) = Fingerprint(m.sample)
      /\ loader.kind = "tournament" => m.row.print = Fingerprint(m.sample)
      /\ loader.kind # "tournament" =>
            /\ m.row.sample # None /\ m.row.sample.rows # None
            /\ Fingerprint(m.row.sample) = Fingerprint(m.sample)
    BY WhatIsUnlocked
<1>2. FilesFit /\ LoaderFits
    BY DEF HandoffIInv, OriginsFit
<1>3. /\ Document(registry) /\ loader.found = registry
      /\ loader.kind = "tournament" => Linked(registry)
    BY <1>1, <1>2 DEF LoaderFits
<1>4. Rooted(m.row, registry.context)
    BY <1>1, <1>2, <1>3 DEF FilesFit, AllRooted
<1>5. CASE loader.kind = "tournament"
  <2>1. Document(manifest) /\ manifest.context = registry.context
      BY <1>3, <1>5 DEF Linked
  <2>2. Owned(m.row, registry.context)
      BY <1>1, <1>2, <1>3, <2>1 DEF FilesFit, AllOwned
  <2>3. PICK r \in read : r.made = m.row.made /\ r.print = m.row.print /\ r.by = registry.context
      BY <1>1, <2>2 DEF Owned
  <2>4. QED
      BY <1>1, <1>3, <1>4, <1>5, <2>3 DEF Rooted
<1>6. CASE loader.kind # "tournament"
    BY <1>1, <1>4, <1>6 DEF Rooted
<1>7. QED
    BY <1>5, <1>6

\* A validation belongs to the resolution it is attached to, and for the tournament one
\* account did both, wherever executions die, unless they overlapped or met the loader.
THEOREM EvidenceHasOneOrigin == HandoffSpec => EvidenceIsOfOneOrigin
<1>1. HandoffIInv /\ [HandoffNext]_handoffVars =>
          [Returns /\ ~overlapped /\ ~disturbed =>
              \A m \in Unlocked : \E r \in read :
                  /\ r.made = m.row.made /\ r.print = Passed(m)
                  /\ loader.kind = "tournament" =>
                        r.by = loader.found.context /\ resolved[m.row.made] = r.by]_handoffVars
    BY OneOrigin
<1>2. QED
    BY <1>1, HandoffInvariant, PTL DEF HandoffSpec, EvidenceIsOfOneOrigin

LEMMA EveryMarketIsUnlocked ==
    ASSUME HandoffIInv, HandoffNext, Returns, loader.kind = "tournament",
           deaths = 0, ~overlapped, ~disturbed,
           NEW s \in DOMAIN loader.found.rows,
           loader.found.rows[s].status = "BROKER_VALIDATED",
           \A t \in DOMAIN loader.found.rows \ {s} :
               loader.found.rows[t].epic # loader.found.rows[s].epic
    PROVE  \E m \in Unlocked : m.symbol = s
<1>1. /\ \A p \in Executions : execution[p].pc = "off"
      /\ Document(registry) /\ loader.found = registry
      /\ registry.latest # None /\ loader.pc \in {"manifest", "history"}
    BY DEF HandoffIInv, HandoffTypeOK, OriginsFit, LoaderFits, NothingIsLost, Returns
<1>2. Sound
    BY <1>1 DEF HandoffIInv, NothingIsLost, Writing
<1>3. IsValidated(registry.rows[s]) /\ Alone(registry.rows, s) /\ AnyValidated(registry.rows)
    BY <1>1 DEF IsValidated, Alone, AnyValidated
<1>4. /\ Linked(registry)
      /\ Document(history) /\ Match(registry.rows, history)
    BY <1>1, <1>2, <1>3 DEF Sound, Linked, Evidenced
<1>5. loader.pc = "history"
  <2>1. SUFFICES ASSUME loader.pc = "manifest"
                 PROVE  FALSE
      BY <1>1
  <2>2. loader'.pc = "off"
      BY DEF Returns
  <2>3. \A p \in Executions : ~StepOf(p)
      BY <2>1, <2>2, StepIsLocal DEF HandoffIInv
  <2>4. CheckManifest
      BY <2>1, <2>3, StepsOfNext DEF StepOfLoader, OpenRegistry, OpenHistory
  <2>5. loader' = [loader EXCEPT !.pc = "history"]
      BY <1>1, <1>4, <2>4 DEF CheckManifest
  <2>6. QED
      BY <2>2, <2>5 DEF HandoffIInv, HandoffTypeOK
<1>6. PICK t \in DOMAIN history :
          /\ OnlySample(history, s, t)
          /\ history[t].epic = registry.rows[s].epic /\ history[t].rows # None
          /\ registry.rows[s].print = Fingerprint(history[t])
    BY <1>1, <1>3, <1>4 DEF Match
<1> DEFINE x == history[t]
           m == [symbol |-> s, row |-> registry.rows[s], sample |-> x]
<1>7. x \in Values(history)
    BY DEF Values
<1>8. /\ m.symbol = s /\ m.row = registry.rows[s] /\ m.sample = x
      /\ x \in Bound(s, registry.rows[s])
    BY <1>3, <1>6, <1>7 DEF Bound, OnlySample, IsValidated
<1>9. m \in {[symbol |-> u, row |-> loader.found.rows[u], sample |-> y] :
                 u \in DOMAIN loader.found.rows, y \in Values(history)}
    BY <1>1, <1>7
<1> HIDE DEF x, m
<1>10. m.sample \in Bound(m.symbol, m.row)
    BY <1>8
<1>11. m \in Unlocked
    BY <1>4, <1>5, <1>9, <1>10 DEF Unlocked
<1>12. QED
    BY <1>8, <1>11

\* Nothing validated is lost on the way: when no execution died and none overlapped, the
\* tournament gets every validated market whose contract no other symbol was resolved to.
THEOREM HandoffLosesNothing == HandoffSpec => HandoffIsComplete
<1>1. ASSUME HandoffIInv, HandoffNext, Returns, loader.kind = "tournament",
             deaths = 0, ~overlapped, ~disturbed,
             NEW s \in DOMAIN loader.found.rows,
             /\ loader.found.rows[s].status = "BROKER_VALIDATED"
             /\ \A t \in DOMAIN loader.found.rows \ {s} :
                   loader.found.rows[t].epic # loader.found.rows[s].epic
      PROVE  \E m \in Unlocked : m.symbol = s
    BY <1>1, EveryMarketIsUnlocked
<1>2. HandoffIInv /\ [HandoffNext]_handoffVars =>
          [Returns /\ loader.kind = "tournament" /\ deaths = 0 /\ ~overlapped /\ ~disturbed =>
              \A s \in DOMAIN loader.found.rows :
                  /\ loader.found.rows[s].status = "BROKER_VALIDATED"
                  /\ \A t \in DOMAIN loader.found.rows \ {s} :
                        loader.found.rows[t].epic # loader.found.rows[s].epic
                  => \E m \in Unlocked : m.symbol = s]_handoffVars
    BY <1>1
<1>3. QED
    BY <1>2, HandoffInvariant, PTL DEF HandoffSpec, HandoffIsComplete

=============================================================================
