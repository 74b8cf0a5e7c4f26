----------------------------- MODULE Tournament -----------------------------
(***************************************************************************)
(* The Shadow01 tournament: the append-only store (shadow01/storage.py)    *)
(* and the monitors and probes that fill it (shadow01/runtime.py).         *)
(*                                                                         *)
(* Several processes share one database and one stop marker; each may die  *)
(* at any step.  At its first write each runs the schema script, which     *)
(* drops every trigger and creates it again, one commit per statement.  Of *)
(* the triggers only the one on inserts into epoch_readiness asks what no  *)
(* statement of the store asks under its own lock.                         *)
(*                                                                         *)
(* Time is counted in three parts of a New York day: before the day's 17:10*)
(* anchor, within its grace of one second, and after it.  The session of   *)
(* day d is complete at the anchor of d.                                   *)
(***************************************************************************)
EXTENDS Integers, FiniteSets

CONSTANTS
    Runtimes,       \* processes that run the commands monitor and probe
    MarketCount,    \* markets the registry proves, observed in this order
    Days,           \* bound: days, the last anchor is that of day Days
    MaxRows,        \* bound: rows that are appended one by one
    Horizons        \* OUTCOME_HORIZONS

ASSUME TournamentAssumption ==
    /\ MarketCount \in Nat \ {0}
    /\ Days \in Nat \ {0}
    /\ MaxRows \in Nat
    /\ Horizons \subseteq Nat \ {0}

VARIABLES
    clock,      \* 0, 1, 2 on the first day, 3, 4, 5 on the second, ...
    stop,       \* the stop marker is on disk
    guarded,    \* the insert trigger of epoch_readiness exists
    whole,      \* history: no script that was cut short has left that trigger missing
                \* since one created it; FALSE before the first
    epoch,      \* epoch_utc of the version's run, as a day; 0 is NULL
    probes,     \* days of a HEALTHY universal probe in provider_health
    readiness,  \* days of the rows of epoch_readiness
    rows,       \* per market and day, the observation's rows with their writer
    long,       \* observations with a directional decision
    labels,     \* outcome_labels, with the session whose close they carry
    run         \* per process: what its memory holds

schema == <<guarded, whole>>
evidence == <<epoch, probes, readiness, rows, long, labels>>
vars == <<clock, stop, schema, evidence, run>>

Markets == 1 .. MarketCount
Day == 1 .. Days
At(d) == 3 * (d - 1) + 1
LastAnchor(t) == (t + 2) \div 3
Today(t) == t \div 3 + 1

\* One snapshot, the engines' rows and the policies' rows of a market and day.
Parts == {"snapshot", "insights", "decisions"}
Whole(writer) == {[part |-> p, by |-> writer] : p \in Parts}

State(m, d) ==
    IF rows[<<m, d>>] = {} THEN "ABSENT"
    ELSE IF {r.part : r \in rows[<<m, d>>]} = Parts THEN "COMPLETE" ELSE "PARTIAL"

Label == [market : Markets, day : Day, horizon : Horizons, session : Nat]

Idle == [pc |-> "off", last |-> 0, scheduled |-> 0, anchor |-> 0, timely |-> FALSE,
         market |-> 0, due |-> {}]

\* The last anchor handled, the one waited for, the cycle's anchor and whether it was
\* entered in time, the market it is at and the labels it still has to write.
Memory ==
    [pc : {"off", "monitor", "cycle", "market", "read", "label", "append", "probe",
           "healthy", "ready", "opening", "gate"},
     last : 0 .. Days, scheduled : 0 .. Days + 1, anchor : 0 .. Days,
     timely : BOOLEAN, market : 0 .. MarketCount, due : SUBSET Label]

TypeOK ==
    /\ clock \in 0 .. 3 * Days - 1
    /\ stop \in BOOLEAN
    /\ guarded \in BOOLEAN
    /\ whole \in BOOLEAN
    /\ epoch \in 0 .. Days
    /\ probes \subseteq Day
    /\ readiness \subseteq Day
    /\ rows \in [Markets \X Day -> SUBSET [part : Parts, by : {"bundle", "row"}]]
    /\ long \subseteq Markets \X Day
    /\ labels \subseteq Label
    /\ run \in [Runtimes -> Memory]

Init ==
    /\ clock = 0
    /\ stop = FALSE
    /\ guarded = FALSE
    /\ whole = FALSE
    /\ epoch = 0
    /\ probes = {}
    /\ readiness = {}
    /\ rows = [o \in Markets \X Day |-> {}]
    /\ long = {}
    /\ labels = {}
    /\ run = [p \in Runtimes |-> Idle]

Update(p, with) == run' = [run EXCEPT ![p] = with]
Go(p, pc) == Update(p, [run[p] EXCEPT !.pc = pc])
Return(p) == Update(p, Idle)

-----------------------------------------------------------------------------
(* The schema script.  What it does to the others is the same whoever runs *)
(* it, so it is the run of a process of its own, at any time: the one of a *)
(* probe or a monitor at its first write, of a gate, or of a command that  *)
(* writes nothing else.  Where it fails, the write that called for it is   *)
(* not made.                                                               *)

\* initialize(): the DROP of the insert trigger.
OpenStore(p) ==
    /\ run[p].pc = "off"
    /\ guarded' = FALSE
    /\ Go(p, "opening")
    /\ UNCHANGED <<clock, stop, whole, evidence>>

\* Its CREATE, which refuses a trigger that is there.
CreateTriggers(p) ==
    /\ run[p].pc = "opening"
    /\ ~guarded
    /\ guarded' = TRUE
    /\ whole' = TRUE
    /\ Go(p, "gate") \/ Return(p)
    /\ UNCHANGED <<clock, stop, evidence>>

\* It ends at a statement before or after that one: another process has created a
\* trigger meanwhile, or holds the database.
CutShort(p) ==
    /\ run[p].pc = "opening"
    /\ guarded' \in {guarded, TRUE}
    /\ whole' = guarded'
    /\ Return(p)
    /\ UNCHANGED <<clock, stop, evidence>>

-----------------------------------------------------------------------------
(* Before the epoch: the probe, its evidence and the human gate.           *)

\* The command probe at an anchor; with an epoch it is skipped.
BeginProbe(p) ==
    /\ run[p].pc = "off"
    /\ clock = At(Today(clock))
    /\ epoch = 0
    /\ Update(p, [Idle EXCEPT !.pc = "probe", !.anchor = Today(clock)])
    /\ UNCHANGED <<clock, stop, schema, evidence>>

\* The clocks of three asset classes and a snapshot of every market are read; the
\* HEALTHY row is committed on its own, and a probe that could not write it goes on.
ProbeReads(p) ==
    /\ run[p].pc = "probe"
    /\ \/ probes' \in {probes, probes \union {run[p].anchor}} /\ Go(p, "healthy")
       \/ Return(p) /\ UNCHANGED probes
    /\ UNCHANGED <<clock, stop, schema, epoch, readiness, rows, long, labels>>

\* record_epoch_readiness reads before its transaction begins.
CheckReadiness(p) ==
    /\ run[p].pc = "healthy"
    /\ IF epoch = 0 /\ run[p].anchor \in probes THEN Go(p, "ready") ELSE Return(p)
    /\ UNCHANGED <<clock, stop, schema, evidence>>

\* Mutant: no trigger looks at the epoch again.
InsertUnguarded(p) ==
    /\ run[p].pc = "ready"
    /\ readiness' = readiness \union {run[p].anchor}
    /\ Return(p)
    /\ UNCHANGED <<clock, stop, schema, epoch, probes, rows, long, labels>>

\* Only the trigger, where there is one, looks at the epoch again.
InsertReadiness(p) ==
    /\ run[p].pc = "ready"
    /\ readiness' = IF epoch # 0 /\ guarded THEN readiness ELSE readiness \union {run[p].anchor}
    /\ Return(p)
    /\ UNCHANGED <<clock, stop, schema, epoch, probes, rows, long, labels>>

\* Mutant: readiness after the epoch counts too.
HasAnyReadiness(d) == \E r \in readiness : r \in probes

HasReadiness(d) == \E r \in readiness : r <= d /\ r \in probes

\* A human names any anchor as the epoch, past ones included; refused if there is one
\* or no readiness for it.
CreateEpoch(p, d) ==
    /\ run[p].pc = "gate"
    /\ epoch' = IF epoch = 0 /\ HasReadiness(d) THEN d ELSE epoch
    /\ Return(p)
    /\ UNCHANGED <<clock, stop, schema, probes, readiness, rows, long, labels>>

-----------------------------------------------------------------------------
(* Rows.                                                                   *)

ByRow == {x \in Markets \X Day \X [part : Parts, by : {"row"}] : x[3] \in rows[<<x[1], x[2]>>]}

\* append_snapshot, append_engine_insight and append_decision, one commit each.
AppendRow(m, d, part) ==
    /\ epoch # 0
    /\ epoch <= d
    /\ part \notin {r.part : r \in rows[<<m, d>>]}
    /\ Cardinality(ByRow) < MaxRows
    /\ rows' = [rows EXCEPT ![<<m, d>>] = @ \union {[part |-> part, by |-> "row"]}]
    /\ \/ part = "decisions" /\ long' = long \union {<<m, d>>}
       \/ UNCHANGED long
    /\ UNCHANGED <<clock, stop, schema, epoch, probes, readiness, labels, run>>

\* Mutant: what is missing is inserted beside what is there.
AppendMissing(m, d) ==
    IF epoch # 0 /\ epoch <= d /\ State(m, d) # "COMPLETE"
    THEN /\ rows' = [rows EXCEPT ![<<m, d>>] = @ \union
               {r \in Whole("bundle") : r.part \notin {o.part : o \in rows[<<m, d>>]}}]
         /\ long' \in {long, long \union {<<m, d>>}}
    ELSE UNCHANGED <<rows, long>>

\* The transaction of append_market_observation; what it finds under the lock
\* decides, not what the monitor saw.
AppendBundle(m, d) ==
    IF epoch # 0 /\ epoch <= d /\ State(m, d) = "ABSENT"
    THEN /\ rows' = [rows EXCEPT ![<<m, d>>] = Whole("bundle")]
         /\ long' \in {long, long \union {<<m, d>>}}
    ELSE UNCHANGED <<rows, long>>

\* append_outcome: one label per decision and horizon, for directional ones.
Unlabelled(l) ==
    \A k \in labels : <<k.market, k.day, k.horizon>> # <<l.market, l.day, l.horizon>>

\* The close of the h-th usable bar after the decision: a row of the history that
\* cannot be used is skipped, so it may be of a later session than the h-th.
HorizonClose(d, h, bars) ==
    {s \in bars : s > d /\ Cardinality({t \in bars : d < t /\ t <= s}) = h}

\* Mutant: a horizon that is not reached gets the last bar there is.
ResolvedProvisionally(m, bars) ==
    {l \in [market : {m}, day : Day, horizon : Horizons, session : bars] :
        /\ <<m, l.day>> \in long
        /\ Unlabelled(l)
        /\ l.session \in HorizonClose(l.day, l.horizon, bars)
              \/ /\ HorizonClose(l.day, l.horizon, bars) = {}
                 /\ \A s \in bars : s <= l.session}

\* pending_outcome_bases and the labels its history resolves; the horizons it does
\* not reach yet stay without one.
Resolved(m, bars) ==
    {l \in [market : {m}, day : Day, horizon : Horizons, session : bars] :
        /\ <<m, l.day>> \in long
        /\ Unlabelled(l)
        /\ l.session \in HorizonClose(l.day, l.horizon, bars)}

-----------------------------------------------------------------------------
(* The monitor.                                                            *)

\* status() is the preflight: no marker, and an epoch.
StartMonitor(p) ==
    /\ run[p].pc = "off"
    /\ ~stop
    /\ epoch # 0
    /\ Update(p, [Idle EXCEPT !.pc = "monitor"])
    /\ UNCHANGED <<clock, stop, schema, evidence>>

\* The anchor the loop is about: today's if it has come and was not handled, else
\* the next one.
Target(p) ==
    LET r == run[p] IN
    IF r.scheduled # 0 THEN r.scheduled
    ELSE IF LastAnchor(clock) = Today(clock) /\ LastAnchor(clock) # r.last
         THEN LastAnchor(clock)
         ELSE LET next == IF clock <= At(Today(clock)) THEN Today(clock) ELSE Today(clock) + 1
              IN IF next <= r.last THEN r.last + 1 ELSE next

FullyRecorded(d) == \A m \in Markets : State(m, d) = "COMPLETE"

EnterCycle(p, d, timely) ==
    Update(p, [run[p] EXCEPT !.pc = "cycle", !.scheduled = 0, !.anchor = d, !.timely = timely])

\* Mutant: the schedule is not cleared and the anchor not kept.
HandledNotKept(p, d) == [run[p] EXCEPT !.pc = "monitor"]

\* The anchor has been handled: recorded or reported missed.
Handled(p, d) == [run[p] EXCEPT !.pc = "monitor", !.scheduled = 0, !.last = d]

Sleep(p) ==
    /\ run[p].pc = "monitor" /\ ~stop
    /\ clock < At(Target(p))
    /\ Update(p, [run[p] EXCEPT !.scheduled = Target(p)])
    /\ UNCHANGED <<clock, stop, schema, evidence>>

Observe(p) ==
    /\ run[p].pc = "monitor" /\ ~stop
    /\ clock = At(Target(p))
    /\ EnterCycle(p, Target(p), TRUE)
    /\ UNCHANGED <<clock, stop, schema, evidence>>

\* Mutant: a late wake runs the cycle like any other.
WakeLateAnyway(p) ==
    /\ run[p].pc = "monitor" /\ ~stop
    /\ clock > At(Target(p))
    /\ EnterCycle(p, Target(p), FALSE)
    /\ UNCHANGED <<clock, stop, schema, evidence>>

\* Woken late: only what is recorded in full is looked at again.
WakeLate(p) ==
    /\ run[p].pc = "monitor" /\ ~stop
    /\ clock > At(Target(p))
    /\ IF FullyRecorded(Target(p)) THEN EnterCycle(p, Target(p), FALSE)
       ELSE Update(p, Handled(p, Target(p)))
    /\ UNCHANGED <<clock, stop, schema, evidence>>

SeeStop(p) ==
    /\ run[p].pc = "monitor" /\ stop
    /\ Return(p)
    /\ UNCHANGED <<clock, stop, schema, evidence>>

AfterCycle(p) ==
    [Handled(p, run[p].anchor) EXCEPT !.market = 0, !.anchor = 0,
                                             !.timely = FALSE, !.due = {}]

\* run_observation_cycle up to its loop.  A marker, an anchor before the epoch, or
\* a store, registry or provider that is not there end a timely monitor.
BeginCycle(p) ==
    /\ run[p].pc = "cycle"
    /\ \/ /\ ~stop /\ epoch # 0 /\ epoch <= run[p].anchor
          /\ Update(p, [run[p] EXCEPT !.pc = "market", !.market = 1])
       \/ IF run[p].timely THEN Return(p) ELSE Update(p, AfterCycle(p))
    /\ UNCHANGED <<clock, stop, schema, evidence>>

\* The loop's next market, or its end.
NextMarket(p) ==
    IF run[p].market < MarketCount
    THEN [run[p] EXCEPT !.pc = "market", !.market = @ + 1, !.due = {}]
    ELSE AfterCycle(p)

\* The preflight of _observe_market, before the provider is asked.
PreflightMarket(p) ==
    /\ run[p].pc = "market"
    /\ \/ State(run[p].market, run[p].anchor) = "ABSENT" /\ Go(p, "read")
       \/ State(run[p].market, run[p].anchor) # "ABSENT" /\ Update(p, NextMarket(p))
    /\ UNCHANGED <<clock, stop, schema, evidence>>

Labelling(p, due) ==
    [run[p] EXCEPT !.pc = IF due = {} THEN "append" ELSE "label", !.due = due]

\* A fresh quote, the metadata and a history (of the cache, or read and cached) of
\* sessions that were complete at the anchor; or one of them is missing.  The labels
\* that are due are collected last.
ReadMarket(p) ==
    /\ run[p].pc = "read"
    /\ \/ \E bars \in (SUBSET (1 .. run[p].anchor)) \ {{}} :
              Update(p, Labelling(p, Resolved(run[p].market, bars)))
       \/ Update(p, NextMarket(p))
    /\ UNCHANGED <<clock, stop, schema, evidence>>

\* Each label is a transaction of its own.  One that fails or is there already,
\* written by another monitor, ends this market's observation.
WriteLabel(p) ==
    /\ run[p].pc = "label"
    /\ \/ \E l \in run[p].due :
              /\ Unlabelled(l)
              /\ labels' = labels \union {l}
              /\ Update(p, Labelling(p, run[p].due \ {l}))
       \/ UNCHANGED labels /\ Update(p, NextMarket(p))
    /\ UNCHANGED <<clock, stop, schema, epoch, probes, readiness, rows, long>>

PersistMarket(p) ==
    /\ run[p].pc = "append"
    /\ AppendBundle(run[p].market, run[p].anchor) \/ UNCHANGED <<rows, long>>
    /\ Update(p, NextMarket(p))
    /\ UNCHANGED <<clock, stop, schema, epoch, probes, readiness, labels>>

MonitorSteps(p) ==
    \/ Sleep(p) \/ Observe(p) \/ WakeLate(p) \/ SeeStop(p) \/ BeginCycle(p)
    \/ PreflightMarket(p) \/ ReadMarket(p) \/ WriteLabel(p) \/ PersistMarket(p)

-----------------------------------------------------------------------------
(* The world around.                                                       *)

RequestStop ==
    /\ ~stop
    /\ stop' = TRUE
    /\ UNCHANGED <<clock, schema, evidence, run>>

\* The process dies, or the machine does.
Crash(p) ==
    /\ run[p].pc # "off"
    /\ whole' = IF run[p].pc = "opening" THEN guarded ELSE whole
    /\ Return(p)
    /\ UNCHANGED <<clock, stop, guarded, evidence>>

Tick ==
    /\ clock < 3 * Days - 1
    /\ clock' = clock + 1
    /\ UNCHANGED <<stop, schema, evidence, run>>

Next ==
    \/ \E p \in Runtimes :
           \/ OpenStore(p) \/ CreateTriggers(p) \/ CutShort(p)
           \/ BeginProbe(p) \/ ProbeReads(p) \/ CheckReadiness(p) \/ InsertReadiness(p)
           \/ \E d \in Day : CreateEpoch(p, d)
           \/ StartMonitor(p) \/ MonitorSteps(p) \/ Crash(p)
    \/ \E m \in Markets, d \in Day, part \in Parts : AppendRow(m, d, part)
    \/ RequestStop
    \/ Tick

Spec == Init /\ [][Next]_vars

\* The monitor is a loop on a thread of its own whose calls end, and time passes.
FairSpec ==
    /\ Spec
    /\ WF_clock(Tick)
    /\ \A p \in Runtimes : WF_run(MonitorSteps(p))

-----------------------------------------------------------------------------
(* Properties.                                                             *)

\* The rows of one market and anchor are the whole bundle of one observation, or
\* rows that were appended one by one: no observation is left in part by a death,
\* by two monitors on one anchor, or by rows that came in while it was read
\* (append_market_observation's transaction).
BundlesAreUnmixed ==
    \A m \in Markets, d \in Day :
        (\E r \in rows[<<m, d>>] : r.by = "bundle") => rows[<<m, d>>] = Whole("bundle")

\* Every observation is at or after the epoch, and the epoch at or after a
\* readiness row whose own universal probe was healthy: evidence is prospective
\* (create_epoch, append_market_observation and the monitor together).
EvidenceIsProspective ==
    \A m \in Markets, d \in Day :
        rows[<<m, d>>] # {} => /\ epoch \in 1 .. d
                           /\ \E r \in readiness \intersect probes : r <= epoch

\* A process is between the two statements of its script, or one that was cut short
\* there has left the trigger missing and no other has come to its end since.
Reopening == ~whole \/ \E p \in Runtimes : run[p].pc = "opening"

\* Once there is an epoch it stays, and nothing is added to the readiness it was
\* granted on, whatever a probe read before, unless the store is just being opened or
\* an opening was cut short (record_epoch_readiness, initialize, triggers).
EpochIsFinal ==
    [][epoch # 0 => epoch' = epoch /\ (readiness' = readiness \/ Reopening)]_<<epoch, readiness>>

\* Outcome labels are of directional decisions, one per decision and horizon though
\* monitors resolve it from different histories, and carry the close of a session
\* that lies at least the horizon behind the decision and was complete when the label
\* was written (pending_outcome_bases, resolve_outcomes, append_outcome).
LabelsAreCausal ==
    /\ \A l \in labels : /\ <<l.market, l.day>> \in long
                         /\ l.session >= l.day + l.horizon
                         /\ l.session <= LastAnchor(clock)
    /\ \A k, l \in labels :
           <<k.market, k.day, k.horizon>> = <<l.market, l.day, l.horizon>> => k = l

\* Only a cycle that was entered within the grace of its anchor asks the provider
\* for anything: a late restart looks at complete observations and at no other,
\* though others append rows meanwhile (monitor, _anchor_is_fully_recorded).
OnlyTimelyCyclesRead ==
    \A p \in Runtimes : run[p].pc \in {"read", "label", "append"} => run[p].timely

\* No observation of the past: there is an epoch before it, a verified readiness
\* before that, and nobody who came late for the anchor asks for quotes.
ObservationsAreProspective == EvidenceIsProspective /\ OnlyTimelyCyclesRead

\* A monitor that waits for an anchor comes back from it: it observes it, reports
\* it missed, or has ended.
AnchorIsAnswered ==
    \A p \in Runtimes, d \in Day :
        run[p].scheduled = d ~> run[p].last >= d \/ run[p].pc = "off"
=============================================================================
