--------------------------- MODULE ShadowRuntime ---------------------------
(***************************************************************************)
(* The shadow runtime: shadow_runtime.py, the execution core it calls      *)
(* (shadow_execution.py) and the PostgreSQL store (shadow_postgres_store). *)
(*                                                                         *)
(* Several runtimes work at once, on one coordinator (threads of a leader) *)
(* or on several (replicas, one of them perhaps superseded).  Intents are  *)
(* rows written under the execution lease; the evidence ledger is durable  *)
(* and shared but is NOT fenced and NOT part of the intent's transaction.  *)
(* A step of this module is one call on the store or on the ledger: what a *)
(* runtime read may be stale when it acts on it.                           *)
(*                                                                         *)
(* Prices are abstract: an intent has one Level, standing for its entry,   *)
(* stop and target.  Any call may raise, which ends the operation (Fail);  *)
(* a write the code would refuse simply cannot happen, only Fail can.      *)
(***************************************************************************)
EXTENDS Naturals

CONSTANTS
    Runtime,        \* ShadowRuntime objects
    Coordinator,    \* execution lease coordinators (one per replica)
    Home,           \* Runtime -> Coordinator
    Instrument,
    NoInstrument,
    Level,          \* what the quote makes of entry, stop and target
    NoLevel,
    Warmup,         \* FrozenV1Config.warmup_candles
    MaxMinute       \* bound: minutes, hence global cycles

ASSUME RuntimeAssumption == Home \in [Runtime -> Coordinator]
ASSUME InstrumentAssumption ==
    NoInstrument \notin Instrument /\ NoLevel \notin Level
ASSUME MinuteAssumption == Warmup \in Nat \ {0} /\ MaxMinute \in Nat

VARIABLES
    minute,     \* finalized minutes so far
    auth,       \* each coordinator's standing
    candles,    \* FinalizedCandleBuffer of each runtime and instrument
    op,         \* the operation each runtime is inside
    book,       \* trade_intents and shadow_position_state, per cycle
    evidence    \* ShadowEvidenceStore.records, per cycle and instrument

vars == <<minute, auth, candles, op, book, evidence>>

Cycle == 1..MaxMinute

\* A "stale" coordinator believes in a lease that another one took over.
Standing == {"standby", "leader", "stale"}

Lifecycle == {"SHADOW_INTENT_CREATED", "OPEN", "CLOSED", "RECONCILED"}
Stage(life) ==
    CASE life = "none" -> 0
      [] life = "SHADOW_INTENT_CREATED" -> 1
      [] life = "OPEN" -> 2
      [] life = "CLOSED" -> 3
      [] life = "RECONCILED" -> 4
NextStage(life) == {l \in Lifecycle : Stage(l) = Stage(life) + 1}

\* S0_WAIT stands for every verdict that a full window, the quote and the
\* account decide: no signal, stale window, spread, stop, daily loss, size.
Verdict == {"CANDLE_GAP_WARMUP_RESET", "WARMUP_INCOMPLETE", "S0_WAIT",
            "TOTAL_POSITION_LIMIT", "GLOBAL_CYCLE_ALREADY_CLAIMED"}
Intent == "SHADOW_INTENT_CREATED"

NoIntent == [instrument |-> NoInstrument, level |-> NoLevel, life |-> "none"]
Record == [instrument : Instrument, level : Level, life : Lifecycle]

NoEvidence == [code |-> "none", level |-> NoLevel, life |-> "none"]
Evidence == [code : Verdict, level : {NoLevel}, life : {"none"}]
                \union [code : {Intent}, level : Level, life : Lifecycle]

Idle == [step |-> "idle", cycle |-> 0, instrument |-> NoInstrument,
         level |-> NoLevel, life |-> "none", code |-> "none"]
\* A candidate for an intent, one turned down, and one with an intent.
Candidate == [step : {"count", "check", "create"}, cycle : Cycle,
              instrument : Instrument, level : Level, life : {"none"},
              code : {"none"}]
TurnedDown == [step : {"verdict"}, cycle : Cycle, instrument : Instrument,
               level : Level \union {NoLevel}, life : {"none"},
               code : Verdict]
Settled == [step : {"record", "mutate", "lifecycle"}, cycle : Cycle,
            instrument : Instrument, level : Level, life : Lifecycle,
            code : {"none"}]
Operation == Candidate \union TurnedDown \union Settled

Window == [last : 0..MaxMinute, length : 0..Warmup]
NoCandles == [last |-> 0, length |-> 0]

TypeOK ==
    /\ minute \in 0..MaxMinute
    /\ auth \in [Coordinator -> Standing]
    /\ candles \in [Runtime -> [Instrument -> Window]]
    /\ op \in [Runtime -> Operation \union {Idle}]
    /\ book \in [Cycle -> Record \union {NoIntent}]
    /\ evidence \in [Cycle -> [Instrument -> Evidence \union {NoEvidence}]]

Init ==
    /\ minute = 0
    /\ auth = [h \in Coordinator |-> "standby"]
    /\ candles = [r \in Runtime |-> [i \in Instrument |-> NoCandles]]
    /\ op = [r \in Runtime |-> Idle]
    /\ book = [c \in Cycle |-> NoIntent]
    /\ evidence = [c \in Cycle |-> [i \in Instrument |-> NoEvidence]]

-----------------------------------------------------------------------------
(* The lease as this module sees it: ExecutionLease proves that a fenced   *)
(* write takes effect only under the current generation.                   *)

Authorized(r) == auth[Home[r]] # "standby"
Fenced(r) == auth[Home[r]] = "leader"
Demoted(r) == [auth EXCEPT ![Home[r]] = "standby"]

Acquire(h) ==
    /\ auth[h] # "leader"
    /\ auth' = [x \in Coordinator |->
                    IF x = h THEN "leader"
                    ELSE IF auth[x] = "leader" THEN "stale" ELSE auth[x]]
    /\ UNCHANGED <<minute, candles, op, book, evidence>>

Demote(h) ==
    /\ auth[h] # "standby"
    /\ auth' = [auth EXCEPT ![h] = "standby"]
    /\ UNCHANGED <<minute, candles, op, book, evidence>>

-----------------------------------------------------------------------------
(* The evidence ledger. *)

Slot(r) == evidence[op[r].cycle][op[r].instrument]

IntentEvidence(level, life) ==
    [code |-> Intent, level |-> level, life |-> life]

\* Mutant: only the lifecycle of the old and the new entry is compared.
AcceptsLifecycle(slot, e) ==
    slot = NoEvidence \/ slot.life = e.life \/ e.life \in NextStage(slot.life)

\* Would the ledger take entry e over what the slot holds?
Accepts(slot, e) ==
    \/ slot = NoEvidence
    \/ /\ slot.code = e.code
       /\ slot.level = e.level
       /\ slot.life = e.life \/ e.life \in NextStage(slot.life)

Write(r, e) ==
    evidence' = [evidence EXCEPT ![op[r].cycle][op[r].instrument] = e]

-----------------------------------------------------------------------------
(* Where an operation stands. *)

At(r, step) == op[r].step = step
GoTo(r, step) == op' = [op EXCEPT ![r].step = step]
Finish(r) == op' = [op EXCEPT ![r] = Idle]
Conclude(r, code) ==
    op' = [op EXCEPT ![r].step = "verdict", ![r].code = code,
                     ![r].level = NoLevel]
Proceed(r, step, life) ==
    op' = [op EXCEPT ![r].step = step, ![r].life = life]

-----------------------------------------------------------------------------
(* evaluate_cycle. *)

\* FinalizedCandleBuffer.append: no gap is ever filled.
IsGap(r, i, c) == candles[r][i].length > 0 /\ c # candles[r][i].last + 1
LengthWith(r, i, c) ==
    IF IsGap(r, i, c) THEN 1
    ELSE IF candles[r][i].length < Warmup THEN candles[r][i].length + 1
    ELSE Warmup
AppendCandle(r, i, c) ==
    /\ c <= minute
    /\ c > candles[r][i].last
    /\ candles' = [candles EXCEPT ![r][i] =
                        [last |-> c, length |-> LengthWith(r, i, c)]]

CandleVerdict(r, i, c) ==
    IF IsGap(r, i, c) THEN "CANDLE_GAP_WARMUP_RESET"
    ELSE IF LengthWith(r, i, c) < Warmup THEN "WARMUP_INCOMPLETE"
    ELSE "S0_WAIT"

VerdictEvidence(code) == [code |-> code, level |-> NoLevel, life |-> "none"]

\* No signal.  A replay of the warm-up leaves the evidence of an intent
\* alone; any other conflict raises, with the candle in the buffer.
EvaluateWithoutSignal(r, i, c) ==
    /\ At(r, "idle")
    /\ AppendCandle(r, i, c)
    /\ LET e == VerdictEvidence(CandleVerdict(r, i, c))
       IN  \/ /\ Accepts(evidence[c][i], e)
              /\ evidence' = [evidence EXCEPT ![c][i] = e]
           \/ UNCHANGED evidence
    /\ UNCHANGED <<minute, auth, op, book>>

\* A signal needs a full window that ends at most 90 seconds before the
\* quote.  Then store.get: the cycle may be claimed already, by the same
\* instrument (whose terms must agree) or by another.
EvaluateSignal(r, i, c, level) ==
    /\ At(r, "idle")
    /\ AppendCandle(r, i, c)
    /\ ~IsGap(r, i, c) /\ LengthWith(r, i, c) = Warmup
    /\ c + 1 >= minute
    /\ LET Begin(step, life, code) ==
               op' = [op EXCEPT ![r] =
                        [step |-> step, cycle |-> c, instrument |-> i,
                         level |-> level, life |-> life, code |-> code]]
       IN  \/ book[c] = NoIntent /\ Begin("count", "none", "none")
           \/ /\ book[c].instrument \in Instrument \ {i}
              /\ Begin("verdict", "none", "GLOBAL_CYCLE_ALREADY_CLAIMED")
           \/ /\ book[c].instrument = i /\ book[c].level = level
              /\ Begin("record", book[c].life, "none")
           \/ /\ book[c].instrument = i /\ book[c].level # level
              /\ UNCHANGED op
    /\ UNCHANGED <<minute, auth, book, evidence>>

\* The verdict of a signal that was turned down after the store was read.
RecordVerdict(r) ==
    /\ At(r, "verdict")
    /\ Accepts(Slot(r), VerdictEvidence(op[r].code))
    /\ Write(r, VerdictEvidence(op[r].code))
    /\ Finish(r)
    /\ UNCHANGED <<minute, auth, candles, book>>

SameTerms(r) ==
    /\ book[op[r].cycle].instrument = op[r].instrument
    /\ book[op[r].cycle].level = op[r].level

Unresolved(c) == book[c].life \in {"SHADOW_INTENT_CREATED", "OPEN"}

\* active_position_count, then the portfolio policy: one position in total.
CountPositions(r) ==
    /\ At(r, "count")
    /\ IF \E c \in Cycle : Unresolved(c)
       THEN Conclude(r, "TOTAL_POSITION_LIMIT")
       ELSE GoTo(r, "check") \/ Conclude(r, "S0_WAIT")
    /\ UNCHANGED <<minute, auth, candles, book, evidence>>

CheckAvailable(r) ==
    /\ At(r, "check")
    /\ Accepts(Slot(r), IntentEvidence(op[r].level, "SHADOW_INTENT_CREATED"))
    /\ GoTo(r, "create")
    /\ UNCHANGED <<minute, auth, candles, book, evidence>>

\* Mutant: an intent that exists is adopted whatever its terms.
AdoptAnyIntent(r) ==
    /\ At(r, "create")
    /\ Authorized(r)
    /\ book[op[r].cycle].instrument = op[r].instrument
    /\ Proceed(r, "record", book[op[r].cycle].life)
    /\ UNCHANGED <<minute, auth, candles, book, evidence>>

\* create_intent finds its own intent: put there by another runtime.
AdoptIntent(r) ==
    /\ At(r, "create")
    /\ Authorized(r)
    /\ SameTerms(r)
    /\ Proceed(r, "record", book[op[r].cycle].life)
    /\ UNCHANGED <<minute, auth, candles, book, evidence>>

\* Mutant: the insert trusts the position count that was read earlier.
PutUnchecked(r) ==
    /\ At(r, "create")
    /\ Fenced(r)
    /\ book[op[r].cycle] = NoIntent
    /\ book' = [book EXCEPT ![op[r].cycle] =
                    [instrument |-> op[r].instrument, level |-> op[r].level,
                     life |-> "SHADOW_INTENT_CREATED"]]
    /\ Proceed(r, "record", "SHADOW_INTENT_CREATED")
    /\ UNCHANGED <<minute, auth, candles, evidence>>

\* The fenced insert.  Its commit may be acknowledged or in doubt; in doubt,
\* the coordinator demotes itself and the evaluation raises.
PutIntent(r) ==
    /\ At(r, "create")
    /\ Fenced(r)
    /\ \A c \in Cycle : ~Unresolved(c)
    /\ book[op[r].cycle] = NoIntent
    /\ book' = [book EXCEPT ![op[r].cycle] =
                    [instrument |-> op[r].instrument, level |-> op[r].level,
                     life |-> "SHADOW_INTENT_CREATED"]]
    /\ \/ Proceed(r, "record", "SHADOW_INTENT_CREATED") /\ UNCHANGED auth
       \/ Finish(r) /\ auth' = Demoted(r)
    /\ UNCHANGED <<minute, candles, evidence>>

\* Not authorized, fenced off, blocked by an unresolved intent, or in
\* conflict: the runtime looks whether another instrument has the cycle.
CreateRejected(r) ==
    /\ At(r, "create")
    /\ \/ ~Authorized(r) /\ UNCHANGED auth
       \/ Authorized(r) /\ ~Fenced(r) /\ auth' = Demoted(r)
       \/ /\ Fenced(r) /\ UNCHANGED auth
          /\ \/ book[op[r].cycle] # NoIntent /\ ~SameTerms(r)
             \/ \E c \in Cycle : Unresolved(c) /\ c # op[r].cycle
    /\ IF book[op[r].cycle].instrument \in Instrument \ {op[r].instrument}
       THEN Conclude(r, "GLOBAL_CYCLE_ALREADY_CLAIMED")
       ELSE Finish(r)
    /\ UNCHANGED <<minute, candles, book, evidence>>

\* by_intent, then record: evidence that is there is written again unchanged.
RecordIntent(r) ==
    /\ At(r, "record")
    /\ IF Slot(r).code = Intent
       THEN UNCHANGED evidence
       ELSE LET e == IntentEvidence(op[r].level, op[r].life)
            IN  Accepts(Slot(r), e) /\ Write(r, e)
    /\ Finish(r)
    /\ UNCHANGED <<minute, auth, candles, book>>

-----------------------------------------------------------------------------
(* advance. *)

\* Mutant: an intent advances without its evidence.
AdvanceUnevidenced(r, c) ==
    /\ At(r, "idle")
    /\ book[c] # NoIntent
    /\ op' = [op EXCEPT ![r] =
                [step |-> "mutate", cycle |-> c,
                 instrument |-> book[c].instrument, level |-> book[c].level,
                 life |-> book[c].life, code |-> "none"]]
    /\ UNCHANGED <<minute, auth, candles, book, evidence>>

\* The intent and its evidence are read and the evidence is written back
\* unchanged; without evidence, or if it has moved on meanwhile, this raises.
BeginAdvance(r, c) ==
    /\ At(r, "idle")
    /\ book[c] # NoIntent
    /\ evidence[c][book[c].instrument].code = Intent
    /\ op' = [op EXCEPT ![r] =
                [step |-> "mutate", cycle |-> c,
                 instrument |-> book[c].instrument, level |-> book[c].level,
                 life |-> book[c].life, code |-> "none"]]
    /\ UNCHANGED <<minute, auth, candles, book, evidence>>

\* Mutant: the update does not compare the stored lifecycle.
TransitionBlindly(r) ==
    /\ At(r, "mutate")
    /\ Fenced(r)
    /\ \E life \in NextStage(op[r].life) :
        /\ book' = [book EXCEPT ![op[r].cycle].life = life]
        /\ Proceed(r, "lifecycle", life)
    /\ UNCHANGED <<minute, auth, candles, evidence>>

\* open_intent, close_on_quote at an exit, reconcile: one fenced transition.
Transition(r) ==
    /\ At(r, "mutate")
    /\ Fenced(r)
    /\ book[op[r].cycle].life = op[r].life
    /\ \E life \in NextStage(op[r].life) :
        /\ book' = [book EXCEPT ![op[r].cycle].life = life]
        /\ \/ Proceed(r, "lifecycle", life) /\ UNCHANGED auth
           \/ Finish(r) /\ auth' = Demoted(r)
    /\ UNCHANGED <<minute, candles, evidence>>

\* The quote does not exit an open position, or there is nothing left to do.
KeepLifecycle(r) ==
    /\ At(r, "mutate")
    /\ \/ op[r].life = "OPEN" /\ Authorized(r)
       \/ op[r].life = "RECONCILED"
    /\ GoTo(r, "lifecycle")
    /\ UNCHANGED <<minute, auth, candles, book, evidence>>

TransitionRejected(r) ==
    /\ At(r, "mutate")
    /\ op[r].life # "RECONCILED"
    /\ \/ ~Authorized(r) /\ UNCHANGED auth
       \/ Authorized(r) /\ ~Fenced(r) /\ auth' = Demoted(r)
       \/ Fenced(r) /\ book[op[r].cycle].life # op[r].life /\ UNCHANGED auth
    /\ Finish(r)
    /\ UNCHANGED <<minute, candles, book, evidence>>

RecordLifecycle(r) ==
    /\ At(r, "lifecycle")
    /\ LET e == IntentEvidence(op[r].level, op[r].life)
       IN  Accepts(Slot(r), e) /\ Write(r, e)
    /\ Finish(r)
    /\ UNCHANGED <<minute, auth, candles, book>>

-----------------------------------------------------------------------------
(* Failures and time. *)

Fail(r) ==
    /\ ~At(r, "idle")
    /\ Finish(r)
    /\ UNCHANGED <<minute, auth, candles, book, evidence>>

\* The replica restarts: what its runtimes held in memory is gone.
Crash(h) ==
    /\ auth' = [auth EXCEPT ![h] = "standby"]
    /\ op' = [r \in Runtime |-> IF Home[r] = h THEN Idle ELSE op[r]]
    /\ candles' = [r \in Runtime |->
                    IF Home[r] = h THEN [i \in Instrument |-> NoCandles]
                    ELSE candles[r]]
    /\ UNCHANGED <<minute, book, evidence>>

FinalizeMinute ==
    /\ minute < MaxMinute
    /\ minute' = minute + 1
    /\ UNCHANGED <<auth, candles, op, book, evidence>>

Evaluate(r) ==
    \/ \E i \in Instrument, c \in Cycle :
        \/ EvaluateWithoutSignal(r, i, c)
        \/ \E level \in Level : EvaluateSignal(r, i, c, level)
    \/ RecordVerdict(r) \/ CountPositions(r)
    \/ CheckAvailable(r) \/ AdoptIntent(r) \/ PutIntent(r)
    \/ CreateRejected(r) \/ RecordIntent(r)

Advance(r) ==
    \/ \E c \in Cycle : BeginAdvance(r, c)
    \/ Transition(r) \/ KeepLifecycle(r)
    \/ TransitionRejected(r) \/ RecordLifecycle(r)

Next ==
    \/ \E r \in Runtime : Evaluate(r) \/ Advance(r) \/ Fail(r)
    \/ \E h \in Coordinator : Acquire(h) \/ Demote(h) \/ Crash(h)
    \/ FinalizeMinute

Spec == Init /\ [][Next]_vars

-----------------------------------------------------------------------------
(* Safety. *)

\* However evaluations of several runtimes, instruments and cycles
\* interleave, and whoever is superseded or crashes meanwhile, at most one
\* hypothetical position is unresolved.
OneUnresolvedIntent ==
    \A c, d \in Cycle : Unresolved(c) /\ Unresolved(d) => c = d

\* The evidence of an intent names a durable intent of that instrument with
\* those levels, and never runs ahead of its durable lifecycle, although the
\* two are written by separate calls of runtimes that may be superseded.
EvidenceFollowsBook ==
    \A c \in Cycle, i \in Instrument :
        evidence[c][i].code = Intent =>
            /\ book[c].instrument = i
            /\ book[c].level = evidence[c][i].level
            /\ Stage(evidence[c][i].life) <= Stage(book[c].life)

\* No position is ever opened, closed or reconciled without evidence of its
\* intent: a crash after the intent was put leaves it unopened.
PositionIsEvidenced ==
    \A c \in Cycle :
        Stage(book[c].life) > 1 =>
            evidence[c][book[c].instrument].code = Intent

\* What an operation holds of the intent it is about to write to the ledger
\* stays true while other runtimes, superseded or not, move that intent on.
OperationFollowsBook ==
    \A r \in Runtime :
        /\ op[r].step \in {"record", "mutate", "lifecycle"} =>
            /\ SameTerms(r)
            /\ Stage(op[r].life) \in 1..Stage(book[op[r].cycle].life)
        /\ op[r].step \in {"mutate", "lifecycle"} => Slot(r).code = Intent

\* The inductive invariant: the last conjunct is what the others need.
IInv ==
    /\ TypeOK
    /\ OneUnresolvedIntent
    /\ EvidenceFollowsBook
    /\ PositionIsEvidenced
    /\ OperationFollowsBook

\* What the ledger has said of an instrument in a cycle stays: no restart,
\* replay or late verdict replaces it, an intent's lifecycle moves one step
\* at a time and never back.
EvidenceIsPermanent ==
    [][\A c \in Cycle, i \in Instrument : evidence[c][i] # NoEvidence =>
            /\ evidence'[c][i].code = evidence[c][i].code
            /\ evidence'[c][i].level = evidence[c][i].level
            /\ \/ evidence'[c][i].life = evidence[c][i].life
               \/ evidence'[c][i].life \in NextStage(evidence[c][i].life)]_vars

\* The runtime implements the position book.
Published(c) ==
    IF book[c] # NoIntent /\ evidence[c][book[c].instrument].code = Intent
    THEN Stage(evidence[c][book[c].instrument].life) ELSE 0
TermsOf(c) == [instrument |-> book[c].instrument, level |-> book[c].level]
Book == INSTANCE PositionBook WITH
    Terms <- [instrument : Instrument, level : Level],
    NoTerms <- [instrument |-> NoInstrument, level |-> NoLevel],
    terms <- [c \in Cycle |-> TermsOf(c)],
    stage <- [c \in Cycle |-> Stage(book[c].life)],
    published <- [c \in Cycle |-> Published(c)]
ImplementsPositionBook == Book!BookSpec

=============================================================================
