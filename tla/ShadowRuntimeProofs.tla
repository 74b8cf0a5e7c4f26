------------------------ MODULE ShadowRuntimeProofs ------------------------
(***************************************************************************)
(* Proofs about ShadowRuntime for any number of runtimes, replicas,        *)
(* instruments, levels and minutes.  The order of the argument:            *)
(*                                                                         *)
(*   1. Every step keeps TypeOK.                                           *)
(*   2. Under IInv a step leaves book and evidence alone, writes one       *)
(*      acceptable entry to the evidence (Recording), puts an intent, or   *)
(*      moves the lifecycle of one that has evidence (Moving).             *)
(*   3. Each kind of step preserves the rest of IInv.                      *)
(*   4. Each kind of step is a step of PositionBook or a stutter, and      *)
(*      keeps what the evidence says.                                      *)
(***************************************************************************)
EXTENDS ShadowRuntime, TLAPS

\* The stages number the lifecycle, and the next stage is one higher.
LEMMA StageFacts ==
    /\ Stage("none") = 0
    /\ Stage("SHADOW_INTENT_CREATED") = 1
    /\ Stage("OPEN") = 2
    /\ Stage("CLOSED") = 3
    /\ Stage("RECONCILED") = 4
    /\ \A l \in Lifecycle : Stage(l) \in 1..4
    /\ \A l, k : k \in NextStage(l) => k \in Lifecycle /\ Stage(k) = Stage(l) + 1
<1>1. /\ Stage("none") = 0
      /\ Stage("SHADOW_INTENT_CREATED") = 1
      /\ Stage("OPEN") = 2
      /\ Stage("CLOSED") = 3
      /\ Stage("RECONCILED") = 4
  BY DEF Stage
<1>2. \A l \in Lifecycle : Stage(l) \in 1..4
  BY <1>1 DEF Lifecycle
<1>3. \A l, k : k \in NextStage(l) => k \in Lifecycle /\ Stage(k) = Stage(l) + 1
  BY DEF NextStage
<1>4. QED
  BY <1>1, <1>2, <1>3

\* A runtime that is not idle is inside an operation, of the kind its step
\* tells.
LEMMA Busy ==
    ASSUME TypeOK, NEW r \in Runtime, op[r].step # "idle"
    PROVE  /\ op[r].cycle \in Cycle
           /\ op[r].instrument \in Instrument
           /\ op[r] \in Candidate \/ op[r] \in TurnedDown \/ op[r] \in Settled
           /\ op[r].step \in {"count", "check", "create"} => op[r] \in Candidate
           /\ op[r].step = "verdict" => op[r] \in TurnedDown
           /\ op[r].step \in {"record", "mutate", "lifecycle"} =>
                op[r] \in Settled
<1>1. op[r] \in Operation \union {Idle}
  BY DEF TypeOK
<1>2. op[r] # Idle
  BY DEF Idle
<1>3. op[r] \in Candidate \/ op[r] \in TurnedDown \/ op[r] \in Settled
  BY <1>1, <1>2 DEF Operation
<1>4. QED
  BY <1>3 DEF Candidate, TurnedDown, Settled

\* A step that only moves the operation of r on keeps the type.
LEMMA OpMoves ==
    ASSUME TypeOK, NEW r \in Runtime
    PROVE  /\ Finish(r) => op' \in [Runtime -> Operation \union {Idle}]
           /\ op[r] \in Candidate =>
                /\ GoTo(r, "check") \/ GoTo(r, "create") =>
                        op' \in [Runtime -> Operation \union {Idle}]
                /\ \A code \in Verdict : Conclude(r, code) =>
                        op' \in [Runtime -> Operation \union {Idle}]
                /\ \A life \in Lifecycle : Proceed(r, "record", life) =>
                        op' \in [Runtime -> Operation \union {Idle}]
           /\ op[r] \in Settled =>
                /\ GoTo(r, "lifecycle") =>
                        op' \in [Runtime -> Operation \union {Idle}]
                /\ \A life \in Lifecycle : Proceed(r, "lifecycle", life) =>
                        op' \in [Runtime -> Operation \union {Idle}]
<1> DEFINE T == Operation \union {Idle}
<1>1. op \in [Runtime -> T]
  BY DEF TypeOK
<1>2. ASSUME NEW o \in T, op' = [op EXCEPT ![r] = o]
      PROVE  op' \in [Runtime -> T]
  BY <1>1, <1>2
<1>3. Finish(r) => op' \in [Runtime -> T]
  BY <1>2 DEF Finish
<1>4. ASSUME op[r] \in Candidate,
             NEW code \in Verdict, NEW life \in Lifecycle,
             \/ GoTo(r, "check") \/ GoTo(r, "create")
             \/ Conclude(r, code) \/ Proceed(r, "record", life)
      PROVE  op' \in [Runtime -> T]
  <2>1. /\ [op[r] EXCEPT !.step = "check"] \in Candidate
        /\ [op[r] EXCEPT !.step = "create"] \in Candidate
        /\ [op[r] EXCEPT !.step = "verdict", !.code = code,
                         !.level = NoLevel] \in TurnedDown
        /\ [op[r] EXCEPT !.step = "record", !.life = life] \in Settled
    BY <1>4 DEF Candidate, TurnedDown, Settled
  <2>2. QED
    BY <1>1, <1>4, <2>1 DEF GoTo, Conclude, Proceed, Operation
<1>5. ASSUME op[r] \in Settled, NEW life \in Lifecycle,
             GoTo(r, "lifecycle") \/ Proceed(r, "lifecycle", life)
      PROVE  op' \in [Runtime -> T]
  <2>1. /\ [op[r] EXCEPT !.step = "lifecycle"] \in Settled
        /\ [op[r] EXCEPT !.step = "lifecycle", !.life = life] \in Settled
    BY <1>5 DEF Settled
  <2>2. QED
    BY <1>1, <1>5, <2>1 DEF GoTo, Proceed, Operation
<1>6. "S0_WAIT" \in Verdict /\ "OPEN" \in Lifecycle
  BY DEF Verdict, Lifecycle
<1>7. QED
  BY <1>3, <1>4, <1>5, <1>6

-----------------------------------------------------------------------------

\* The runtimes start with an empty store and ledger and nothing to do.
LEMMA InitIInv == Init => IInv
<1> SUFFICES ASSUME Init PROVE IInv
  OBVIOUS
<1> USE InstrumentAssumption, MinuteAssumption, StageFacts
    DEF Init, NoIntent, NoEvidence, Idle
<1>1. TypeOK
  BY RuntimeAssumption DEF TypeOK, Standing, Window, NoCandles
<1>2. OneUnresolvedIntent
  BY DEF OneUnresolvedIntent, Unresolved
<1>3. EvidenceFollowsBook /\ PositionIsEvidenced /\ OperationFollowsBook
  BY DEF EvidenceFollowsBook, PositionIsEvidenced, OperationFollowsBook, Intent
<1>4. QED
  BY <1>1, <1>2, <1>3 DEF IInv

\* A candle that the buffer takes leaves it a window no longer than Warmup.
LEMMA AppendType ==
    ASSUME TypeOK, NEW r \in Runtime, NEW i \in Instrument, NEW c \in Cycle,
           AppendCandle(r, i, c)
    PROVE  candles' \in [Runtime -> [Instrument -> Window]]
<1>1. /\ candles \in [Runtime -> [Instrument -> Window]]
      /\ candles[r][i].length \in 0..Warmup
  BY DEF TypeOK, Window
<1>2. LengthWith(r, i, c) \in 0..Warmup
  BY <1>1, MinuteAssumption DEF LengthWith
<1>3. [last |-> c, length |-> LengthWith(r, i, c)] \in Window
  BY <1>2 DEF Window, Cycle
<1>4. QED
  BY <1>1, <1>3 DEF AppendCandle

\* A well-formed entry in a slot of the ledger leaves the ledger well formed.
LEMMA WriteType ==
    ASSUME TypeOK, NEW c \in Cycle, NEW i \in Instrument, NEW e \in Evidence,
           evidence' = [evidence EXCEPT ![c][i] = e]
    PROVE  evidence' \in [Cycle -> [Instrument -> Evidence \union {NoEvidence}]]
<1>1. evidence[c] \in [Instrument -> Evidence \union {NoEvidence}]
  BY DEF TypeOK
<1>2. [evidence[c] EXCEPT ![i] = e]
            \in [Instrument -> Evidence \union {NoEvidence}]
  BY <1>1
<1>3. QED
  BY <1>2 DEF TypeOK

\* Verdicts and intents with a level and a lifecycle are evidence.
LEMMA EvidenceTypes ==
    /\ \A code \in Verdict : VerdictEvidence(code) \in Evidence
    /\ \A level \in Level, life \in Lifecycle :
            IntentEvidence(level, life) \in Evidence
  BY DEF VerdictEvidence, IntentEvidence, Evidence

\* An operation that adopted, put or advances an intent knows its level and
\* its lifecycle.
LEMMA OperationKnows ==
    ASSUME TypeOK, OperationFollowsBook, NEW r \in Runtime,
           op[r].step \in {"record", "mutate", "lifecycle"}
    PROVE  /\ book[op[r].cycle] \in Record
           /\ op[r].level \in Level
           /\ op[r].life \in Lifecycle
<1>1. op[r] \in Settled
  BY Busy
<1>2. SameTerms(r)
  BY DEF OperationFollowsBook
<1>3. book[op[r].cycle] \in Record
  BY <1>1, <1>2, InstrumentAssumption
  DEF SameTerms, TypeOK, NoIntent, Settled
<1>4. QED
  BY <1>1, <1>3 DEF Settled

-----------------------------------------------------------------------------

\* Every step keeps every variable in its declared set.
LEMMA TypeStep == IInv /\ [Next]_vars => TypeOK'
<1> SUFFICES ASSUME IInv, [Next]_vars PROVE TypeOK'
  OBVIOUS
<1> USE DEF IInv
<1>t. /\ minute \in 0..MaxMinute
      /\ auth \in [Coordinator -> Standing]
      /\ candles \in [Runtime -> [Instrument -> Window]]
      /\ op \in [Runtime -> Operation \union {Idle}]
      /\ book \in [Cycle -> Record \union {NoIntent}]
      /\ evidence \in [Cycle -> [Instrument -> Evidence \union {NoEvidence}]]
  BY DEF TypeOK
<1>d. \A r \in Runtime : Demoted(r) \in [Coordinator -> Standing]
  BY <1>t, RuntimeAssumption DEF Demoted, Standing
<1>1. ASSUME NEW r \in Runtime, NEW i \in Instrument, NEW c \in Cycle,
             EvaluateWithoutSignal(r, i, c)
      PROVE TypeOK'
  <2>1. candles' \in [Runtime -> [Instrument -> Window]]
    BY <1>1, AppendType DEF EvaluateWithoutSignal
  <2>2. CandleVerdict(r, i, c) \in Verdict
    BY DEF CandleVerdict, Verdict
  <2>3. evidence' \in [Cycle -> [Instrument -> Evidence \union {NoEvidence}]]
    <3> DEFINE entry == VerdictEvidence(CandleVerdict(r, i, c))
    <3>1. entry \in Evidence
      BY <2>2, EvidenceTypes
    <3>2. evidence' = [evidence EXCEPT ![c][i] = entry] \/ evidence' = evidence
      BY <1>1 DEF EvaluateWithoutSignal
    <3>3. QED
      BY <1>t, <3>1, <3>2, WriteType
  <2>4. QED
    BY <1>1, <1>t, <2>1, <2>3 DEF EvaluateWithoutSignal, TypeOK
<1>2. ASSUME NEW r \in Runtime, NEW i \in Instrument, NEW c \in Cycle,
             NEW level \in Level, EvaluateSignal(r, i, c, level)
      PROVE TypeOK'
  <2>1. candles' \in [Runtime -> [Instrument -> Window]]
    BY <1>2, AppendType DEF EvaluateSignal
  <2>2. ASSUME book[c].instrument = i PROVE book[c].life \in Lifecycle
    BY <1>t, <2>2, InstrumentAssumption DEF Record, NoIntent
  <2>3. op' \in [Runtime -> Operation \union {Idle}]
    BY <1>2, <1>t, <2>2
    DEF EvaluateSignal, Operation, Candidate, TurnedDown, Settled, Verdict
  <2>4. QED
    BY <1>2, <1>t, <2>1, <2>3 DEF EvaluateSignal, TypeOK
<1>3. ASSUME NEW r \in Runtime, RecordVerdict(r) PROVE TypeOK'
  <2>1. op[r] \in TurnedDown
    BY <1>3, Busy DEF RecordVerdict, At
  <2>2. evidence' \in [Cycle -> [Instrument -> Evidence \union {NoEvidence}]]
    BY <1>3, <2>1, WriteType, EvidenceTypes DEF RecordVerdict, Write, TurnedDown
  <2>3. QED
    BY <1>3, <1>t, <2>2, OpMoves DEF RecordVerdict, TypeOK
<1>4. ASSUME NEW r \in Runtime,
             \/ CountPositions(r) \/ CheckAvailable(r)
             \/ AdoptIntent(r) \/ CreateRejected(r)
      PROVE TypeOK'
  <2>1. op[r] \in Candidate
    BY <1>4, Busy
    DEF CountPositions, CheckAvailable, AdoptIntent, CreateRejected, At
  <2>2. ASSUME AdoptIntent(r) PROVE book[op[r].cycle].life \in Lifecycle
    BY <1>t, <2>1, <2>2, InstrumentAssumption
    DEF AdoptIntent, SameTerms, Record, NoIntent, Candidate
  <2>3. op' \in [Runtime -> Operation \union {Idle}]
    BY <1>4, <2>1, <2>2, OpMoves
    DEF CountPositions, CheckAvailable, AdoptIntent, CreateRejected, Verdict
  <2>4. auth' \in [Coordinator -> Standing]
    BY <1>4, <1>t, <1>d
    DEF CountPositions, CheckAvailable, AdoptIntent, CreateRejected
  <2>5. QED
    BY <1>4, <1>t, <2>3, <2>4
    DEF CountPositions, CheckAvailable, AdoptIntent, CreateRejected, TypeOK
<1>5. ASSUME NEW r \in Runtime, PutIntent(r) PROVE TypeOK'
  <2>1. op[r] \in Candidate
    BY <1>5, Busy DEF PutIntent, At
  <2>2. book' \in [Cycle -> Record \union {NoIntent}]
    BY <1>5, <1>t, <2>1 DEF PutIntent, Record, Lifecycle, Candidate
  <2>3. op' \in [Runtime -> Operation \union {Idle}]
    BY <1>5, <2>1, OpMoves DEF PutIntent, Lifecycle
  <2>4. QED
    BY <1>5, <1>t, <1>d, <2>2, <2>3 DEF PutIntent, TypeOK
<1>6. ASSUME NEW r \in Runtime, RecordIntent(r) \/ RecordLifecycle(r)
      PROVE TypeOK'
  <2>1. op[r] \in Settled
    BY <1>6, Busy DEF RecordIntent, RecordLifecycle, At
  <2>2. evidence' \in [Cycle -> [Instrument -> Evidence \union {NoEvidence}]]
    BY <1>6, <1>t, <2>1, WriteType, EvidenceTypes
    DEF RecordIntent, RecordLifecycle, Write, Settled
  <2>3. QED
    BY <1>6, <1>t, <2>2, OpMoves DEF RecordIntent, RecordLifecycle, TypeOK
<1>7. ASSUME NEW r \in Runtime, NEW c \in Cycle, BeginAdvance(r, c)
      PROVE TypeOK'
  <2>1. book[c] \in Record
    BY <1>7, <1>t DEF BeginAdvance
  <2>2. op' \in [Runtime -> Operation \union {Idle}]
    BY <1>7, <1>t, <2>1 DEF BeginAdvance, Record, Operation, Settled
  <2>3. QED
    BY <1>7, <1>t, <2>2 DEF BeginAdvance, TypeOK
<1>8. ASSUME NEW r \in Runtime, Transition(r) PROVE TypeOK'
  <2>1. op[r] \in Settled
    BY <1>8, Busy DEF Transition, At
  <2>2. book[op[r].cycle] \in Record
    BY <1>8, OperationKnows DEF Transition, At
  <2>3. PICK life \in NextStage(op[r].life) :
            /\ book' = [book EXCEPT ![op[r].cycle].life = life]
            /\ \/ Proceed(r, "lifecycle", life) /\ UNCHANGED auth
               \/ Finish(r) /\ auth' = Demoted(r)
    BY <1>8 DEF Transition
  <2>4. life \in Lifecycle
    BY <2>3, StageFacts
  <2>5. book' \in [Cycle -> Record \union {NoIntent}]
    BY <1>t, <2>2, <2>3, <2>4 DEF Record
  <2>6. op' \in [Runtime -> Operation \union {Idle}]
    BY <2>1, <2>3, <2>4, OpMoves
  <2>7. QED
    BY <1>8, <1>t, <1>d, <2>3, <2>5, <2>6 DEF Transition, TypeOK
<1>9. ASSUME NEW r \in Runtime,
             KeepLifecycle(r) \/ TransitionRejected(r) \/ Fail(r)
      PROVE TypeOK'
  <2>1. op' \in [Runtime -> Operation \union {Idle}]
    BY <1>9, Busy, OpMoves DEF KeepLifecycle, TransitionRejected, Fail, At
  <2>2. QED
    BY <1>9, <1>t, <1>d, <2>1
    DEF KeepLifecycle, TransitionRejected, Fail, TypeOK
<1>10. ASSUME NEW h \in Coordinator, Acquire(h) \/ Demote(h) PROVE TypeOK'
  BY <1>10, <1>t DEF Acquire, Demote, Standing, TypeOK
<1>11. ASSUME NEW h \in Coordinator, Crash(h) PROVE TypeOK'
  <2>1. auth' \in [Coordinator -> Standing]
    BY <1>11, <1>t DEF Crash, Standing
  <2>2. op' \in [Runtime -> Operation \union {Idle}]
    BY <1>11, <1>t DEF Crash
  <2>3. candles' \in [Runtime -> [Instrument -> Window]]
    BY <1>11, <1>t, MinuteAssumption DEF Crash, Window, NoCandles
  <2>4. QED
    BY <1>11, <1>t, <2>1, <2>2, <2>3 DEF Crash, TypeOK
<1>12. ASSUME FinalizeMinute PROVE TypeOK'
  BY <1>12, <1>t, MinuteAssumption DEF FinalizeMinute, TypeOK
<1>13. ASSUME UNCHANGED vars PROVE TypeOK'
  BY <1>13, <1>t DEF vars, TypeOK
<1>14. QED
  BY <1>1, <1>2, <1>3, <1>4, <1>5, <1>6, <1>7, <1>8, <1>9, <1>10, <1>11,
     <1>12, <1>13
  DEF Next, Evaluate, Advance

-----------------------------------------------------------------------------

\* One entry goes to the ledger; that of an intent names a durable one.
Recording(c, i, e) ==
    /\ Accepts(evidence[c][i], e)
    /\ e.code = Intent =>
        /\ book[c].instrument = i
        /\ book[c].level = e.level
        /\ Stage(e.life) \in 1..Stage(book[c].life)
    /\ evidence' = [evidence EXCEPT ![c][i] = e]
    /\ UNCHANGED book

\* A cycle gets its intent while no other is unresolved.
Putting(c, intent) ==
    /\ \A d \in Cycle : ~Unresolved(d)
    /\ book[c] = NoIntent
    /\ intent.life = "SHADOW_INTENT_CREATED"
    /\ book' = [book EXCEPT ![c] = intent]
    /\ UNCHANGED evidence

\* An intent that has evidence moves one stage on.
Moving(c, life) ==
    /\ book[c] \in Record
    /\ evidence[c][book[c].instrument].code = Intent
    /\ life \in NextStage(book[c].life)
    /\ book' = [book EXCEPT ![c].life = life]
    /\ UNCHANGED evidence

StepKind ==
    \/ UNCHANGED <<book, evidence>>
    \/ \E c \in Cycle, i \in Instrument, e \in Evidence : Recording(c, i, e)
    \/ \E c \in Cycle, intent \in Record : Putting(c, intent)
    \/ \E c \in Cycle, life \in Lifecycle : Moving(c, life)

\* Under IInv every step is of one of these kinds.
LEMMA StepKinds == IInv /\ [Next]_vars => StepKind
<1> SUFFICES ASSUME IInv, [Next]_vars PROVE StepKind
  OBVIOUS
<1> USE DEF IInv
<1>1. ASSUME NEW r \in Runtime, NEW i \in Instrument, NEW c \in Cycle,
             EvaluateWithoutSignal(r, i, c)
      PROVE  StepKind
  <2> DEFINE entry == VerdictEvidence(CandleVerdict(r, i, c))
  <2>1. CandleVerdict(r, i, c) \in Verdict
    BY DEF CandleVerdict, Verdict
  <2>2. entry \in Evidence /\ entry.code # Intent
    BY <2>1, EvidenceTypes DEF VerdictEvidence, Verdict, Intent
  <2>3. Recording(c, i, entry) \/ UNCHANGED <<book, evidence>>
    BY <1>1, <2>2 DEF EvaluateWithoutSignal, Recording
  <2>4. QED
    BY <2>2, <2>3 DEF StepKind
<1>2. ASSUME NEW r \in Runtime, RecordVerdict(r) PROVE StepKind
  <2> DEFINE entry == VerdictEvidence(op[r].code)
  <2>1. op[r] \in TurnedDown
    BY <1>2, Busy DEF RecordVerdict, At
  <2>2. op[r].code \in Verdict /\ op[r].cycle \in Cycle
        /\ op[r].instrument \in Instrument
    BY <2>1 DEF TurnedDown
  <2>3. entry \in Evidence /\ entry.code # Intent
    BY <2>2, EvidenceTypes DEF VerdictEvidence, Verdict, Intent
  <2>4. Recording(op[r].cycle, op[r].instrument, entry)
    BY <1>2, <2>3 DEF RecordVerdict, Recording, Slot, Write
  <2>5. QED
    BY <2>2, <2>3, <2>4 DEF StepKind
<1>3. ASSUME NEW r \in Runtime, RecordIntent(r) \/ RecordLifecycle(r)
      PROVE  StepKind
  <2> DEFINE entry == IntentEvidence(op[r].level, op[r].life)
  <2>1. op[r] \in Settled
    BY <1>3, Busy DEF RecordIntent, RecordLifecycle, At
  <2>2. SameTerms(r) /\ Stage(op[r].life) \in 1..Stage(book[op[r].cycle].life)
    BY <1>3 DEF OperationFollowsBook, RecordIntent, RecordLifecycle, At
  <2>3. entry \in Evidence /\ op[r].cycle \in Cycle
        /\ op[r].instrument \in Instrument
    BY <2>1, EvidenceTypes DEF Settled
  <2>4. \/ Recording(op[r].cycle, op[r].instrument, entry)
        \/ UNCHANGED <<book, evidence>>
    BY <1>3, <2>2
    DEF RecordIntent, RecordLifecycle, Recording, Slot, Write, SameTerms,
        IntentEvidence
  <2>5. QED
    BY <2>3, <2>4 DEF StepKind
<1>4. ASSUME NEW r \in Runtime, PutIntent(r) PROVE StepKind
  <2> DEFINE intent == [instrument |-> op[r].instrument,
                        level |-> op[r].level,
                        life |-> "SHADOW_INTENT_CREATED"]
  <2>1. op[r] \in Candidate
    BY <1>4, Busy DEF PutIntent, At
  <2>2. intent \in Record /\ op[r].cycle \in Cycle
    BY <2>1 DEF Candidate, Record, Lifecycle
  <2>3. Putting(op[r].cycle, intent)
    BY <1>4 DEF PutIntent, Putting
  <2>4. QED
    BY <2>2, <2>3 DEF StepKind
<1>5. ASSUME NEW r \in Runtime, Transition(r) PROVE StepKind
  <2>1. op[r].cycle \in Cycle
    BY <1>5, Busy DEF Transition, At
  <2>2. book[op[r].cycle] \in Record
    BY <1>5, OperationKnows DEF Transition, At
  <2>3. evidence[op[r].cycle][book[op[r].cycle].instrument].code = Intent
    BY <1>5 DEF Transition, At, OperationFollowsBook, SameTerms, Slot
  <2>4. PICK life \in NextStage(book[op[r].cycle].life) :
            book' = [book EXCEPT ![op[r].cycle].life = life]
    BY <1>5 DEF Transition
  <2>5. life \in Lifecycle
    BY <2>4, StageFacts
  <2>6. Moving(op[r].cycle, life)
    BY <1>5, <2>2, <2>3, <2>4 DEF Transition, Moving
  <2>7. QED
    BY <2>1, <2>5, <2>6 DEF StepKind
<1>6. ASSUME UNCHANGED <<book, evidence>> PROVE StepKind
  BY <1>6 DEF StepKind
<1>7. ASSUME NEW r \in Runtime,
             \/ CountPositions(r) \/ CheckAvailable(r) \/ AdoptIntent(r)
             \/ CreateRejected(r) \/ KeepLifecycle(r)
             \/ TransitionRejected(r) \/ Fail(r)
      PROVE  StepKind
  BY <1>6, <1>7
  DEF CountPositions, CheckAvailable, AdoptIntent, CreateRejected,
      KeepLifecycle, TransitionRejected, Fail
<1>8. ASSUME NEW r \in Runtime, NEW c \in Cycle, BeginAdvance(r, c)
      PROVE  StepKind
  BY <1>6, <1>8 DEF BeginAdvance
<1>9. ASSUME NEW r \in Runtime, NEW i \in Instrument, NEW c \in Cycle,
             NEW level \in Level, EvaluateSignal(r, i, c, level)
      PROVE  StepKind
  BY <1>6, <1>9 DEF EvaluateSignal
<1>10. ASSUME NEW h \in Coordinator, Acquire(h) \/ Demote(h) \/ Crash(h)
       PROVE  StepKind
  BY <1>6, <1>10 DEF Acquire, Demote, Crash
<1>11. FinalizeMinute \/ UNCHANGED vars => StepKind
  BY <1>6 DEF FinalizeMinute, vars
<1>12. QED
  BY <1>1, <1>2, <1>3, <1>4, <1>5, <1>7, <1>8, <1>9, <1>10, <1>11
  DEF Next, Evaluate, Advance

\* What the ledger says of a slot stays, but for a lifecycle one stage on.
Permanent ==
    \A c \in Cycle, i \in Instrument : evidence[c][i] # NoEvidence =>
        /\ evidence'[c][i].code = evidence[c][i].code
        /\ evidence'[c][i].level = evidence[c][i].level
        /\ \/ evidence'[c][i].life = evidence[c][i].life
           \/ evidence'[c][i].life \in NextStage(evidence[c][i].life)

\* A step writes evidence only where there is none, or moves one stage on.
LEMMA PermanentStep == IInv /\ StepKind => Permanent
<1> SUFFICES ASSUME IInv, StepKind PROVE Permanent
  OBVIOUS
<1>1. evidence \in [Cycle -> [Instrument -> Evidence \union {NoEvidence}]]
  BY DEF IInv, TypeOK
<1>2. ASSUME NEW c \in Cycle, NEW i \in Instrument, NEW e \in Evidence,
             Recording(c, i, e)
      PROVE  Permanent
  BY <1>1, <1>2 DEF Recording, Accepts, Permanent
<1>3. UNCHANGED evidence => Permanent
  BY DEF Permanent
<1>4. QED
  BY <1>2, <1>3 DEF StepKind, Putting, Moving

\* A durable intent keeps its terms, and its lifecycle never goes back.
IntentKept(c) ==
    /\ book'[c].instrument = book[c].instrument
    /\ book'[c].level = book[c].level
    /\ Stage(book'[c].life) \in Stage(book[c].life)..4

\* Every stored intent stays, under its terms.
LEMMA IntentsKept ==
    IInv /\ StepKind => \A c \in Cycle : book[c] # NoIntent => IntentKept(c)
<1> SUFFICES ASSUME IInv, StepKind, NEW c \in Cycle, book[c] # NoIntent
             PROVE  IntentKept(c)
  OBVIOUS
<1>1. book \in [Cycle -> Record \union {NoIntent}]
  BY DEF IInv, TypeOK
<1>2. book[c] \in Record /\ Stage(book[c].life) \in 1..4
  BY <1>1, StageFacts DEF Record
<1>3. UNCHANGED book => IntentKept(c)
  BY <1>2 DEF IntentKept
<1>4. ASSUME NEW d \in Cycle, NEW intent \in Record, Putting(d, intent)
      PROVE  IntentKept(c)
  BY <1>1, <1>2, <1>4 DEF Putting, IntentKept
<1>5. ASSUME NEW d \in Cycle, NEW life \in Lifecycle, Moving(d, life)
      PROVE  IntentKept(c)
  <2>1. CASE c = d
    BY <1>1, <1>2, <1>5, <2>1, StageFacts DEF Moving, IntentKept, Record
  <2>2. CASE c # d
    BY <1>1, <1>2, <1>5, <2>2 DEF Moving, IntentKept
  <2>3. QED
    BY <2>1, <2>2
<1>6. QED
  BY <1>3, <1>4, <1>5 DEF StepKind, Recording

-----------------------------------------------------------------------------

\* An intent is unresolved in its first two stages.
LEMMA UnresolvedStages ==
    ASSUME TypeOK, NEW c \in Cycle
    PROVE  /\ Unresolved(c) <=> Stage(book[c].life) \in {1, 2}
           /\ Stage(book[c].life) \in 0..4
           /\ book[c] = NoIntent <=> Stage(book[c].life) = 0
           /\ book[c] = NoIntent => book[c].life = "none"
           /\ book[c] # NoIntent =>
                book[c] \in Record /\ book[c].instrument \in Instrument
<1>1. \/ book[c] = NoIntent
      \/ book[c] \in Record /\ book[c].life \in Lifecycle
                          /\ book[c].instrument \in Instrument
  BY DEF TypeOK, Record
<1>2. NoIntent.life = "none"
  BY DEF NoIntent
<1>3. QED
  BY <1>1, <1>2, StageFacts DEF Unresolved, Lifecycle

\* The store's insert refuses a second unresolved intent of a position.
LEMMA OneUnresolvedStep == IInv /\ StepKind => OneUnresolvedIntent'
<1> SUFFICES ASSUME IInv, StepKind,
                    NEW c \in Cycle, NEW d \in Cycle,
                    Unresolved(c)', Unresolved(d)'
             PROVE  c = d
  BY DEF OneUnresolvedIntent
<1> USE DEF IInv
<1>1. book \in [Cycle -> Record \union {NoIntent}]
  BY DEF TypeOK
<1>2. UNCHANGED book => c = d
  BY DEF OneUnresolvedIntent, Unresolved
<1>3. ASSUME NEW e \in Cycle, NEW intent \in Record, Putting(e, intent)
      PROVE  c = d
  BY <1>1, <1>3 DEF Putting, Unresolved
<1>4. ASSUME NEW e \in Cycle, NEW life \in Lifecycle, Moving(e, life)
      PROVE  c = d
  <2>1. life \in {"SHADOW_INTENT_CREATED", "OPEN"} => Unresolved(e)
    <3>1. Stage(book[e].life) \in 1..4 /\ Stage(life) = Stage(book[e].life) + 1
      BY <1>4, StageFacts DEF Moving, Record
    <3>2. QED
      BY <3>1, StageFacts, UnresolvedStages
  <2>2. Unresolved(c) /\ Unresolved(d)
    <3>1. book'[e].life = life /\ \A f \in Cycle : f # e => book'[f] = book[f]
      BY <1>1, <1>4 DEF Moving, Record
    <3>2. QED
      BY <2>1, <3>1 DEF Unresolved
  <2>3. QED
    BY <2>2 DEF OneUnresolvedIntent
<1>5. QED
  BY <1>2, <1>3, <1>4 DEF StepKind, Recording

\* Entries of the ledger are those of the step's Recording or as they were.
LEMMA EvidenceFollowsStep == IInv /\ StepKind => EvidenceFollowsBook'
<1> SUFFICES ASSUME IInv, StepKind, NEW c \in Cycle, NEW i \in Instrument,
                    evidence'[c][i].code = Intent
             PROVE  /\ book'[c].instrument = i
                    /\ book'[c].level = evidence'[c][i].level
                    /\ Stage(evidence'[c][i].life) <= Stage(book'[c].life)
  BY DEF EvidenceFollowsBook
<1> USE DEF IInv
<1>1. evidence \in [Cycle -> [Instrument -> Evidence \union {NoEvidence}]]
  BY DEF TypeOK
<1>2. CASE evidence'[c][i] = evidence[c][i]
  <2>1. /\ book[c].instrument = i
        /\ book[c].level = evidence[c][i].level
        /\ Stage(evidence[c][i].life) <= Stage(book[c].life)
    BY <1>2 DEF EvidenceFollowsBook
  <2>2. book[c] # NoIntent
    BY <2>1, InstrumentAssumption DEF NoIntent
  <2>3. IntentKept(c)
    BY <2>2, IntentsKept
  <2>4. /\ Stage(evidence[c][i].life) \in 1..4
        /\ Stage(book[c].life) \in 0..4
    <3>1. evidence[c][i] \in Evidence \union {NoEvidence}
      BY <1>1
    <3>2. evidence[c][i].code = Intent
      BY <1>2
    <3>3. evidence[c][i].life \in Lifecycle
      BY <3>1, <3>2 DEF Evidence, NoEvidence, Verdict, Intent
    <3>4. QED
      BY <3>3, StageFacts, UnresolvedStages
  <2>5. QED
    BY <1>2, <2>1, <2>3, <2>4 DEF IntentKept
<1>3. ASSUME NEW e \in Evidence, Recording(c, i, e) 
      PROVE  /\ book'[c].instrument = i
             /\ book'[c].level = evidence'[c][i].level
             /\ Stage(evidence'[c][i].life) <= Stage(book'[c].life)
  BY <1>1, <1>3 DEF Recording
<1>4. QED
  BY <1>1, <1>2, <1>3 DEF StepKind, Recording, Putting, Moving

\* A position moves only with evidence, and evidence of an intent stays.
LEMMA EvidencedStep == IInv /\ StepKind => PositionIsEvidenced'
<1> SUFFICES ASSUME IInv, StepKind, NEW c \in Cycle,
                    Stage(book'[c].life) > 1
             PROVE  evidence'[c][book'[c].instrument].code = Intent
  BY DEF PositionIsEvidenced
<1> USE DEF IInv
<1>1. book \in [Cycle -> Record \union {NoIntent}]
  BY DEF TypeOK
<1>2. CASE book[c] # NoIntent
           /\ evidence[c][book[c].instrument].code = Intent
  <2>1. book'[c].instrument = book[c].instrument
    BY <1>2, IntentsKept DEF IntentKept
  <2>2. book[c].instrument \in Instrument
    BY <1>2, UnresolvedStages
  <2>3. evidence[c][book[c].instrument] # NoEvidence
    BY <1>2 DEF NoEvidence, Intent
  <2>4. evidence'[c][book[c].instrument].code = Intent
    BY <1>2, <2>2, <2>3, PermanentStep DEF Permanent
  <2>5. QED
    BY <2>1, <2>4
<1>3. CASE book'[c] = book[c]
  <2>1. Stage(book[c].life) > 1
    BY <1>3
  <2>2. QED
    BY <1>2, <2>1, UnresolvedStages DEF PositionIsEvidenced
<1>4. ASSUME NEW d \in Cycle, NEW intent \in Record, Putting(d, intent)
      PROVE  book'[c] = book[c]
  <2>1. CASE c = d
    <3>1. book'[c].life = "SHADOW_INTENT_CREATED"
      BY <1>1, <1>4, <2>1 DEF Putting
    <3>2. QED
      BY <3>1, StageFacts
  <2>2. QED
    BY <1>1, <1>4, <2>1 DEF Putting
<1>5. ASSUME NEW d \in Cycle, NEW life \in Lifecycle, Moving(d, life)
      PROVE  \/ book'[c] = book[c]
             \/ /\ book[c] # NoIntent
                /\ evidence[c][book[c].instrument].code = Intent
  BY <1>1, <1>5, UnresolvedStages, StageFacts DEF Moving, NoIntent, Record
<1>6. QED
  BY <1>2, <1>3, <1>4, <1>5 DEF StepKind, Recording

-----------------------------------------------------------------------------

\* What another runtime does leaves what an operation knows true.
LEMMA OthersKeepOperation ==
    ASSUME IInv, StepKind, NEW r \in Runtime,
           op'[r] = op[r] \/ op'[r] = Idle
    PROVE  /\ op'[r].step \in {"record", "mutate", "lifecycle"} =>
                /\ SameTerms(r)'
                /\ Stage(op'[r].life) \in 1..Stage(book'[op'[r].cycle].life)
           /\ op'[r].step \in {"mutate", "lifecycle"} => Slot(r)'.code = Intent
<1> USE DEF IInv
<1>1. CASE op'[r] = Idle
  BY <1>1 DEF Idle
<1>2. CASE op'[r] = op[r] /\ op[r].step \in {"record", "mutate", "lifecycle"}
  <2>1. op[r].cycle \in Cycle /\ op[r].instrument \in Instrument
    BY <1>2, Busy
  <2>2. /\ SameTerms(r)
        /\ Stage(op[r].life) \in 1..Stage(book[op[r].cycle].life)
    BY <1>2 DEF OperationFollowsBook
  <2>3. book[op[r].cycle] # NoIntent
    BY <2>1, <2>2, InstrumentAssumption DEF SameTerms, NoIntent
  <2>4. IntentKept(op[r].cycle)
    BY <2>1, <2>3, IntentsKept
  <2>5. SameTerms(r)'
    BY <1>2, <2>2, <2>4 DEF SameTerms, IntentKept
  <2>6. Stage(op'[r].life) \in 1..Stage(book'[op'[r].cycle].life)
    <3>1. Stage(book[op[r].cycle].life) \in 0..4
      BY <2>1, UnresolvedStages
    <3>2. QED
      BY <1>2, <2>2, <2>4, <3>1 DEF IntentKept
  <2>7. ASSUME op[r].step \in {"mutate", "lifecycle"}
        PROVE  Slot(r)'.code = Intent
    <3>1. Slot(r).code = Intent
      BY <2>7 DEF OperationFollowsBook
    <3>2. Slot(r) # NoEvidence
      BY <3>1 DEF NoEvidence, Intent
    <3>3. QED
      BY <1>2, <2>1, <3>1, <3>2, PermanentStep DEF Permanent, Slot
  <2>8. QED
    BY <1>2, <2>5, <2>6, <2>7
<1>3. QED
  BY <1>1, <1>2

\* What OperationFollowsBook says of one runtime, before and after a step.
Follows(r) ==
    /\ op[r].step \in {"record", "mutate", "lifecycle"} =>
        /\ SameTerms(r)
        /\ Stage(op[r].life) \in 1..Stage(book[op[r].cycle].life)
    /\ op[r].step \in {"mutate", "lifecycle"} => Slot(r).code = Intent

\* A runtime's own step leaves it with terms it has just read or written.
LEMMA OperationStep == IInv /\ [Next]_vars => OperationFollowsBook'
<1> SUFFICES ASSUME IInv, [Next]_vars, NEW s \in Runtime
             PROVE  Follows(s)'
  BY DEF OperationFollowsBook, Follows
<1> USE DEF IInv
<1>k. StepKind
  BY StepKinds
<1>o. op \in [Runtime -> Operation \union {Idle}]
  BY DEF TypeOK
<1>b. book \in [Cycle -> Record \union {NoIntent}]
  BY DEF TypeOK
<1>q. op'[s] = op[s] \/ op'[s] = Idle => Follows(s)'
  BY <1>k, OthersKeepOperation DEF Follows
<1>1. ASSUME NEW i \in Instrument, NEW c \in Cycle, NEW level \in Level,
             EvaluateSignal(s, i, c, level)
      PROVE  Follows(s)'
  <2>1. /\ UNCHANGED <<book, evidence>>
        /\ \/ op'[s] = op[s]
           \/ op'[s].step \in {"count", "verdict"}
           \/ /\ op'[s].step = "record" /\ op'[s].cycle = c
              /\ op'[s].instrument = book[c].instrument
              /\ op'[s].level = book[c].level /\ op'[s].life = book[c].life
              /\ book[c].instrument = i
    BY <1>1, <1>o DEF EvaluateSignal
  <2>2. ASSUME book[c].instrument = i
        PROVE  Stage(book[c].life) \in 1..Stage(book[c].life)
    BY <2>2, UnresolvedStages, InstrumentAssumption DEF NoIntent
  <2>3. QED
    BY <1>q, <2>1, <2>2 DEF Follows, SameTerms
<1>2. ASSUME \/ CountPositions(s) \/ CheckAvailable(s) \/ CreateRejected(s)
      PROVE  Follows(s)'
  <2>1. op'[s] = Idle \/ op'[s].step \in {"check", "create", "verdict"}
    <3>1. op[s] \in Candidate
      BY <1>2, Busy DEF CountPositions, CheckAvailable, CreateRejected, At
    <3>2. /\ GoTo(s, "check") \/ GoTo(s, "create") =>
                op'[s].step \in {"check", "create"}
          /\ \A code : Conclude(s, code) => op'[s].step = "verdict"
          /\ Finish(s) => op'[s] = Idle
      BY <1>o, <3>1 DEF Conclude, GoTo, Finish, Candidate
    <3>3. QED
      BY <1>2, <3>2 DEF CountPositions, CheckAvailable, CreateRejected
  <2>2. QED
    BY <1>q, <2>1 DEF Follows
<1>3. ASSUME \/ RecordVerdict(s) \/ RecordIntent(s) \/ RecordLifecycle(s)
             \/ TransitionRejected(s) \/ Fail(s)
      PROVE  Follows(s)'
  <2>1. op'[s] = Idle
    BY <1>3, <1>o
    DEF RecordVerdict, RecordIntent, RecordLifecycle, TransitionRejected,
        Fail, Finish
  <2>2. QED
    BY <1>q, <2>1
<1>4. ASSUME AdoptIntent(s) PROVE Follows(s)'
  <2>1. op[s] \in Candidate
    BY <1>4, Busy DEF AdoptIntent, At
  <2>2. /\ op'[s] = [op[s] EXCEPT !.step = "record",
                                 !.life = book[op[s].cycle].life]
        /\ UNCHANGED book
    BY <1>4, <1>o DEF AdoptIntent, Proceed
  <2>3. /\ op'[s].step = "record" /\ op'[s].cycle = op[s].cycle
        /\ op'[s].instrument = op[s].instrument /\ op'[s].level = op[s].level
        /\ op'[s].life = book[op[s].cycle].life
    BY <2>1, <2>2 DEF Candidate
  <2>4. book[op[s].cycle] # NoIntent
    BY <1>4, <2>1, InstrumentAssumption
    DEF AdoptIntent, SameTerms, NoIntent, Candidate
  <2>5. Stage(book[op[s].cycle].life) \in 1..Stage(book[op[s].cycle].life)
    BY <2>1, <2>4, UnresolvedStages DEF Candidate
  <2>6. QED
    BY <1>4, <2>2, <2>3, <2>5 DEF Follows, AdoptIntent, SameTerms
<1>5. ASSUME PutIntent(s) PROVE Follows(s)'
  <2>1. op[s] \in Candidate
    BY <1>5, Busy DEF PutIntent, At
  <2>2. CASE Finish(s)
    BY <1>o, <1>q, <2>2 DEF Finish
  <2>3. CASE Proceed(s, "record", "SHADOW_INTENT_CREATED")
    <3>1. op'[s] = [op[s] EXCEPT !.step = "record",
                                 !.life = "SHADOW_INTENT_CREATED"]
      BY <1>o, <2>3 DEF Proceed
    <3>2. /\ op'[s].step = "record" /\ op'[s].cycle = op[s].cycle
          /\ op'[s].instrument = op[s].instrument
          /\ op'[s].level = op[s].level
          /\ op'[s].life = "SHADOW_INTENT_CREATED"
      BY <2>1, <3>1 DEF Candidate
    <3>3. book'[op[s].cycle] = [instrument |-> op[s].instrument,
                                level |-> op[s].level,
                                life |-> "SHADOW_INTENT_CREATED"]
      BY <1>5, <1>b, <2>1 DEF PutIntent, Candidate
    <3>4. QED
      BY <3>2, <3>3, StageFacts DEF Follows, SameTerms
  <2>4. QED
    BY <1>5, <2>2, <2>3 DEF PutIntent
<1>6. ASSUME NEW c \in Cycle, BeginAdvance(s, c) PROVE Follows(s)'
  <2>1. /\ op'[s] = [step |-> "mutate", cycle |-> c,
                     instrument |-> book[c].instrument,
                     level |-> book[c].level, life |-> book[c].life,
                     code |-> "none"]
        /\ UNCHANGED <<book, evidence>>
    BY <1>6, <1>o DEF BeginAdvance
  <2>2. Stage(book[c].life) \in 1..Stage(book[c].life)
    BY <1>6, UnresolvedStages DEF BeginAdvance
  <2>3. QED
    BY <1>6, <2>1, <2>2 DEF Follows, SameTerms, Slot, BeginAdvance
<1>7. ASSUME Transition(s) PROVE Follows(s)'
  <2>1. op[s] \in Settled /\ book[op[s].cycle] \in Record
    BY <1>7, Busy, OperationKnows DEF Transition, At
  <2>2. PICK life \in NextStage(op[s].life) :
            /\ book' = [book EXCEPT ![op[s].cycle].life = life]
            /\ Proceed(s, "lifecycle", life) \/ Finish(s)
    BY <1>7 DEF Transition
  <2>3. CASE Finish(s)
    BY <1>o, <1>q, <2>3 DEF Finish
  <2>4. CASE Proceed(s, "lifecycle", life)
    <3>1. op'[s] = [op[s] EXCEPT !.step = "lifecycle", !.life = life]
      BY <1>o, <2>4 DEF Proceed
    <3>2. /\ op'[s].cycle = op[s].cycle /\ op'[s].level = op[s].level
          /\ op'[s].instrument = op[s].instrument /\ op'[s].life = life
      BY <2>1, <3>1 DEF Settled
    <3>3. book'[op[s].cycle] = [book[op[s].cycle] EXCEPT !.life = life]
      BY <1>b, <2>1, <2>2 DEF Settled
    <3>4. /\ book'[op[s].cycle].instrument = book[op[s].cycle].instrument
          /\ book'[op[s].cycle].level = book[op[s].cycle].level
          /\ book'[op[s].cycle].life = life
      BY <2>1, <3>3 DEF Record
    <3>5. SameTerms(s) /\ Slot(s).code = Intent
      BY <1>7 DEF Transition, At, OperationFollowsBook
    <3>6. Stage(life) \in 1..Stage(life)
      BY <2>2, StageFacts
    <3>7. UNCHANGED evidence
      BY <1>7 DEF Transition
    <3>8. QED
      BY <3>2, <3>4, <3>5, <3>6, <3>7 DEF Follows, SameTerms, Slot
  <2>5. QED
    BY <2>2, <2>3, <2>4
<1>8. ASSUME KeepLifecycle(s) PROVE Follows(s)'
  <2>1. op[s] \in Settled /\ Follows(s)
    BY <1>8, Busy DEF KeepLifecycle, At, OperationFollowsBook, Follows
  <2>2. op'[s] = [op[s] EXCEPT !.step = "lifecycle"]
    BY <1>8, <1>o DEF KeepLifecycle, GoTo
  <2>3. /\ op'[s].cycle = op[s].cycle /\ op'[s].level = op[s].level
        /\ op'[s].instrument = op[s].instrument /\ op'[s].life = op[s].life
    BY <2>1, <2>2 DEF Settled
  <2>4. QED
    BY <1>8, <2>1, <2>3 DEF Follows, SameTerms, Slot, KeepLifecycle, At
<1>9. ASSUME NEW r \in Runtime, r # s, Evaluate(r) \/ Advance(r) \/ Fail(r)
      PROVE  op'[s] = op[s]
  BY <1>9, <1>o
  DEF Evaluate, Advance, Fail, EvaluateWithoutSignal, EvaluateSignal,
      RecordVerdict, CountPositions, CheckAvailable, AdoptIntent, PutIntent,
      CreateRejected, RecordIntent, BeginAdvance, Transition, KeepLifecycle,
      TransitionRejected, RecordLifecycle, Finish, Conclude, GoTo, Proceed
<1>10. ASSUME NEW i \in Instrument, NEW c \in Cycle,
              EvaluateWithoutSignal(s, i, c)
       PROVE  op'[s] = op[s]
  BY <1>10 DEF EvaluateWithoutSignal
<1>11. ASSUME NEW h \in Coordinator, Acquire(h) \/ Demote(h) \/ Crash(h)
       PROVE  op'[s] = op[s] \/ op'[s] = Idle
  BY <1>11, <1>o DEF Acquire, Demote, Crash
<1>12. FinalizeMinute \/ UNCHANGED vars => op'[s] = op[s]
  BY DEF FinalizeMinute, vars
<1>13. ASSUME Evaluate(s) \/ Advance(s) \/ Fail(s) PROVE Follows(s)'
  BY <1>13, <1>q, <1>1, <1>2, <1>3, <1>4, <1>5, <1>6, <1>7, <1>8, <1>10
  DEF Evaluate, Advance
<1>14. QED
  BY <1>q, <1>9, <1>11, <1>12, <1>13 DEF Next

-----------------------------------------------------------------------------

\* Every step preserves the whole inductive invariant.
LEMMA StepIInv == IInv /\ [Next]_vars => IInv'
  BY TypeStep, StepKinds, OneUnresolvedStep, EvidenceFollowsStep,
     EvidencedStep, OperationStep
  DEF IInv

\* The inductive invariant holds throughout.
THEOREM Invariant == Spec => []IInv
<1>1. Init => IInv
  BY InitIInv
<1>2. IInv /\ [Next]_vars => IInv'
  BY StepIInv
<1>3. QED
  BY <1>1, <1>2, PTL DEF Spec

\* Every variable keeps to its declared set; in particular no candle buffer
\* outgrows the warm-up and no operation mixes the fields of two kinds.
THEOREM TypeCorrect == Spec => []TypeOK
<1>1. IInv => TypeOK
  BY DEF IInv
<1>2. QED
  BY <1>1, Invariant, PTL

\* At most one hypothetical position is unresolved, however many runtimes,
\* replicas and superseded leaders evaluate at once.
THEOREM OnePosition == Spec => []OneUnresolvedIntent
<1>1. IInv => OneUnresolvedIntent
  BY DEF IInv
<1>2. QED
  BY <1>1, Invariant, PTL

\* Evidence of an intent names the durable intent and trails its lifecycle.
THEOREM EvidenceTrailsBook == Spec => []EvidenceFollowsBook
<1>1. IInv => EvidenceFollowsBook
  BY DEF IInv
<1>2. QED
  BY <1>1, Invariant, PTL

\* No position moves before its intent has evidence.
THEOREM PositionsAreEvidenced == Spec => []PositionIsEvidenced
<1>1. IInv => PositionIsEvidenced
  BY DEF IInv
<1>2. QED
  BY <1>1, Invariant, PTL

\* What an operation holds of its intent stays true until it writes it.
THEOREM OperationsFollowBook == Spec => []OperationFollowsBook
<1>1. IInv => OperationFollowsBook
  BY DEF IInv
<1>2. QED
  BY <1>1, Invariant, PTL

\* The ledger never rewrites what it has said, save for one lifecycle stage.
THEOREM LedgerIsPermanent == Spec => EvidenceIsPermanent
<1>1. IInv /\ [Next]_vars => [Permanent]_vars
  BY StepKinds, PermanentStep
<1>2. QED
  BY <1>1, Invariant, PTL DEF Spec, EvidenceIsPermanent, Permanent

-----------------------------------------------------------------------------
(* The position book. *)

\* The book that nothing was claimed in is the book of the initial state.
LEMMA InitBook == Init => Book!BookInit
  BY StageFacts
  DEF Init, Book!BookInit, TermsOf, Published, NoIntent, NoEvidence, Intent

\* The stage the evidence shows is that of the intent's own slot.
LEMMA PublishedStage ==
    ASSUME IInv, NEW c \in Cycle, book[c] # NoIntent
    PROVE  LET slot == evidence[c][book[c].instrument]
           IN  /\ slot.code = Intent =>
                    /\ slot.life \in Lifecycle
                    /\ Published(c) = Stage(slot.life)
                    /\ Published(c) \in 1..Stage(book[c].life)
               /\ slot.code # Intent =>
                    Published(c) = 0 /\ Stage(book[c].life) = 1
<1> DEFINE slot == evidence[c][book[c].instrument]
<1> USE DEF IInv
<1>1. book[c].instrument \in Instrument /\ Stage(book[c].life) \in 1..4
  BY UnresolvedStages
<1>2. slot \in Evidence \union {NoEvidence}
  BY <1>1 DEF TypeOK
<1>3. ASSUME slot.code = Intent
      PROVE  /\ slot.life \in Lifecycle
             /\ Published(c) = Stage(slot.life)
             /\ Published(c) \in 1..Stage(book[c].life)
  <2>1. slot.life \in Lifecycle
    BY <1>2, <1>3 DEF Evidence, NoEvidence, Verdict, Intent
  <2>2. Published(c) = Stage(slot.life)
    BY <1>3 DEF Published
  <2>3. Stage(slot.life) <= Stage(book[c].life)
    BY <1>1, <1>3 DEF EvidenceFollowsBook
  <2>4. QED
    BY <1>1, <2>1, <2>2, <2>3, StageFacts
<1>4. ASSUME slot.code # Intent
      PROVE  Published(c) = 0 /\ Stage(book[c].life) = 1
  BY <1>1, <1>4 DEF Published, PositionIsEvidenced
<1>5. QED
  BY <1>3, <1>4

\* A verdict's entry publishes nothing; an intent's entry, one stage at most.
LEMMA RecordingPublishes ==
    ASSUME IInv, NEW c \in Cycle, NEW i \in Instrument, NEW e \in Evidence,
           Recording(c, i, e)
    PROVE  Book!Publish(c) \/ UNCHANGED Book!bookVars
<1> USE DEF IInv
<1>1. evidence \in [Cycle -> [Instrument -> Evidence \union {NoEvidence}]]
  BY DEF TypeOK
<1>2. /\ evidence'[c][i] = e
      /\ \A d \in Cycle, j \in Instrument :
            d # c \/ j # i => evidence'[d][j] = evidence[d][j]
      /\ UNCHANGED book
  BY <1>1 DEF Recording
<1>3. \A d \in Cycle : book[d] # NoIntent => book[d].instrument \in Instrument
  BY UnresolvedStages
<1>4. \A d \in Cycle : d # c => Published(d)' = Published(d)
  BY <1>2, <1>3 DEF Published
<1>5. CASE Published(c)' = Published(c)
  BY <1>2, <1>4, <1>5 DEF Book!bookVars, TermsOf
<1>6. CASE Published(c)' # Published(c)
  <2>1. book[c] # NoIntent /\ book[c].instrument = i
    BY <1>2, <1>3, <1>6 DEF Published
  <2>2. e.code = Intent
    <3>1. evidence[c][i] = NoEvidence \/ evidence[c][i].code = e.code
      BY DEF Recording, Accepts
    <3>2. QED
      BY <1>2, <1>6, <2>1, <3>1 DEF Published, NoEvidence, Intent
  <2>3. Published(c)' = Stage(e.life)
    BY <1>2, <2>1, <2>2 DEF Published
  <2>4. /\ Published(c)' = Published(c) + 1
        /\ Published(c) < Stage(book[c].life)
    <3>1. Stage(e.life) \in 1..Stage(book[c].life)
          /\ Stage(book[c].life) \in 0..4
      BY <2>2, UnresolvedStages DEF Recording
    <3>2. CASE evidence[c][i] = NoEvidence
      <4>1. Published(c) = 0 /\ Stage(book[c].life) = 1
        BY <2>1, <3>2, PublishedStage DEF NoEvidence, Intent
      <4>2. QED
        BY <2>3, <3>1, <4>1
    <3>3. CASE evidence[c][i] # NoEvidence
      <4>1. evidence[c][i].code = Intent /\ e.life \in NextStage(evidence[c][i].life)
        BY <1>6, <2>1, <2>2, <2>3, <3>3 DEF Recording, Accepts, Published
      <4>2. Published(c) = Stage(evidence[c][i].life)
        BY <2>1, <4>1 DEF Published
      <4>3. QED
        BY <2>1, <2>3, <3>1, <4>1, <4>2, StageFacts, PublishedStage
    <3>4. QED
      BY <3>2, <3>3
  <2>5. QED
    BY <1>2, <1>4, <2>4 DEF Book!Publish, TermsOf
<1>7. QED
  BY <1>5, <1>6

\* An insert claims the cycle and leaves what is published alone.
LEMMA PuttingClaims ==
    ASSUME IInv, NEW c \in Cycle, NEW intent \in Record, Putting(c, intent)
    PROVE  \E t \in [instrument : Instrument, level : Level] : Book!Claim(c, t)
<1> DEFINE t == [instrument |-> intent.instrument, level |-> intent.level]
<1> USE DEF IInv
<1>1. book \in [Cycle -> Record \union {NoIntent}]
  BY DEF TypeOK
<1>2. book'[c] = intent /\ \A d \in Cycle : d # c => book'[d] = book[d]
  BY <1>1 DEF Putting
<1>3. intent.instrument \in Instrument /\ intent # NoIntent
  BY InstrumentAssumption DEF Record, NoIntent
<1>4. evidence[c][intent.instrument].code # Intent
  BY <1>3, InstrumentAssumption DEF EvidenceFollowsBook, Putting, NoIntent
<1>5. Published(c) = 0 /\ Published(c)' = 0
  BY <1>2, <1>4 DEF Published, Putting
<1>6. \A d \in Cycle : Published(d)' = Published(d)
  BY <1>2, <1>5 DEF Published, Putting
<1>7. \A d \in Cycle : TermsOf(d)' = IF d = c THEN t ELSE TermsOf(d)
  BY <1>2 DEF TermsOf
<1>8. \A d \in Cycle :
        Stage(book'[d].life) = IF d = c THEN 1 ELSE Stage(book[d].life)
  BY <1>2, StageFacts DEF Putting
<1>9. \A d \in Cycle : Stage(book[d].life) \notin {1, 2}
  BY UnresolvedStages DEF Putting
<1>10. Stage(book[c].life) = 0
  BY UnresolvedStages DEF Putting
<1>11. t \in [instrument : Instrument, level : Level]
  BY DEF Record
<1>12. Book!Claim(c, t)
  BY <1>6, <1>7, <1>8, <1>9, <1>10 DEF Book!Claim, Book!Pending
<1>13. QED
  BY <1>11, <1>12

\* A transition moves a published intent on.
LEMMA MovingMovesOn ==
    ASSUME IInv, NEW c \in Cycle, NEW life \in Lifecycle, Moving(c, life)
    PROVE  Book!MoveOn(c)
<1> USE DEF IInv
<1>1. book \in [Cycle -> Record \union {NoIntent}]
  BY DEF TypeOK
<1>2. /\ book'[c] = [book[c] EXCEPT !.life = life]
      /\ \A d \in Cycle : d # c => book'[d] = book[d]
  BY <1>1 DEF Moving
<1>3. /\ book'[c].instrument = book[c].instrument
      /\ book'[c].level = book[c].level
      /\ book'[c].life = life
      /\ book'[c] # NoIntent /\ book[c] # NoIntent
  <2>1. book[c] \in Record /\ book'[c] \in Record
    BY <1>2 DEF Moving, Record
  <2>2. NoIntent \notin Record
    BY InstrumentAssumption DEF NoIntent, Record
  <2>3. QED
    BY <1>2, <2>1, <2>2 DEF Record
<1>4. Stage(life) = Stage(book[c].life) + 1 /\ Stage(book[c].life) \in 1..3
  BY <1>3, StageFacts, UnresolvedStages DEF Moving
<1>5. Published(c) # 0
  BY <1>3, PublishedStage DEF Moving
<1>6. \A d \in Cycle : Published(d)' = Published(d) /\ TermsOf(d)' = TermsOf(d)
  BY <1>2, <1>3 DEF Published, TermsOf, Moving
<1>7. QED
  BY <1>2, <1>3, <1>4, <1>5, <1>6 DEF Book!MoveOn

\* Every step of the runtime is a step of the book or leaves it alone.
LEMMA StepBook == IInv /\ [Next]_vars => [Book!BookNext]_(Book!bookVars)
<1> SUFFICES ASSUME IInv, [Next]_vars
             PROVE  Book!BookNext \/ UNCHANGED Book!bookVars
  OBVIOUS
<1>1. StepKind
  BY StepKinds
<1>2. UNCHANGED <<book, evidence>> => UNCHANGED Book!bookVars
  BY DEF Book!bookVars, TermsOf, Published
<1>3. QED
  BY <1>1, <1>2, RecordingPublishes, PuttingClaims, MovingMovesOn
  DEF StepKind, Book!BookNext

\* The runtimes, their ledger and their store together implement the position
\* book, whatever fails and whoever is superseded.
THEOREM RuntimeImplementsBook == Spec => ImplementsPositionBook
<1>1. Init => Book!BookInit
  BY InitBook
<1>2. IInv /\ [Next]_vars => [Book!BookNext]_(Book!bookVars)
  BY StepBook
<1>3. QED
  BY <1>1, <1>2, Invariant, PTL
  DEF Spec, ImplementsPositionBook, Book!BookSpec

=============================================================================
