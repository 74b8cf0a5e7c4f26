------------------------- MODULE OfflinePaperProofs -------------------------
(***************************************************************************)
(* Proofs about OfflinePaper for any number of runs and fixtures.  The     *)
(* order of the argument:                                                  *)
(*                                                                         *)
(*   1. Every step keeps TypeOK.                                           *)
(*   2. What is durable only grows (Durable): no step takes back an order, *)
(*      a state that was reached, a closed position, an exit, a request or *)
(*      a row of the chain.                                                *)
(*   3. So what a run relies on at its next call (Backed) stays so while   *)
(*      others act, and its own step establishes what the next call needs. *)
(*   4. With that each safety property is kept by every step.              *)
(*   5. Under the invariant every step is one of the abstract trade, or    *)
(*      leaves it alone.                                                   *)
(***************************************************************************)
EXTENDS OfflinePaper, FiniteSetTheorems, TLAPS

-----------------------------------------------------------------------------
(* Types. *)

\* Every call the code goes on to is a step.
LEMMA StepTypes ==
    /\ Idle \in Step /\ Down \in Step /\ FailSafe \in Step /\ Resume \in Step
    /\ \A p \in Phase : Write(p) \in Step
    /\ \A l \in LifecycleState : Move(l) \in Step
    /\ \A n \in Preamble \union Reading \union Writing : Call(n) \in Step
BY DEF Step, Ended

LEMMA NextCallTypes == \A l : NextCall(l) \in Step
BY StepTypes DEF NextCall, LifecycleState, Reading

LEMMA AfterAppendTypes ==
    \A c \in Conductor, p \in Phase : AfterAppend(c, p) \in Step
BY StepTypes
   DEF AfterAppend, Phase, Execution, LifecycleState, Terminal

LEMMA AfterMoveTypes == \A l : AfterMove(l) \in Step
BY StepTypes DEF AfterMove, Phase, Execution, LifecycleState, Terminal

\* The types of a run's own state.
LocalTypes ==
    /\ at \in [Conductor -> Step]
    /\ source \in [Conductor -> Source \union {None}]
    /\ held \in [Conductor -> Held]

LEMMA NothingHeldType == NothingHeld \in Held
BY DEF NothingHeld, Held

\* Going on keeps the types of a run's own state.
LEMMA GoWithTypes ==
    ASSUME LocalTypes, NEW c \in Conductor, NEW step \in Step, NEW now \in Held,
           GoWith(c, step, now)
    PROVE  LocalTypes'
BY NothingHeldType DEF GoWith, LocalTypes

LEMMA GoTypes ==
    ASSUME LocalTypes, NEW c \in Conductor, NEW step \in Step, Go(c, step)
    PROVE  LocalTypes'
<1>1. held[c] \in Held
  BY DEF LocalTypes
<1>2. QED
  BY <1>1, GoWithTypes DEF Go

\* TypeOK by the database a variable is in.
JournalTypes ==
    /\ opened \in [{CycleOf[s] : s \in Source} -> Source \union {None}]
    /\ risk \in [Source -> Decision \union {None}]
    /\ life \in [Source -> LifecycleState \union {None}]
    /\ reached \in [Source -> SUBSET LifecycleState]
    /\ request \in [Source -> BOOLEAN]
LineageTypes ==
    /\ DOMAIN lineage = Source
    /\ \A s \in Source : DOMAIN lineage[s] = Phase
    /\ \A s \in Source, p \in Phase :
            lineage[s][p] = None \/ lineage[s][p] \in Payload(p)
BookTypes ==
    /\ order \in [Source -> {"accepted", "rejected", None}]
    /\ position \in [Source -> {"OPEN", "CLOSED", None}]
    /\ exited \in [Source -> BOOLEAN]
    /\ balance \in Nat

LEMMA TypeParts ==
    TypeOK <=> JournalTypes /\ LineageTypes /\ BookTypes /\ LocalTypes
BY DEF TypeOK, JournalTypes, LineageTypes, BookTypes, LocalTypes

\* A run that goes on has a fixture, and one that does not holds nothing.
RunsAreNamed ==
    \A c \in Conductor :
        /\ at[c] \notin Ended => source[c] \in Source
        /\ at[c] \in Ended => held[c] = NothingHeld

TInv == TypeOK /\ RunsAreNamed

\* What a row of the chain is written with has the type of the row.
LEMMA WrittenTypes ==
    ASSUME TInv, NEW c \in Conductor, source[c] \in Source, NEW p \in Phase
    PROVE  Written(c, p) = None \/ Written(c, p) \in Payload(p)
<1>1. held[c].fill \in Fill \union {None} /\ held[c].tally \in (Nat \X Nat) \union {None}
  BY DEF TInv, TypeOK, Held
<1>2. CASE p = "EXECUTION"
  BY <1>1, <1>2 DEF Written, Payload
<1>3. CASE p = "RECONCILIATION"
  BY <1>1, <1>3 DEF Written, Payload
<1>4. CASE p \notin {"EXECUTION", "RECONCILIATION"}
  BY <1>4 DEF Written, Payload
<1>5. QED
  BY <1>2, <1>3, <1>4

LEMMA EnterTypes ==
    ASSUME JournalTypes, NEW s \in Source, NEW l \in LifecycleState, Enter(s, l),
           UNCHANGED <<opened, risk, request>>
    PROVE  JournalTypes'
BY DEF JournalTypes, Enter

\* The fixture of a run that is under way; c's own step names or frees it.
LEMMA NamesKept ==
    ASSUME TInv, NEW c \in Conductor, NEW step, NEW now,
           at[c] \notin Ended, GoWith(c, step, now)
    PROVE  RunsAreNamed'
BY DEF TInv, TypeOK, RunsAreNamed, GoWith

\* The steps of a run that has not ended.
LEMMA StepsAreBusy ==
    /\ FailSafe \notin Ended /\ Resume \notin Ended
    /\ \A x : Write(x) \notin Ended /\ Move(x) \notin Ended /\ Call(x) \notin Ended
BY DEF FailSafe, Resume, Write, Move, Call, Idle, Down, Ended

LEMMA TypesAtStart == Init => TInv
<1> SUFFICES ASSUME Init PROVE TInv
  OBVIOUS
<1>1. JournalTypes
  BY DEF Init, JournalTypes
<1>2. LineageTypes
  BY DEF Init, LineageTypes
<1>3. BookTypes
  BY DEF Init, BookTypes
<1>4. LocalTypes
  BY StepTypes, NothingHeldType DEF Init, LocalTypes
<1>5. RunsAreNamed
  BY DEF Init, RunsAreNamed, Ended
<1>6. QED
  BY <1>1, <1>2, <1>3, <1>4, <1>5, TypeParts DEF TInv

LEMMA TypesHold == Spec => []TInv
<1>1. Init => TInv
  BY TypesAtStart
<1>2. TInv /\ [Next]_vars => TInv'
  <2> SUFFICES ASSUME TInv, [Next]_vars PROVE TInv'
    OBVIOUS
  <2>0. /\ JournalTypes /\ LineageTypes /\ BookTypes /\ LocalTypes
        /\ RunsAreNamed
    BY TypeParts DEF TInv
  <2>z. JournalTypes' /\ LineageTypes' /\ BookTypes' /\ LocalTypes'
            /\ RunsAreNamed' => TInv'
    BY DEF TInv, TypeOK, JournalTypes, LineageTypes, BookTypes, LocalTypes
  <2>a. ASSUME UNCHANGED journal PROVE JournalTypes' /\ LineageTypes'
    BY <2>0, <2>a DEF journal, JournalTypes, LineageTypes
  <2>b. ASSUME UNCHANGED books PROVE BookTypes'
    BY <2>0, <2>b DEF books, BookTypes
  <2>c. ASSUME UNCHANGED lineage PROVE LineageTypes'
    BY <2>0, <2>c DEF LineageTypes
  <2>g. ASSUME NEW c \in Conductor, NEW step \in Step, at[c] \notin Ended,
               Go(c, step)
        PROVE  LocalTypes' /\ RunsAreNamed'
    BY <2>0, <2>g, GoTypes, NamesKept DEF Go
  <2>h. ASSUME NEW c \in Conductor, NEW step \in Step, NEW now \in Held,
               at[c] \notin Ended, GoWith(c, step, now)
        PROVE  LocalTypes' /\ RunsAreNamed'
    BY <2>0, <2>h, GoWithTypes, NamesKept
  <2>i. ASSUME NEW c \in Conductor, at[c] \notin Ended
        PROVE  source[c] \in Source /\ held[c] \in Held
    BY <2>0, <2>i DEF RunsAreNamed, LocalTypes
  <2>p. Idle \in Step /\ Down \in Step /\ FailSafe \in Step /\ Resume \in Step
    BY StepTypes
  <2>n. \A n \in Preamble \union Reading \union Writing : Call(n) \in Step
    BY StepTypes
  <2>1. ASSUME NEW c \in Conductor, NEW s \in Input[c], Start(c, s)
        PROVE  TInv'
    <3>1. s \in Source
      BY SourceAssumption
    <3>2. Call("state") \in Step
      BY <2>n DEF Preamble
    <3>3. LocalTypes'
      BY <2>0, <2>1, <3>1, <3>2 DEF Start, LocalTypes
    <3>4. RunsAreNamed'
      BY <2>0, <2>1, <3>1, StepsAreBusy DEF Start, LocalTypes, RunsAreNamed
    <3>5. JournalTypes'
      BY <2>0, <2>1, <3>1 DEF Start, JournalTypes
    <3>6. LineageTypes' /\ BookTypes'
      BY <2>1, <2>b, <2>c DEF Start
    <3>7. QED
      BY <3>3, <3>4, <3>5, <3>6, <2>z
  <2>3. ASSUME NEW c \in Conductor, ReadState(c) PROVE TInv'
    <3>1. at[c] \notin Ended
      BY <2>3, StepsAreBusy DEF ReadState
    <3>2. Call("risk") \in Step
      BY <2>n DEF Preamble
    <3>3. LocalTypes' /\ RunsAreNamed'
      <4>1. Go(c, Resume) \/ Go(c, Call("risk")) \/ Go(c, Idle)
        BY <2>3 DEF ReadState
      <4>2. QED
        BY <2>g, <2>p, <3>1, <3>2, <4>1
    <3>4. QED
      BY <2>3, <2>a, <2>b, <3>3, <2>z DEF ReadState
  <2>4. ASSUME NEW c \in Conductor, NEW decision \in Decision,
               RecordRisk(c, decision)
        PROVE  TInv'
    <3>1. at[c] \notin Ended
      BY <2>4, StepsAreBusy DEF RecordRisk
    <3>2. Call("create_intent") \in Step
      BY <2>n DEF Preamble
    <3>3. LocalTypes' /\ RunsAreNamed'
      <4>1. Go(c, Call("create_intent")) \/ Go(c, Idle)
        BY <2>4 DEF RecordRisk
      <4>2. QED
        BY <2>g, <2>p, <3>1, <3>2, <4>1
    <3>4. JournalTypes'
      BY <2>0, <2>4, <2>i, <3>1 DEF RecordRisk, JournalTypes
    <3>5. LineageTypes' /\ BookTypes'
      BY <2>4, <2>b, <2>c DEF RecordRisk
    <3>6. QED
      BY <3>3, <3>4, <3>5, <2>z
  <2>5. ASSUME NEW c \in Conductor, CreateIntent(c) PROVE TInv'
    <3>1. at[c] \notin Ended
      BY <2>5, StepsAreBusy DEF CreateIntent
    <3>2. Write("TRADE_INTENT") \in Step
      BY StepTypes DEF Phase
    <3>3. LocalTypes' /\ RunsAreNamed'
      <4>1. Go(c, Write("TRADE_INTENT")) \/ Go(c, Idle)
        BY <2>5 DEF CreateIntent
      <4>2. QED
        BY <2>g, <2>p, <3>1, <3>2, <4>1
    <3>4. JournalTypes'
      BY <2>0, <2>5, <2>i, <3>1 DEF CreateIntent, JournalTypes, LifecycleState
    <3>5. LineageTypes' /\ BookTypes'
      BY <2>5, <2>b, <2>c DEF CreateIntent
    <3>6. QED
      BY <3>3, <3>4, <3>5, <2>z
  <2>6. ASSUME NEW c \in Conductor, AppendLineage(c) PROVE TInv'
    <3> PICK p \in Phase :
          /\ at[c] = Write(p)
          /\ LET s == source[c] IN
              IF lineage[s][p] \in {None, Written(c, p)}
              THEN /\ lineage' = [lineage EXCEPT ![s][p] = Written(c, p)]
                   /\ Go(c, AfterAppend(c, p))
              ELSE lineage' = lineage /\ Go(c, Refusal(p))
          /\ UNCHANGED <<opened, risk, life, reached, request, books>>
      BY <2>6 DEF AppendLineage
    <3>1. at[c] \notin Ended /\ source[c] \in Source
      BY <2>i, StepsAreBusy
    <3>2. LocalTypes' /\ RunsAreNamed'
      <4>1. AfterAppend(c, p) \in Step
        BY AfterAppendTypes
      <4>2. Refusal(p) \in Step
        BY <2>p DEF Refusal
      <4>3. QED
        BY <2>g, <3>1, <4>1, <4>2
    <3>3. LineageTypes'
      <4>1. Written(c, p) = None \/ Written(c, p) \in Payload(p)
        BY <3>1, WrittenTypes
      <4>2. \A q \in Phase : Payload(q)' = Payload(q)
        BY DEF Payload
      <4>3. CASE lineage' = lineage
        BY <2>c, <4>3
      <4>4. CASE lineage' = [lineage EXCEPT ![source[c]][p] = Written(c, p)]
        BY <2>0, <3>1, <4>1, <4>2, <4>4 DEF LineageTypes
      <4>5. QED
        BY <4>3, <4>4
    <3>4. JournalTypes' /\ BookTypes'
      BY <2>0, <2>b DEF JournalTypes
    <3>5. QED
      BY <3>2, <3>3, <3>4, <2>z
  <2>7. ASSUME NEW c \in Conductor, Transition(c) PROVE TInv'
    <3> PICK l \in LifecycleState :
          /\ at[c] = Move(l)
          /\ LET s == source[c] IN
              IF <<life[s], l>> \in Onward
              THEN Enter(s, l) /\ Go(c, AfterMove(l))
              ELSE UNCHANGED <<life, reached>> /\ Go(c, FailSafe)
          /\ UNCHANGED <<opened, risk, lineage, request, books>>
      BY <2>7 DEF Transition
    <3>1. at[c] \notin Ended /\ source[c] \in Source
      BY <2>i, StepsAreBusy
    <3>2. LocalTypes' /\ RunsAreNamed'
      BY <2>g, <2>p, <3>1, AfterMoveTypes
    <3>3. JournalTypes'
      <4>1. CASE Enter(source[c], l)
        BY <2>0, <3>1, <4>1, EnterTypes
      <4>2. CASE UNCHANGED <<life, reached>>
        BY <2>0, <4>2 DEF JournalTypes
      <4>3. QED
        BY <4>1, <4>2
    <3>4. LineageTypes' /\ BookTypes'
      BY <2>b, <2>c
    <3>5. QED
      BY <3>2, <3>3, <3>4, <2>z
  <2>8. ASSUME NEW c \in Conductor, FailIntentSafe(c) PROVE TInv'
    <3>1. at[c] \notin Ended /\ source[c] \in Source
      BY <2>8, <2>i, StepsAreBusy DEF FailIntentSafe
    <3>2. LocalTypes' /\ RunsAreNamed'
      BY <2>8, <2>g, <2>p, <3>1 DEF FailIntentSafe
    <3>3. JournalTypes'
      <4>1. "FAILED_SAFE" \in LifecycleState
        BY DEF LifecycleState, Terminal
      <4>2. CASE Enter(source[c], "FAILED_SAFE")
        BY <2>0, <2>8, <3>1, <4>1, <4>2, EnterTypes DEF FailIntentSafe
      <4>3. CASE UNCHANGED <<life, reached>>
        BY <2>0, <2>8, <4>3 DEF FailIntentSafe, JournalTypes
      <4>4. QED
        BY <2>8, <4>2, <4>3 DEF FailIntentSafe
    <3>4. LineageTypes' /\ BookTypes'
      BY <2>8, <2>b, <2>c DEF FailIntentSafe
    <3>5. QED
      BY <3>2, <3>3, <3>4, <2>z
  <2>9. ASSUME NEW c \in Conductor, ReadIntent(c) PROVE TInv'
    <3>1. at[c] \notin Ended
      BY <2>9, StepsAreBusy DEF ReadIntent
    <3>2. LocalTypes' /\ RunsAreNamed'
      BY <2>9, <2>g, <3>1, NextCallTypes DEF ReadIntent
    <3>3. QED
      BY <2>9, <2>a, <2>b, <3>2, <2>z DEF ReadIntent
  <2>e. Write("EXECUTION") \in Step
    BY StepTypes DEF Phase, Execution
  <2>f. ASSUME NEW c \in Conductor, at[c] \notin Ended, NEW f \in Fill \union {None},
               WithFill(c, f)
        PROVE  LocalTypes' /\ RunsAreNamed'
    <3>1. [held[c] EXCEPT !.fill = f] \in Held
      BY <2>i, <2>f DEF Held
    <3>2. Call("submit") \in Step
      BY <2>n DEF Writing
    <3>3. PICK step \in Step : GoWith(c, step, [held[c] EXCEPT !.fill = f])
      BY <2>e, <2>f, <2>p, <3>2 DEF WithFill
    <3>4. QED
      BY <2>f, <2>h, <3>1, <3>3
  <2>m. ASSUME NEW c \in Conductor, at[c] \notin Ended, NEW f \in Fill,
               Submitted(c, f)
        PROVE  LocalTypes' /\ RunsAreNamed'
    <3>1. [held[c] EXCEPT !.fill = f] \in Held
      BY <2>i, <2>m DEF Held
    <3>2. QED
      BY <2>e, <2>h, <2>m, <3>1 DEF Submitted
  <2>10. ASSUME NEW c \in Conductor, ReadOrder(c) PROVE TInv'
    <3>1. at[c] \notin Ended
      BY <2>10, StepsAreBusy DEF ReadOrder
    <3>2. PICK there \in BOOLEAN :
            GoWith(c, Call("fill"), [held[c] EXCEPT !.ordered = there])
      BY <2>10 DEF ReadOrder
    <3>3. [held[c] EXCEPT !.ordered = there] \in Held
      BY <2>i, <3>1 DEF Held
    <3>4. Call("fill") \in Step
      BY <2>n DEF Reading
    <3>5. LocalTypes' /\ RunsAreNamed'
      BY <2>h, <3>1, <3>2, <3>3, <3>4
    <3>6. QED
      BY <2>10, <2>a, <2>b, <3>5, <2>z DEF ReadOrder
  <2>11. ASSUME NEW c \in Conductor, ReadFill(c) PROVE TInv'
    <3>1. at[c] \notin Ended
      BY <2>11, StepsAreBusy DEF ReadFill
    <3>2. order[source[c]] \in Fill \union {None}
      BY <2>0, <2>i, <3>1 DEF BookTypes, Fill
    <3>3. LocalTypes' /\ RunsAreNamed'
      BY <2>11, <2>f, <3>1, <3>2 DEF ReadFill
    <3>4. QED
      BY <2>11, <2>a, <2>b, <3>3, <2>z DEF ReadFill
  <2>12. ASSUME NEW c \in Conductor, Submit(c) PROVE TInv'
    <3>1. at[c] \notin Ended /\ source[c] \in Source
      BY <2>12, <2>i, StepsAreBusy DEF Submit
    <3>2. PICK f \in Fill : Submitted(c, f)
      BY <2>0, <2>12, <3>1 DEF Submit, BookTypes, Fill
    <3>3. LocalTypes' /\ RunsAreNamed'
      BY <2>m, <3>1, <3>2
    <3>4. BookTypes'
      BY <2>0, <2>12, <3>1 DEF Submit, BookTypes
    <3>5. QED
      BY <2>12, <2>a, <3>3, <3>4, <2>z DEF Submit
  <2>13. ASSUME NEW c \in Conductor, ReadConfirmation(c) PROVE TInv'
    <3>1. at[c] \notin Ended
      BY <2>13, StepsAreBusy DEF ReadConfirmation, Read
    <3>2. Write("CONFIRMATION") \in Step
      BY StepTypes DEF Phase, Execution
    <3>3. LocalTypes' /\ RunsAreNamed'
      BY <2>13, <2>g, <2>p, <3>1, <3>2 DEF ReadConfirmation, Read
    <3>4. QED
      BY <2>13, <2>a, <2>b, <3>3, <2>z DEF ReadConfirmation, Read
  <2>14. ASSUME NEW c \in Conductor, ReadOpenPosition(c) PROVE TInv'
    <3>1. at[c] \notin Ended
      BY <2>14, StepsAreBusy DEF ReadOpenPosition, Read
    <3>2. Call("record_exit_request") \in Step
      BY <2>n DEF Writing
    <3>3. LocalTypes' /\ RunsAreNamed'
      BY <2>14, <2>g, <2>p, <3>1, <3>2 DEF ReadOpenPosition, Read
    <3>4. QED
      BY <2>14, <2>a, <2>b, <3>3, <2>z DEF ReadOpenPosition, Read
  <2>15. ASSUME NEW c \in Conductor, RecordExitRequest(c) PROVE TInv'
    <3>1. at[c] \notin Ended /\ source[c] \in Source
      BY <2>15, <2>i, StepsAreBusy DEF RecordExitRequest
    <3>2. Move("EXIT_REQUESTED") \in Step
      BY StepTypes DEF LifecycleState
    <3>3. LocalTypes' /\ RunsAreNamed'
      BY <2>15, <2>g, <3>1, <3>2 DEF RecordExitRequest
    <3>4. JournalTypes'
      BY <2>0, <2>15, <3>1 DEF RecordExitRequest, JournalTypes
    <3>5. QED
      BY <2>15, <2>b, <2>c, <3>3, <3>4, <2>z DEF RecordExitRequest
  <2>16. ASSUME NEW c \in Conductor, ReadExit(c) PROVE TInv'
    <3>1. at[c] \notin Ended
      BY <2>16, StepsAreBusy DEF ReadExit, Read
    <3>2. Write("EXIT") \in Step /\ Call("close") \in Step
      BY <2>n, StepTypes DEF Phase, Execution, Writing
    <3>3. LocalTypes' /\ RunsAreNamed'
      BY <2>16, <2>g, <2>p, <3>1, <3>2 DEF ReadExit, Read
    <3>4. QED
      BY <2>16, <2>a, <2>b, <3>3, <2>z DEF ReadExit, Read
  <2>17. ASSUME NEW c \in Conductor, Close(c) PROVE TInv'
    <3>1. at[c] \notin Ended /\ source[c] \in Source
      BY <2>17, <2>i, StepsAreBusy DEF Close
    <3>2. Write("EXIT") \in Step
      BY StepTypes DEF Phase, Execution
    <3>3. LocalTypes' /\ RunsAreNamed'
      BY <2>17, <2>g, <2>p, <3>1, <3>2 DEF Close
    <3>4. BookTypes'
      <4>1. CASE ~exited[source[c]] /\ position[source[c]] = "OPEN"
        <5>1. /\ position' = [position EXCEPT ![source[c]] = "CLOSED"]
              /\ exited' = [exited EXCEPT ![source[c]] = TRUE]
              /\ balance' = balance + 1
              /\ order' = order
          BY <2>17, <4>1 DEF Close
        <5>2. QED
          BY <2>0, <3>1, <5>1 DEF BookTypes
      <4>2. CASE ~(~exited[source[c]] /\ position[source[c]] = "OPEN")
        BY <2>0, <2>17, <3>1, <4>2 DEF Close, BookTypes
      <4>3. QED
        BY <4>1, <4>2
    <3>5. QED
      BY <2>17, <2>a, <3>3, <3>4, <2>z DEF Close
  <2>18. ASSUME NEW c \in Conductor, ReadReconciliation(c) PROVE TInv'
    <3>1. at[c] \notin Ended
      BY <2>18, StepsAreBusy DEF ReadReconciliation
    <3>2. Write("RECONCILIATION") \in Step
      BY StepTypes DEF Phase, Execution
    <3>3. Cardinality(Ordered) \in Nat /\ Cardinality(Exits) \in Nat
      BY SourceAssumption, FS_Subset, FS_CardinalityType DEF Ordered, Exits
    <3>4. [held[c] EXCEPT !.tally = <<Cardinality(Ordered), Cardinality(Exits)>>]
            \in Held
      BY <2>i, <3>1, <3>3 DEF Held
    <3>5. LocalTypes' /\ RunsAreNamed'
      BY <2>18, <2>h, <2>p, <3>1, <3>2, <3>4 DEF ReadReconciliation
    <3>6. QED
      BY <2>18, <2>a, <2>b, <3>5, <2>z DEF ReadReconciliation
  <2>19. ASSUME NEW c \in Conductor, CallFails(c) PROVE TInv'
    <3>1. at[c] \notin Ended
      BY <2>19, StepsAreBusy DEF CallFails, BlockingCall, SafeCall
    <3>2. LocalTypes' /\ RunsAreNamed'
      <4>1. CASE Go(c, Down)
        BY <2>g, <2>p, <3>1, <4>1
      <4>2. CASE Go(c, FailSafe)
        BY <2>g, <2>p, <3>1, <4>2
      <4>3. CASE GoWith(c, Call("fill"), [held[c] EXCEPT !.ordered = FALSE])
        <5>1. [held[c] EXCEPT !.ordered = FALSE] \in Held
          BY <2>i, <3>1 DEF Held
        <5>2. Call("fill") \in Step
          BY <2>n DEF Reading
        <5>3. QED
          BY <2>h, <3>1, <4>3, <5>1, <5>2
      <4>4. CASE WithFill(c, None)
        BY <2>f, <3>1, <4>4
      <4>5. CASE Submitted(c, "unknown")
        BY <2>m, <3>1, <4>5 DEF Fill
      <4>6. CASE Go(c, Call("close"))
        <5>1. Call("close") \in Step
          BY <2>n DEF Writing
        <5>2. QED
          BY <2>g, <3>1, <4>6, <5>1
      <4>7. QED
        BY <2>19, <4>1, <4>2, <4>3, <4>4, <4>5, <4>6 DEF CallFails
    <3>3. QED
      BY <2>19, <2>a, <2>b, <3>2, <2>z DEF CallFails
  <2>20. ASSUME NEW c \in Conductor, Crash(c) PROVE TInv'
    BY <2>20, <2>a, <2>b, <2>g, <2>p, <2>z DEF Crash
  <2>21. CASE UNCHANGED vars
    <3>1. LocalTypes' /\ RunsAreNamed'
      BY <2>0, <2>21 DEF vars, local, LocalTypes, RunsAreNamed
    <3>2. QED
      BY <2>21, <2>a, <2>b, <3>1, <2>z DEF vars
  <2>22. ASSUME NEW c \in Conductor, DecideRisk(c) PROVE TInv'
    BY <2>4, <2>22 DEF DecideRisk, Decision
  <2>23. ASSUME NEW c \in Conductor, RiskUnknown(c) PROVE TInv'
    BY <2>4, <2>23 DEF RiskUnknown, Decision
  <2>24. QED
    BY <2>1, <2>3, <2>5, <2>6, <2>7, <2>8, <2>9, <2>10, <2>11, <2>12,
       <2>13, <2>14, <2>15, <2>16, <2>17, <2>18, <2>19, <2>20, <2>21, <2>22,
       <2>23
    DEF Next, Work
<1>3. QED
  BY <1>1, <1>2, PTL DEF Spec
-----------------------------------------------------------------------------
(* What a run relies on. *)

\* The state an intent is in is one it has entered.
LifeIsReached == \A s \in Source : life[s] # None => life[s] \in reached[s]

\* What a run on fixture s, with `fill` in hand, relies on at `step`: an
\* acceptance it read is so, a submission was claimed, a verdict and a
\* confirmation are in the chain, an exit was asked for, and what it enters as
\* closed is closed.
Needs(s, step, fill) ==
    /\ fill = "accepted" => order[s] = "accepted"
    /\ step \in {Call("order"), Call("fill"), Call("submit")} =>
            "ORDER_SUBMITTED" \in reached[s]
    /\ step = Write("EXECUTION") => fill \in Fill
    /\ step = Move("ORDER_ACCEPTED") =>
            order[s] = "accepted" /\ lineage[s]["EXECUTION"] = "accepted"
    /\ step = Move("ORDER_REJECTED") =>
            lineage[s]["EXECUTION"] \in {"rejected", "unknown"}
    /\ step = Move("POSITION_OPEN") => lineage[s]["CONFIRMATION"] # None
    /\ step = Call("exit") => "EXIT_REQUESTED" \in reached[s]
    /\ step = Call("close") => request[s] /\ "EXIT_REQUESTED" \in reached[s]
    /\ step \in {Write("EXIT"), Move("POSITION_CLOSED")} =>
            position[s] = "CLOSED"
    /\ step = Move("POSITION_CLOSED") => lineage[s]["EXIT"] # None

Backed(c) == Needs(source[c], at[c], held[c].fill)
RunsAreBacked == \A c \in Conductor : Backed(c)

IInv ==
    /\ TInv
    /\ RunsAreBacked
    /\ LifeIsReached
    /\ OrderIsOnRecord
    /\ OnePosition
    /\ MoneyMovesOnce
    /\ JournalIsBacked
    /\ EvidencePrecedesState
    /\ VerdictIsEvidenced
\* The steps at which a run relies on more than what it read.
Relying ==
    {Call("order"), Call("fill"), Call("submit"), Call("exit"), Call("close"),
     Write("EXECUTION"), Write("EXIT"), Move("ORDER_ACCEPTED"),
     Move("ORDER_REJECTED"), Move("POSITION_OPEN"), Move("POSITION_CLOSED")}

LEMMA FreeSteps ==
    /\ Idle \notin Relying /\ Down \notin Relying /\ FailSafe \notin Relying /\ Resume \notin Relying
    /\ \A p \in Phase \ {"EXECUTION", "EXIT"} : Write(p) \notin Relying
    /\ \A l \in {"INTENT_CREATED", "ORDER_SUBMITTED", "EXIT_REQUESTED",
                 "RECONCILED"} : Move(l) \notin Relying
    /\ \A n \in {"state", "risk", "create_intent",
                 "confirmation", "open_position", "record_exit_request",
                 "reconciliation"} : Call(n) \notin Relying
BY DEF Relying, Idle, Down, FailSafe, Resume, Write, Move, Call, Phase,
       Execution

LEMMA FreeNeeds ==
    ASSUME NEW s, NEW step, NEW fill, step \notin Relying,
           fill = "accepted" => order[s] = "accepted"
    PROVE  Needs(s, step, fill)
BY DEF Needs, Relying

\* What is in the tables stays there.
Durable ==
    \A s \in Source :
        /\ order[s] # None => order'[s] = order[s]
        /\ position[s] = "CLOSED" => position'[s] = "CLOSED"
        /\ reached[s] \subseteq reached'[s]
        /\ request[s] => request'[s]
        /\ \A p \in Phase :
                lineage[s][p] # None => lineage'[s][p] = lineage[s][p]

LEMMA NeedsAreDurable ==
    ASSUME Durable, NEW s \in Source, NEW step, NEW fill, Needs(s, step, fill)
    PROVE  Needs(s, step, fill)'
<1>1. /\ order[s] = "accepted" => order'[s] = "accepted"
      /\ position[s] = "CLOSED" => position'[s] = "CLOSED"
      /\ request[s] => request'[s]
      /\ \A l \in LifecycleState : l \in reached[s] => l \in reached'[s]
  BY NoneAssumption DEF Durable
<1>2. \A p \in Phase : lineage[s][p] # None => lineage'[s][p] = lineage[s][p]
  BY DEF Durable
<1>3. /\ lineage[s]["EXECUTION"] \in Fill =>
            lineage'[s]["EXECUTION"] = lineage[s]["EXECUTION"]
      /\ lineage[s]["CONFIRMATION"] # None => lineage'[s]["CONFIRMATION"] # None
      /\ lineage[s]["EXIT"] # None => lineage'[s]["EXIT"] # None
  BY <1>2, NoneAssumption DEF Phase, Execution
<1>4. "ORDER_SUBMITTED" \in LifecycleState /\ "EXIT_REQUESTED" \in LifecycleState
  BY DEF LifecycleState
<1>5. QED
  BY <1>1, <1>3, <1>4 DEF Needs, Fill

\* A run's own step: what the next call needs is what it has then.
LEMMA GoWithBacked ==
    ASSUME TInv, NEW c \in Conductor, NEW s \in Source, s = source[c],
           NEW step, NEW now, GoWith(c, step, now), Needs(s, step, now.fill)'
    PROVE  Backed(c)'
<1>1. at'[c] = step
  BY DEF GoWith, TInv, TypeOK
<1>2. CASE step \in Ended \union {Resume, FailSafe}
  <2>1. held'[c].fill = None
    BY <1>2 DEF GoWith, TInv, TypeOK, NothingHeld
  <2>2. step \notin Relying
    BY <1>2, FreeSteps DEF Ended
  <2>3. QED
    BY <1>1, <2>1, <2>2, NoneAssumption DEF Backed, Needs, Relying
<1>3. CASE step \notin Ended \union {Resume, FailSafe}
  <2>1. held'[c] = now /\ source'[c] = s
    BY <1>3 DEF GoWith, TInv, TypeOK
  <2>2. QED
    BY <1>1, <2>1 DEF Backed, Needs
<1>4. QED
  BY <1>2, <1>3

LEMMA OthersBacked ==
    ASSUME TInv, Durable, NEW d \in Conductor, Backed(d),
           at'[d] = at[d], source'[d] = source[d], held'[d] = held[d]
    PROVE  Backed(d)'
<1>1. CASE at[d] \in Ended
  <2>1. at'[d] \notin Relying /\ held'[d].fill = None
    BY <1>1, FreeSteps DEF TInv, RunsAreNamed, NothingHeld, Ended
  <2>2. QED
    BY <2>1, NoneAssumption DEF Backed, Needs, Relying
<1>2. CASE at[d] \notin Ended
  <2>1. source[d] \in Source
    BY <1>2 DEF TInv, RunsAreNamed
  <2> PICK s \in Source : s = source[d]
    BY <2>1
  <2> PICK step, fill : step = at[d] /\ fill = held[d].fill
    OBVIOUS
  <2>2. Needs(s, step, fill)
    BY DEF Backed
  <2>3. Needs(s, step, fill)'
    BY <2>2, NeedsAreDurable
  <2>4. s = source'[d] /\ step = at'[d] /\ fill = held'[d].fill
    OBVIOUS
  <2>5. QED
    BY <2>3, <2>4 DEF Backed, Needs
<1>3. QED
  BY <1>1, <1>2
-----------------------------------------------------------------------------
(* What a step changes.  Most steps only move a run on (Quiet). *)

Quiet == UNCHANGED <<life, reached, lineage, request, books>>

\* The other runs are where they were.
Alone(c) ==
    \A d \in Conductor \ {c} :
        at'[d] = at[d] /\ source'[d] = source[d] /\ held'[d] = held[d]

LEMMA QuietSteps ==
    ASSUME NEW c \in Conductor,
           \/ \E s \in Input[c] : Start(c, s)
           \/ ReadState(c) \/ DecideRisk(c) \/ RiskUnknown(c)
           \/ ReadIntent(c) \/ ReadOrder(c) \/ ReadFill(c)
           \/ ReadConfirmation(c) \/ ReadOpenPosition(c) \/ ReadExit(c)
           \/ ReadReconciliation(c) \/ CallFails(c) \/ Crash(c)
    PROVE  Quiet
BY DEF Quiet, journal, Start, ReadState, DecideRisk, RiskUnknown,
       RecordRisk, ReadIntent, ReadOrder, ReadFill, ReadConfirmation,
       ReadOpenPosition, ReadExit, Read, ReadReconciliation, CallFails, Crash

LEMMA AloneGo ==
    ASSUME TInv, NEW c \in Conductor, NEW step, NEW now,
           GoWith(c, step, now)
    PROVE  Alone(c)
BY DEF TInv, TypeOK, GoWith, Alone

LEMMA AloneSteps ==
    ASSUME TInv, NEW c \in Conductor,
           \/ \E s \in Input[c] : Start(c, s)
           \/ Work(c) \/ CallFails(c) \/ RiskUnknown(c) \/ Crash(c)
    PROVE  Alone(c)
<1>1. CASE \E s \in Input[c] : Start(c, s)
  BY <1>1 DEF Start, TInv, TypeOK, Alone
<1>2. CASE Work(c)
  <2>1. \E step, now : GoWith(c, step, now)
    <3>2. CASE ReadState(c)
      BY <3>2 DEF ReadState, Go
    <3>3. CASE DecideRisk(c)
      BY <3>3 DEF DecideRisk, RecordRisk, Go
    <3>4. CASE CreateIntent(c)
      BY <3>4 DEF CreateIntent, Go
    <3>5. CASE AppendLineage(c)
      BY <3>5 DEF AppendLineage, Go
    <3>6. CASE Transition(c)
      BY <3>6 DEF Transition, Go
    <3>7. CASE FailIntentSafe(c)
      BY <3>7 DEF FailIntentSafe, Go
    <3>8. CASE ReadIntent(c) \/ ReadOrder(c) \/ ReadFill(c)
      BY <3>8 DEF ReadIntent, ReadOrder, ReadFill, WithFill, Go
    <3>9. CASE Submit(c)
      BY <3>9 DEF Submit, Submitted
    <3>10. CASE ReadConfirmation(c) \/ ReadOpenPosition(c) \/ ReadExit(c)
      BY <3>10 DEF ReadConfirmation, ReadOpenPosition, ReadExit, Read, Go
    <3>11. CASE RecordExitRequest(c) \/ ReadReconciliation(c)
      BY <3>11 DEF RecordExitRequest, ReadReconciliation, Go
    <3>12. CASE Close(c)
      BY <3>12 DEF Close, Go
    <3>13. QED
      BY <1>2, <3>2, <3>3, <3>4, <3>5, <3>6, <3>7, <3>8, <3>9, <3>10,
         <3>11, <3>12
      DEF Work
  <2>2. QED
    BY <2>1, AloneGo
<1>3. CASE CallFails(c)
  <2>1. \E step, now : GoWith(c, step, now)
    BY <1>3 DEF CallFails, Go, WithFill, Submitted
  <2>2. QED
    BY <2>1, AloneGo
<1>4. CASE RiskUnknown(c)
  <2>1. \E step, now : GoWith(c, step, now)
    BY <1>4 DEF RiskUnknown, RecordRisk, Go
  <2>2. QED
    BY <2>1, AloneGo
<1>5. CASE Crash(c)
  BY <1>5, AloneGo DEF Crash, Go
<1>6. QED
  BY <1>1, <1>2, <1>3, <1>4, <1>5

LEMMA QuietIsDurable == Quiet => Durable
BY DEF Quiet, books, Durable

\* A step that enters a state, or writes one row.
LEMMA EnterIsDurable ==
    ASSUME TInv, NEW s \in Source, NEW l \in LifecycleState,
           reached' = [reached EXCEPT ![s] = @ \union {l}],
           UNCHANGED <<lineage, request, books>>
    PROVE  Durable
BY DEF TInv, TypeOK, books, Durable

LEMMA DurableStep ==
    ASSUME TInv, OnePosition, NEW c \in Conductor,
           \/ \E s \in Input[c] : Start(c, s)
           \/ Work(c) \/ CallFails(c) \/ RiskUnknown(c) \/ Crash(c)
    PROVE  Durable
<1>0. at[c] \notin Ended => source[c] \in Source
  BY DEF TInv, RunsAreNamed
<1>1. CASE CreateIntent(c)
  <2>1. source[c] \in Source
    BY <1>0, <1>1, StepsAreBusy DEF CreateIntent
  <2>2. "SIGNAL_DETECTED" \in LifecycleState
    BY DEF LifecycleState
  <2>3. CASE reached' = [reached EXCEPT ![source[c]] = @ \union {"SIGNAL_DETECTED"}]
    BY <1>1, <2>1, <2>2, <2>3, EnterIsDurable DEF CreateIntent
  <2>4. CASE UNCHANGED <<life, reached>>
    BY <1>1, <2>4, QuietIsDurable DEF CreateIntent, Quiet
  <2>5. QED
    BY <1>1, <2>3, <2>4 DEF CreateIntent
<1>2. CASE AppendLineage(c)
  <2> PICK p \in Phase :
        /\ at[c] = Write(p)
        /\ LET s == source[c] IN
            IF lineage[s][p] \in {None, Written(c, p)}
            THEN /\ lineage' = [lineage EXCEPT ![s][p] = Written(c, p)]
                 /\ Go(c, AfterAppend(c, p))
            ELSE lineage' = lineage /\ Go(c, Refusal(p))
        /\ UNCHANGED <<opened, risk, life, reached, request, books>>
    BY <1>2 DEF AppendLineage
  <2>1. source[c] \in Source
    BY <1>0, StepsAreBusy
  <2>2. \A s \in Source, q \in Phase :
            lineage[s][q] # None => lineage'[s][q] = lineage[s][q]
    BY <2>1 DEF TInv, TypeOK
  <2>3. QED
    BY <2>2 DEF books, Durable
<1>3. CASE Transition(c)
  <2> PICK l \in LifecycleState :
        /\ at[c] = Move(l)
        /\ LET s == source[c] IN
            IF <<life[s], l>> \in Onward
            THEN Enter(s, l) /\ Go(c, AfterMove(l))
            ELSE UNCHANGED <<life, reached>> /\ Go(c, FailSafe)
        /\ UNCHANGED <<opened, risk, lineage, request, books>>
    BY <1>3 DEF Transition
  <2>1. source[c] \in Source
    BY <1>0, StepsAreBusy
  <2>2. CASE Enter(source[c], l)
    BY <2>1, <2>2, EnterIsDurable DEF Enter
  <2>3. CASE UNCHANGED <<life, reached>>
    BY <2>3, QuietIsDurable DEF Quiet
  <2>4. QED
    BY <2>2, <2>3
<1>4. CASE FailIntentSafe(c)
  <2>1. source[c] \in Source
    BY <1>0, <1>4, StepsAreBusy DEF FailIntentSafe
  <2>2. "FAILED_SAFE" \in LifecycleState
    BY DEF LifecycleState, Terminal
  <2>3. CASE Enter(source[c], "FAILED_SAFE")
    BY <1>4, <2>1, <2>2, <2>3, EnterIsDurable DEF FailIntentSafe, Enter
  <2>4. CASE UNCHANGED <<life, reached>>
    BY <1>4, <2>4, QuietIsDurable DEF FailIntentSafe, Quiet
  <2>5. QED
    BY <1>4, <2>3, <2>4 DEF FailIntentSafe
<1>5. CASE Submit(c)
  <2>1. source[c] \in Source
    BY <1>0, <1>5, StepsAreBusy DEF Submit
  <2>2. \A s \in Source : order[s] # None => order'[s] = order[s]
    BY <1>5, <2>1 DEF Submit, TInv, TypeOK
  <2>3. \A s \in Source : position[s] = "CLOSED" => position'[s] = "CLOSED"
    <3>1. order[source[c]] = None => position[source[c]] = None
      BY <2>1, NoneAssumption DEF OnePosition
    <3>2. QED
      BY <1>5, <2>1, <3>1, NoneAssumption DEF Submit, TInv, TypeOK
  <2>4. QED
    BY <1>5, <2>2, <2>3 DEF Submit, journal, Durable
<1>6. CASE RecordExitRequest(c)
  BY <1>6, <1>0 DEF RecordExitRequest, books, Durable, TInv, TypeOK
<1>7. CASE Close(c)
  <2>1. source[c] \in Source
    BY <1>0, <1>7, StepsAreBusy DEF Close
  <2>2. \A s \in Source : position[s] = "CLOSED" => position'[s] = "CLOSED"
    BY <1>7, <2>1 DEF Close, TInv, TypeOK
  <2>3. QED
    BY <1>7, <2>2 DEF Close, journal, Durable
<1>8. QED
  BY <1>1, <1>2, <1>3, <1>4, <1>5, <1>6, <1>7, QuietSteps, QuietIsDurable
  DEF Work
-----------------------------------------------------------------------------
(* What a run relies on, it has: the invariant Backed. *)

\* A run goes on to a step that relies on nothing new.
LEMMA FreeGo ==
    ASSUME TInv, Durable, NEW c \in Conductor, at[c] \notin Ended, Backed(c),
           NEW step, NEW now, GoWith(c, step, now), step \notin Relying,
           now.fill = held[c].fill
    PROVE  Backed(c)'
<1> PICK s \in Source : s = source[c]
  BY DEF TInv, RunsAreNamed
<1>0. now.fill = "accepted" => order[s] = "accepted"
  BY DEF Backed, Needs
<1>1. Needs(s, step, now.fill)
  BY <1>0, FreeNeeds
<1>2. Needs(s, step, now.fill)'
  BY <1>1, NeedsAreDurable
<1>3. QED
  BY <1>2, GoWithBacked

\* A run goes on to a step that relies on what is there already.
LEMMA BackedGo ==
    ASSUME TInv, Durable, NEW c \in Conductor, NEW s \in Source,
           s = source[c], NEW step, NEW now, GoWith(c, step, now),
           Needs(s, step, now.fill)
    PROVE  Backed(c)'
BY NeedsAreDurable, GoWithBacked

\* What the invariant says of the tables.
Tables ==
    /\ LifeIsReached /\ OrderIsOnRecord /\ OnePosition /\ MoneyMovesOnce
    /\ JournalIsBacked /\ EvidencePrecedesState /\ VerdictIsEvidenced

\* Go(c, step) for a step that relies on nothing.
LEMMA FreeGoes ==
    ASSUME TInv, Durable, NEW c \in Conductor, at[c] \notin Ended, Backed(c),
           NEW step, Go(c, step), step \notin Relying
    PROVE  Backed(c)'
<1>1. GoWith(c, step, held[c])
  BY DEF Go
<1>2. QED
  BY <1>1, FreeGo

\* An order's verdict is in hand.
LEMMA SubmittedBacked ==
    ASSUME TInv, NEW c \in Conductor, at[c] \notin Ended, NEW f \in Fill,
           Submitted(c, f), f = "accepted" => order'[source[c]] = "accepted"
    PROVE  Backed(c)'
<1> PICK s \in Source : s = source[c]
  BY DEF TInv, RunsAreNamed
<1>1. PICK now : GoWith(c, Write("EXECUTION"), now) /\ now.fill = f
  BY DEF Submitted, TInv, TypeOK, Held
<1>2. Needs(s, Write("EXECUTION"), now.fill)'
  BY <1>1 DEF Needs, Write, Call, Move
<1>3. QED
  BY <1>1, <1>2, GoWithBacked

LEMMA WithFillBacked ==
    ASSUME TInv, Durable, NEW c \in Conductor, at[c] = Call("fill"), Backed(c),
           NEW f \in Fill \union {None}, WithFill(c, f),
           f = "accepted" => order[source[c]] = "accepted"
    PROVE  Backed(c)'
<1> PICK s \in Source : s = source[c]
  BY StepsAreBusy DEF TInv, RunsAreNamed
<1>1. PICK now, step :
        /\ GoWith(c, step, now) /\ now.fill = f
        /\ \/ step = Write("EXECUTION") /\ f # None
           \/ step \in {Call("submit"), FailSafe}
  BY DEF WithFill, TInv, TypeOK, Held
<1>2. "ORDER_SUBMITTED" \in reached[s]
  BY DEF Backed, Needs
<1>3. Needs(s, step, now.fill)
  <2>1. CASE step = Write("EXECUTION") /\ f # None
    BY <1>1, <2>1 DEF Needs, Write, Call, Move
  <2>2. CASE step = Call("submit")
    BY <1>1, <1>2, <2>2 DEF Needs, Write, Call, Move
  <2>3. CASE step = FailSafe
    BY <1>1, <2>3, FreeSteps, FreeNeeds
  <2>4. QED
    BY <1>1, <2>1, <2>2, <2>3
<1>4. QED
  BY <1>1, <1>3, BackedGo
LEMMA AppendBacked ==
    ASSUME TInv, Durable, NEW c \in Conductor, Backed(c), AppendLineage(c)
    PROVE  Backed(c)'
<1> PICK p \in Phase :
      /\ at[c] = Write(p)
      /\ LET s == source[c] IN
          IF lineage[s][p] \in {None, Written(c, p)}
          THEN /\ lineage' = [lineage EXCEPT ![s][p] = Written(c, p)]
               /\ Go(c, AfterAppend(c, p))
          ELSE lineage' = lineage /\ Go(c, Refusal(p))
      /\ UNCHANGED <<opened, risk, life, reached, request, books>>
  BY DEF AppendLineage
<1> PICK s \in Source : s = source[c]
  BY StepsAreBusy DEF TInv, RunsAreNamed
<1>0. at[c] \notin Ended
  BY StepsAreBusy
<1>1. CASE Go(c, Refusal(p))
  BY <1>0, <1>1, FreeSteps, FreeGoes DEF Refusal
<1>2. CASE /\ lineage' = [lineage EXCEPT ![s][p] = Written(c, p)]
           /\ Go(c, AfterAppend(c, p))
  <2>1. GoWith(c, AfterAppend(c, p), held[c])
    BY <1>2 DEF Go
  <2>2. lineage'[s][p] = Written(c, p)
    BY <1>2 DEF TInv, TypeOK
  <2>3. held[c].fill = "accepted" => order'[s] = "accepted"
    BY DEF Backed, Needs, books
  <2>4. CASE p = "EXECUTION"
    <3>1. held[c].fill \in Fill /\ lineage'[s]["EXECUTION"] = held[c].fill
      BY <2>2, <2>4 DEF Backed, Needs, Written
    <3>2. \/ /\ AfterAppend(c, p) = Move("ORDER_ACCEPTED")
             /\ held[c].fill = "accepted"
          \/ /\ AfterAppend(c, p) = Move("ORDER_REJECTED")
             /\ held[c].fill \in {"rejected", "unknown"}
      BY <2>4, <3>1 DEF AfterAppend, Fill
    <3>3. PICK step : step = AfterAppend(c, p)
      OBVIOUS
    <3>4. PICK now : now = held[c]
      OBVIOUS
    <3>5. Needs(s, step, now.fill)'
      <4>1. CASE step = Move("ORDER_ACCEPTED") /\ now.fill = "accepted"
        BY <2>3, <3>1, <3>4, <4>1 DEF Needs, Move, Call, Write
      <4>2. CASE step = Move("ORDER_REJECTED") /\ now.fill \in {"rejected", "unknown"}
        BY <3>1, <3>4, <4>2 DEF Needs, Move, Call, Write
      <4>3. QED
        BY <3>2, <3>3, <3>4, <4>1, <4>2
    <3>6. QED
      BY <2>1, <3>3, <3>4, <3>5, GoWithBacked
  <2>5. CASE p = "CONFIRMATION"
    <3>1. lineage'[s]["CONFIRMATION"] # None
      BY <2>2, <2>5, NoneAssumption DEF Written
    <3>2. AfterAppend(c, p) = Move("POSITION_OPEN")
      BY <2>5 DEF AfterAppend
    <3>3. PICK now : now = held[c]
      OBVIOUS
    <3>4. Needs(s, Move("POSITION_OPEN"), now.fill)'
      BY <2>3, <3>1, <3>3 DEF Needs, Move, Call, Write
    <3>5. QED
      BY <2>1, <3>2, <3>3, <3>4, GoWithBacked
  <2>6. CASE p = "EXIT"
    <3>1. lineage'[s]["EXIT"] # None
      BY <2>2, <2>6, NoneAssumption DEF Written
    <3>2. AfterAppend(c, p) = Move("POSITION_CLOSED")
      BY <2>6 DEF AfterAppend
    <3>3. position'[s] = "CLOSED"
      BY <2>6 DEF Backed, Needs, books
    <3>4. PICK now : now = held[c]
      OBVIOUS
    <3>5. Needs(s, Move("POSITION_CLOSED"), now.fill)'
      BY <2>3, <3>1, <3>3, <3>4 DEF Needs, Move, Call, Write
    <3>6. QED
      BY <2>1, <3>2, <3>4, <3>5, GoWithBacked
  <2>7. CASE p \notin {"EXECUTION", "CONFIRMATION", "EXIT"}
    <3>1. AfterAppend(c, p) \in
            {Resume, Move("INTENT_CREATED"), Move("RECONCILED")}
      BY <2>7 DEF AfterAppend, Phase, Execution
    <3>2. AfterAppend(c, p) \notin Relying
      BY <3>1, FreeSteps
    <3>3. QED
      BY <1>0, <1>2, <3>2, FreeGoes
  <2>8. QED
    BY <2>4, <2>5, <2>6, <2>7
<1>3. QED
  BY <1>1, <1>2

LEMMA ReadIntentBacked ==
    ASSUME TInv, LifeIsReached, Durable, NEW c \in Conductor, Backed(c),
           ReadIntent(c)
    PROVE  Backed(c)'
<1> PICK s \in Source : s = source[c]
  BY StepsAreBusy DEF TInv, RunsAreNamed, ReadIntent
<1>0. at[c] \notin Ended
  BY StepsAreBusy DEF ReadIntent
<1>1. GoWith(c, NextCall(life[s]), held[c])
  BY DEF ReadIntent, Go
<1>2. held[c].fill = "accepted" => order[s] = "accepted"
  BY DEF Backed, Needs
<1>3. life[s] \in LifecycleState => life[s] \in reached[s]
  BY NoneAssumption DEF LifeIsReached
<1>4. CASE life[s] = "ORDER_SUBMITTED"
  <2>1. "ORDER_SUBMITTED" \in reached[s]
    BY <1>3, <1>4 DEF LifecycleState
  <2>2. NextCall(life[s]) = Call("order")
    BY <1>4 DEF NextCall
  <2>3. Needs(s, Call("order"), held[c].fill)
    BY <1>2, <2>1 DEF Needs, Move, Call, Write
  <2>4. QED
    BY <1>1, <2>2, <2>3, BackedGo
<1>5. CASE life[s] = "EXIT_REQUESTED"
  <2>1. "EXIT_REQUESTED" \in reached[s]
    BY <1>3, <1>5 DEF LifecycleState
  <2>2. NextCall(life[s]) = Call("exit")
    BY <1>5 DEF NextCall
  <2>3. Needs(s, Call("exit"), held[c].fill)
    BY <1>2, <2>1 DEF Needs, Move, Call, Write
  <2>4. QED
    BY <1>1, <2>2, <2>3, BackedGo
<1>6. CASE life[s] \notin {"ORDER_SUBMITTED", "EXIT_REQUESTED"}
  <2>1. NextCall(life[s]) \in
          {Move("INTENT_CREATED"), Move("ORDER_SUBMITTED"),
           Call("confirmation"), Call("open_position"), Call("reconciliation"),
           FailSafe, Idle}
    BY <1>6 DEF NextCall
  <2>2. NextCall(life[s]) \notin Relying
    BY <2>1, FreeSteps
  <2>3. QED
    BY <1>0, <2>2, FreeGoes DEF ReadIntent
<1>7. QED
  BY <1>4, <1>5, <1>6

LEMMA ReadExitBacked ==
    ASSUME TInv, MoneyMovesOnce, Durable, NEW c \in Conductor, Backed(c),
           at[c] = Call("exit"),
           \/ ReadExit(c)
           \/ request[source[c]] /\ Go(c, Call("close"))
    PROVE  Backed(c)'
<1> PICK s \in Source : s = source[c]
  BY StepsAreBusy DEF TInv, RunsAreNamed
<1>0. at[c] \notin Ended
  BY StepsAreBusy
<1>1. held[c].fill = "accepted" => order[s] = "accepted"
  BY DEF Backed, Needs
<1>2. "EXIT_REQUESTED" \in reached[s]
  BY DEF Backed, Needs
<1>3. CASE request[s] /\ GoWith(c, Call("close"), held[c])
  <2>1. Needs(s, Call("close"), held[c].fill)
    BY <1>1, <1>2, <1>3 DEF Needs, Move, Call, Write
  <2>2. QED
    BY <1>3, <2>1, BackedGo
<1>4. CASE exited[s] /\ GoWith(c, Write("EXIT"), held[c])
  <2>1. position[s] = "CLOSED"
    BY <1>4 DEF MoneyMovesOnce
  <2>2. Needs(s, Write("EXIT"), held[c].fill)
    BY <1>1, <2>1 DEF Needs, Move, Call, Write
  <2>3. QED
    BY <1>4, <2>2, BackedGo
<1>5. CASE Go(c, FailSafe)
  BY <1>0, <1>5, FreeSteps, FreeGoes
<1>6. QED
  BY <1>3, <1>4, <1>5 DEF ReadExit, Read, Go

LEMMA CloseBacked ==
    ASSUME TInv, MoneyMovesOnce, Durable, NEW c \in Conductor, Backed(c),
           Close(c)
    PROVE  Backed(c)'
<1> PICK s \in Source : s = source[c]
  BY StepsAreBusy DEF TInv, RunsAreNamed, Close
<1>0. at[c] \notin Ended
  BY StepsAreBusy DEF Close
<1>1. CASE Go(c, FailSafe)
  BY <1>0, <1>1, FreeSteps, FreeGoes
<1>2. CASE Go(c, Write("EXIT")) /\ position'[s] = "CLOSED"
  <2>1. held[c].fill = "accepted" => order'[s] = "accepted"
    BY DEF Backed, Needs, Close
  <2>2. PICK now : now = held[c]
    OBVIOUS
  <2>3. Needs(s, Write("EXIT"), now.fill)'
    BY <1>2, <2>1, <2>2 DEF Needs, Move, Call, Write
  <2>4. QED
    BY <1>2, <2>2, <2>3, GoWithBacked DEF Go
<1>3. QED
  <2>1. CASE ~exited[s] /\ position[s] = "OPEN"
    BY <1>2, <2>1 DEF Close, TInv, TypeOK
  <2>2. CASE exited[s]
    BY <1>2, <2>2 DEF Close, MoneyMovesOnce
  <2>3. CASE ~exited[s] /\ position[s] # "OPEN"
    BY <1>1, <2>3 DEF Close
  <2>4. QED
    BY <2>1, <2>2, <2>3
LEMMA OwnBacked ==
    ASSUME TInv, Tables, Durable, NEW c \in Conductor, Backed(c),
           \/ \E s \in Input[c] : Start(c, s)
           \/ Work(c) \/ CallFails(c) \/ RiskUnknown(c) \/ Crash(c)
    PROVE  Backed(c)'
<1>f. ASSUME NEW step, at[c] \notin Ended, Go(c, step), step \notin Relying
      PROVE  Backed(c)'
  BY <1>f, FreeGoes
<1>1. CASE \E s \in Input[c] : Start(c, s)
  <2>1. at'[c] = Call("state") /\ held'[c].fill = None
    BY <1>1 DEF Start, TInv, TypeOK, RunsAreNamed, NothingHeld
  <2>2. QED
    BY <2>1, FreeSteps, NoneAssumption DEF Backed, Needs, Relying
<1>3. CASE ReadState(c)
  <2>1. \E step \in {Resume, Call("risk"), Idle} : Go(c, step)
    BY <1>3 DEF ReadState
  <2>2. QED
    BY <1>3, <2>1, <1>f, StepsAreBusy, FreeSteps DEF ReadState
<1>4. CASE DecideRisk(c) \/ RiskUnknown(c)
  <2>1. /\ at[c] \notin Ended
        /\ \E step \in {Call("create_intent"), Idle} : Go(c, step)
    BY <1>4, StepsAreBusy DEF DecideRisk, RiskUnknown, RecordRisk
  <2>2. QED
    BY <2>1, <1>f, FreeSteps DEF Phase
<1>5. CASE CreateIntent(c)
  <2>1. /\ at[c] \notin Ended
        /\ \E step \in {Write("TRADE_INTENT"), Idle} : Go(c, step)
    BY <1>5, StepsAreBusy DEF CreateIntent
  <2>2. QED
    BY <2>1, <1>f, FreeSteps DEF Phase
<1>6. CASE AppendLineage(c)
  BY <1>6, AppendBacked
<1>7. CASE Transition(c)
  <2>1. /\ at[c] \notin Ended
        /\ \E step \in {Write("POSITION"), Move("RECONCILED"), Resume, FailSafe} :
                Go(c, step)
    BY <1>7, StepsAreBusy DEF Transition, AfterMove
  <2>2. QED
    BY <2>1, <1>f, FreeSteps DEF Phase, Execution
<1>8. CASE FailIntentSafe(c)
  BY <1>8, <1>f, StepsAreBusy, FreeSteps DEF FailIntentSafe
<1>9. CASE ReadIntent(c)
  BY <1>9, ReadIntentBacked DEF Tables
<1>10. CASE /\ at[c] = Call("order")
            /\ \E there \in BOOLEAN :
                 GoWith(c, Call("fill"), [held[c] EXCEPT !.ordered = there])
  <2> PICK s \in Source : s = source[c]
    BY <1>10, StepsAreBusy DEF TInv, RunsAreNamed
  <2>1. PICK now : GoWith(c, Call("fill"), now) /\ now.fill = held[c].fill
    BY <1>10 DEF TInv, TypeOK, Held
  <2>2. Needs(s, Call("fill"), now.fill)
    BY <1>10, <2>1 DEF Backed, Needs, Move, Call, Write
  <2>3. QED
    BY <2>1, <2>2, BackedGo
<1>11. CASE ReadFill(c)
  <2>1. order[source[c]] \in Fill \union {None}
    BY <1>11, StepsAreBusy DEF ReadFill, TInv, TypeOK, RunsAreNamed, Fill
  <2>2. QED
    BY <1>11, <2>1, WithFillBacked DEF ReadFill
<1>12. CASE Submit(c)
  <2>1. at[c] \notin Ended /\ source[c] \in Source
    BY <1>12, StepsAreBusy DEF Submit, TInv, RunsAreNamed
  <2>2. PICK f \in Fill :
          Submitted(c, f) /\ (f = "accepted" => order'[source[c]] = "accepted")
    BY <1>12, <2>1 DEF Submit, TInv, TypeOK, Fill
  <2>3. QED
    BY <2>1, <2>2, SubmittedBacked
<1>13. CASE ReadConfirmation(c)
  <2>1. /\ at[c] \notin Ended
        /\ \E step \in {Write("CONFIRMATION"), FailSafe} : Go(c, step)
    BY <1>13, StepsAreBusy DEF ReadConfirmation, Read
  <2>2. QED
    BY <2>1, <1>f, FreeSteps DEF Phase, Execution
<1>14. CASE ReadOpenPosition(c)
  <2>1. /\ at[c] \notin Ended
        /\ \E step \in {Call("record_exit_request"), FailSafe} : Go(c, step)
    BY <1>14, StepsAreBusy DEF ReadOpenPosition, Read
  <2>2. QED
    BY <2>1, <1>f, FreeSteps
<1>15. CASE RecordExitRequest(c)
  BY <1>15, <1>f, StepsAreBusy, FreeSteps DEF RecordExitRequest
<1>16. CASE ReadExit(c)
  BY <1>16, ReadExitBacked DEF Tables, ReadExit, Read
<1>17. CASE Close(c)
  BY <1>17, CloseBacked DEF Tables
<1>18. CASE ReadReconciliation(c)
  <2>1. at[c] \notin Ended
    BY <1>18, StepsAreBusy DEF ReadReconciliation
  <2>2. PICK step \in {Write("RECONCILIATION"), FailSafe} :
          \E now : GoWith(c, step, now) /\ now.fill = held[c].fill
    BY <1>18 DEF ReadReconciliation, TInv, TypeOK, Held
  <2>3. step \notin Relying
    BY FreeSteps DEF Phase, Execution
  <2>4. QED
    BY <2>1, <2>2, <2>3, FreeGo
<1>19. CASE CallFails(c)
  <2>0. at[c] \notin Ended
    BY <1>19, StepsAreBusy DEF CallFails, BlockingCall, SafeCall
  <2>1. CASE Go(c, Down)
    BY <2>0, <2>1, <1>f, FreeSteps
  <2>2. CASE Go(c, FailSafe)
    BY <2>0, <2>2, <1>f, FreeSteps
  <2>3. CASE at[c] = Call("fill") /\ WithFill(c, None)
    BY <2>3, WithFillBacked, NoneAssumption
  <2>4. CASE Submitted(c, "unknown")
    BY <2>0, <2>4, SubmittedBacked DEF Fill
  <2>5. CASE at[c] = Call("exit") /\ request[source[c]] /\ Go(c, Call("close"))
    BY <2>5, ReadExitBacked DEF Tables
  <2>6. QED
    BY <1>10, <1>19, <2>1, <2>2, <2>3, <2>4, <2>5 DEF CallFails
<1>20. CASE Crash(c)
  BY <1>20, <1>f, FreeSteps DEF Crash
<1>21. CASE ReadOrder(c)
  BY <1>10, <1>21 DEF ReadOrder
<1>22. QED
  BY <1>1, <1>3, <1>4, <1>5, <1>6, <1>7, <1>8, <1>9, <1>11, <1>12,
     <1>13, <1>14, <1>15, <1>16, <1>17, <1>18, <1>19, <1>20, <1>21
  DEF Work
-----------------------------------------------------------------------------
(* What the tables say, step by step. *)

\* A state that says something of the books is entered with what it says.
EnteredWell(s, l) ==
    /\ l = "ORDER_ACCEPTED" =>
            order[s] = "accepted" /\ lineage[s]["EXECUTION"] = "accepted"
    /\ l = "ORDER_REJECTED" =>
            lineage[s]["EXECUTION"] \in {"rejected", "unknown"}
    /\ l = "POSITION_OPEN" => lineage[s]["CONFIRMATION"] # None
    /\ l = "POSITION_CLOSED" =>
            position[s] = "CLOSED" /\ lineage[s]["EXIT"] # None

LEMMA EnterTables ==
    ASSUME TInv, Tables, NEW s \in Source, NEW l \in LifecycleState,
           Enter(s, l), EnteredWell(s, l), UNCHANGED <<lineage, request, books>>
    PROVE  Tables'
<1> USE DEF TInv, TypeOK
<1>1. /\ \A r \in Source : reached[r] \subseteq reached'[r]
      /\ \A r \in Source, k \in LifecycleState :
            k \in reached'[r] => k \in reached[r] \/ (r = s /\ k = l)
  BY DEF Enter
<1>2. LifeIsReached'
  BY DEF Tables, LifeIsReached, Enter
<1>3. OrderIsOnRecord'
  BY <1>1 DEF Tables, OrderIsOnRecord, Ordered, books
<1>4. OnePosition'
  BY DEF Tables, OnePosition, books
<1>5. MoneyMovesOnce'
  <2>1. Exits' = Exits
    BY DEF Exits, books
  <2>2. QED
    BY <1>1, <2>1 DEF Tables, MoneyMovesOnce, books, Exits
<1>6. JournalIsBacked'
  <2>1. "ORDER_ACCEPTED" \in LifecycleState /\ "POSITION_CLOSED" \in LifecycleState
    BY DEF LifecycleState
  <2>2. QED
    BY <1>1, <2>1 DEF Tables, JournalIsBacked, EnteredWell, books
<1>7. EvidencePrecedesState'
  <2> SUFFICES ASSUME NEW r \in Source, NEW e \in Evidence, e[1] \in reached'[r]
               PROVE  lineage'[r][e[2]] # None
    BY DEF EvidencePrecedesState, Evidence
  <2>1. e[1] \in LifecycleState
    BY DEF Evidence, LifecycleState
  <2>2. CASE e[1] \in reached[r]
    BY <2>2 DEF Tables, EvidencePrecedesState
  <2>3. CASE r = s /\ e[1] = l
    BY <2>3, NoneAssumption DEF Evidence, EnteredWell, Fill
  <2>4. QED
    BY <1>1, <2>1, <2>2, <2>3
<1>8. VerdictIsEvidenced'
  <2>1. "ORDER_ACCEPTED" \in LifecycleState /\ "ORDER_REJECTED" \in LifecycleState
    BY DEF LifecycleState
  <2>2. QED
    BY <1>1, <2>1 DEF Tables, VerdictIsEvidenced, EnteredWell
<1>9. QED
  BY <1>2, <1>3, <1>4, <1>5, <1>6, <1>7, <1>8 DEF Tables

LEMMA QuietTables ==
    ASSUME Tables, Quiet
    PROVE  Tables'
BY DEF Tables, Quiet, books, LifeIsReached, OrderIsOnRecord, Ordered, OnePosition,
       MoneyMovesOnce, Exits, JournalIsBacked, EvidencePrecedesState, Evidence,
       VerdictIsEvidenced

LEMMA AppendTables ==
    ASSUME TInv, Tables, Durable, NEW c \in Conductor, AppendLineage(c)
    PROVE  Tables'
<1>1. UNCHANGED <<life, reached, request, books>>
  BY DEF AppendLineage
<1>2. LifeIsReached' /\ OrderIsOnRecord' /\ OnePosition' /\ JournalIsBacked'
  BY <1>1 DEF Tables, LifeIsReached, OrderIsOnRecord, Ordered, OnePosition,
     JournalIsBacked, books
<1>3. MoneyMovesOnce'
  BY <1>1 DEF Tables, MoneyMovesOnce, Exits, books
<1>4. \A s \in Source, p \in Phase :
          lineage[s][p] # None => lineage'[s][p] = lineage[s][p]
  BY DEF Durable
<1>5. EvidencePrecedesState'
  <2> SUFFICES ASSUME NEW s \in Source, NEW e \in Evidence, e[1] \in reached'[s]
               PROVE  lineage'[s][e[2]] # None
    BY DEF EvidencePrecedesState, Evidence
  <2>1. e[2] \in Phase
    BY DEF Evidence, Phase, Execution
  <2>2. lineage[s][e[2]] # None
    BY <1>1 DEF Tables, EvidencePrecedesState
  <2>3. QED
    BY <1>4, <2>1, <2>2
<1>6. VerdictIsEvidenced'
  <2>1. \A s \in Source : lineage[s]["EXECUTION"] \in Fill =>
            lineage'[s]["EXECUTION"] = lineage[s]["EXECUTION"]
    BY <1>4, NoneAssumption DEF Phase, Execution
  <2>2. QED
    BY <1>1, <2>1 DEF Tables, VerdictIsEvidenced, Fill
<1>7. QED
  BY <1>2, <1>3, <1>5, <1>6 DEF Tables

LEMMA SubmitTables ==
    ASSUME TInv, Tables, NEW c \in Conductor, Backed(c), Submit(c)
    PROVE  Tables'
<1> PICK s \in Source : s = source[c]
  BY StepsAreBusy DEF TInv, RunsAreNamed, Submit
<1> USE DEF TInv, TypeOK
<1>0. UNCHANGED <<life, reached, lineage, request, exited, balance>>
  BY DEF Submit, journal
<1>1. "ORDER_SUBMITTED" \in reached[s]
  BY DEF Submit, Backed, Needs
<1>2. \/ order' = order /\ position' = position
      \/ /\ order[s] = None /\ order' = [order EXCEPT ![s] = "rejected"]
         /\ position' = position
      \/ /\ order[s] = None /\ order' = [order EXCEPT ![s] = "accepted"]
         /\ position' = [position EXCEPT ![s] = "OPEN"]
         /\ \A r \in Source : position[r] # "OPEN"
  BY DEF Submit, PositionLimitReached
<1>3. order[s] = None => position[s] = None
  BY NoneAssumption DEF Tables, OnePosition
<1>4. LifeIsReached' /\ EvidencePrecedesState' /\ VerdictIsEvidenced'
  BY <1>0 DEF Tables, LifeIsReached, EvidencePrecedesState, Evidence,
     VerdictIsEvidenced
<1>5. OrderIsOnRecord'
  <2>1. \A r \in Source : order'[r] # None => order[r] # None \/ r = s
    BY <1>2
  <2>2. QED
    BY <1>0, <1>1, <2>1 DEF Tables, OrderIsOnRecord, Ordered
<1>6. OnePosition'
  <2>1. CASE order' = order /\ position' = position
    BY <2>1 DEF Tables, OnePosition
  <2>2. CASE /\ order[s] = None /\ order' = [order EXCEPT ![s] = "rejected"]
             /\ position' = position
    BY <1>3, <2>2 DEF Tables, OnePosition
  <2>3. CASE /\ order[s] = None /\ order' = [order EXCEPT ![s] = "accepted"]
             /\ position' = [position EXCEPT ![s] = "OPEN"]
             /\ \A r \in Source : position[r] # "OPEN"
    BY <2>3, NoneAssumption DEF Tables, OnePosition
  <2>4. QED
    BY <1>2, <2>1, <2>2, <2>3
<1>7. MoneyMovesOnce'
  <2>1. Exits' = Exits
    BY <1>0 DEF Exits
  <2>2. \A r \in Source : (position'[r] = "CLOSED") = (position[r] = "CLOSED")
    BY <1>2, <1>3, NoneAssumption
  <2>3. QED
    BY <1>0, <2>1, <2>2 DEF Tables, MoneyMovesOnce
<1>8. JournalIsBacked'
  <2>1. \A r \in Source : order[r] = "accepted" => order'[r] = "accepted"
    BY <1>2, NoneAssumption
  <2>2. \A r \in Source : position[r] = "CLOSED" => position'[r] = "CLOSED"
    BY <1>2, <1>3, NoneAssumption
  <2>3. QED
    BY <1>0, <2>1, <2>2 DEF Tables, JournalIsBacked
<1>9. QED
  BY <1>4, <1>5, <1>6, <1>7, <1>8 DEF Tables

LEMMA CloseTables ==
    ASSUME TInv, Tables, NEW c \in Conductor, Backed(c), Close(c)
    PROVE  Tables'
<1> PICK s \in Source : s = source[c]
  BY StepsAreBusy DEF TInv, RunsAreNamed, Close
<1> USE DEF TInv, TypeOK
<1>0. UNCHANGED <<life, reached, lineage, request, order>>
  BY DEF Close, journal
<1>1. CASE ~exited[s] /\ position[s] = "OPEN"
  <2>1. /\ position' = [position EXCEPT ![s] = "CLOSED"]
        /\ exited' = [exited EXCEPT ![s] = TRUE]
        /\ balance' = balance + 1
    BY <1>1 DEF Close
  <2>2. request[s] /\ "EXIT_REQUESTED" \in reached[s]
    BY DEF Close, Backed, Needs
  <2>3. /\ LifeIsReached' /\ OrderIsOnRecord' /\ EvidencePrecedesState'
        /\ VerdictIsEvidenced'
    BY <1>0 DEF Tables, LifeIsReached, OrderIsOnRecord, Ordered,
       EvidencePrecedesState, Evidence, VerdictIsEvidenced
  <2>4. OnePosition'
    BY <1>0, <1>1, <2>1, NoneAssumption DEF Tables, OnePosition
  <2>5. JournalIsBacked'
    BY <1>0, <2>1 DEF Tables, JournalIsBacked
  <2>6. MoneyMovesOnce'
    <3>1. Exits' = Exits \union {s} /\ s \notin Exits
      BY <1>1, <2>1 DEF Exits
    <3>2. IsFiniteSet(Exits)
      BY SourceAssumption, FS_Subset DEF Exits
    <3>3. Cardinality(Exits') = Cardinality(Exits) + 1
      BY <3>1, <3>2, FS_AddElement
    <3>4. balance' = Cardinality(Exits')
      BY <2>1, <3>3 DEF Tables, MoneyMovesOnce
    <3>5. \A r \in Source : exited'[r] = (position'[r] = "CLOSED")
      BY <2>1 DEF Tables, MoneyMovesOnce
    <3>6. \A r \in Exits' : request'[r] /\ "EXIT_REQUESTED" \in reached'[r]
      BY <1>0, <2>2, <3>1 DEF Tables, MoneyMovesOnce
    <3>7. QED
      BY <3>4, <3>5, <3>6 DEF MoneyMovesOnce
  <2>7. QED
    BY <2>3, <2>4, <2>5, <2>6 DEF Tables
<1>2. CASE ~(~exited[s] /\ position[s] = "OPEN")
  <2>1. Quiet
    BY <1>0, <1>2 DEF Close, Quiet, books
  <2>2. QED
    BY <2>1, QuietTables
<1>3. QED
  BY <1>1, <1>2
LEMMA TablesStep ==
    ASSUME TInv, Tables, Durable, NEW c \in Conductor, Backed(c),
           \/ \E s \in Input[c] : Start(c, s)
           \/ Work(c) \/ CallFails(c) \/ RiskUnknown(c) \/ Crash(c)
    PROVE  Tables'
<1>0. at[c] \notin Ended => source[c] \in Source
  BY DEF TInv, RunsAreNamed
<1>1. CASE CreateIntent(c)
  <2>1. source[c] \in Source
    BY <1>0, <1>1, StepsAreBusy DEF CreateIntent
  <2>2. CASE Enter(source[c], "SIGNAL_DETECTED")
    <3>1. "SIGNAL_DETECTED" \in LifecycleState
      BY DEF LifecycleState
    <3>2. EnteredWell(source[c], "SIGNAL_DETECTED")
      BY DEF EnteredWell
    <3>3. QED
      BY <1>1, <2>1, <2>2, <3>1, <3>2, EnterTables DEF CreateIntent
  <2>3. CASE UNCHANGED <<life, reached>>
    BY <1>1, <2>3, QuietTables DEF CreateIntent, Quiet
  <2>4. QED
    BY <1>1, <2>2, <2>3 DEF CreateIntent, Enter
<1>2. CASE AppendLineage(c)
  BY <1>2, AppendTables
<1>3. CASE Transition(c)
  <2> PICK l \in LifecycleState :
        /\ at[c] = Move(l)
        /\ LET s == source[c] IN
            IF <<life[s], l>> \in Onward
            THEN Enter(s, l) /\ Go(c, AfterMove(l))
            ELSE UNCHANGED <<life, reached>> /\ Go(c, FailSafe)
        /\ UNCHANGED <<opened, risk, lineage, request, books>>
    BY <1>3 DEF Transition
  <2>1. source[c] \in Source
    BY <1>0, StepsAreBusy
  <2>2. EnteredWell(source[c], l)
    BY DEF EnteredWell, Backed, Needs
  <2>3. CASE Enter(source[c], l)
    BY <2>1, <2>2, <2>3, EnterTables
  <2>4. CASE UNCHANGED <<life, reached>>
    BY <2>4, QuietTables DEF Quiet
  <2>5. QED
    BY <2>3, <2>4
<1>4. CASE FailIntentSafe(c)
  <2>1. source[c] \in Source
    BY <1>0, <1>4, StepsAreBusy DEF FailIntentSafe
  <2>2. CASE Enter(source[c], "FAILED_SAFE")
    <3>1. "FAILED_SAFE" \in LifecycleState
      BY DEF LifecycleState, Terminal
    <3>2. EnteredWell(source[c], "FAILED_SAFE")
      BY DEF EnteredWell
    <3>3. QED
      BY <1>4, <2>1, <2>2, <3>1, <3>2, EnterTables DEF FailIntentSafe
  <2>3. CASE UNCHANGED <<life, reached>>
    BY <1>4, <2>3, QuietTables DEF FailIntentSafe, Quiet
  <2>4. QED
    BY <1>4, <2>2, <2>3 DEF FailIntentSafe
<1>5. CASE Submit(c)
  BY <1>5, SubmitTables
<1>6. CASE RecordExitRequest(c)
  <2>1. source[c] \in Source
    BY <1>0, <1>6, StepsAreBusy DEF RecordExitRequest
  <2>2. \A s \in Source : request[s] => request'[s]
    BY <1>6, <2>1 DEF RecordExitRequest, TInv, TypeOK
  <2>3. UNCHANGED <<life, reached, lineage, books>>
    BY <1>6 DEF RecordExitRequest
  <2>4. MoneyMovesOnce'
    <3>1. Exits' = Exits
      BY <2>3 DEF Exits, books
    <3>2. \A s \in Exits : s \in Source
      BY DEF Exits
    <3>3. QED
      BY <2>2, <2>3, <3>1, <3>2 DEF Tables, MoneyMovesOnce, books
  <2>5. QED
    BY <2>3, <2>4 DEF Tables, books, LifeIsReached, OrderIsOnRecord, Ordered,
       OnePosition, JournalIsBacked, EvidencePrecedesState, Evidence,
       VerdictIsEvidenced
<1>7. CASE Close(c)
  BY <1>7, CloseTables
<1>8. QED
  BY <1>1, <1>2, <1>3, <1>4, <1>5, <1>6, <1>7, QuietSteps, QuietTables
  DEF Work

-----------------------------------------------------------------------------
(* The invariant, and what follows from it. *)

\* IInv holds: the tables agree with each other and with what every run that
\* is under way relies on.
THEOREM Invariant == Spec => []IInv
<1>0. IInv <=> TInv /\ RunsAreBacked /\ Tables
  BY DEF IInv, Tables
<1>1. Init => IInv
  <2> SUFFICES ASSUME Init, TInv PROVE RunsAreBacked /\ Tables
    BY <1>0, TypesAtStart
  <2>1. RunsAreBacked
    BY FreeSteps, NoneAssumption
    DEF Init, RunsAreBacked, Backed, Needs, Relying, NothingHeld
  <2>2. Exits = {} /\ Ordered = {}
    BY DEF Init, Exits, Ordered
  <2>3. Cardinality(Exits) = 0
    BY <2>2, FS_EmptySet
  <2>4. QED
    BY <2>1, <2>2, <2>3, NoneAssumption
    DEF Init, Tables, LifeIsReached, OrderIsOnRecord, OnePosition,
        MoneyMovesOnce, JournalIsBacked, EvidencePrecedesState,
        VerdictIsEvidenced
<1>2. IInv /\ TInv' /\ [Next]_vars => IInv'
  <2> SUFFICES ASSUME IInv, TInv', [Next]_vars PROVE IInv'
    OBVIOUS
  <2>0. TInv /\ RunsAreBacked /\ Tables /\ OnePosition
    BY <1>0 DEF Tables
  <2>1. ASSUME NEW c \in Conductor,
               \/ \E s \in Input[c] : Start(c, s)
               \/ Work(c) \/ CallFails(c) \/ RiskUnknown(c) \/ Crash(c)
        PROVE  RunsAreBacked' /\ Tables'
    <3>1. Durable
      BY <2>0, <2>1, DurableStep
    <3>2. Backed(c)'
      BY <2>0, <2>1, <3>1, OwnBacked DEF RunsAreBacked
    <3>3. ASSUME NEW d \in Conductor \ {c} PROVE Backed(d)'
      BY <2>0, <2>1, <3>1, AloneSteps, OthersBacked DEF RunsAreBacked, Alone
    <3>4. Tables'
      BY <2>0, <2>1, <3>1, TablesStep DEF RunsAreBacked
    <3>5. QED
      BY <3>2, <3>3, <3>4 DEF RunsAreBacked
  <2>2. CASE UNCHANGED vars
    <3>1. Quiet /\ Durable
      BY <2>2, QuietIsDurable DEF vars, journal, Quiet
    <3>2. Tables'
      BY <2>0, <3>1, QuietTables
    <3>3. ASSUME NEW d \in Conductor PROVE Backed(d)'
      BY <2>0, <2>2, <3>1, OthersBacked DEF vars, local, RunsAreBacked
    <3>4. QED
      BY <3>2, <3>3 DEF IInv, Tables, RunsAreBacked
  <2>3. QED
    BY <2>1, <2>2 DEF Next, IInv, Tables
<1>3. QED
  BY <1>1, <1>2, TypesHold, PTL DEF Spec

\* Every variable has its type.
THEOREM TypeCorrect == Spec => []TypeOK
<1>1. TInv => TypeOK
  BY DEF TInv
<1>2. QED
  BY <1>1, TypesHold, PTL

\* Whatever dies or fails, the books hold no order that the journal did not
\* claim before.
THEOREM OrdersAreOnRecord == Spec => []OrderIsOnRecord
<1>1. IInv => OrderIsOnRecord
  BY DEF IInv
<1>2. QED
  BY <1>1, Invariant, PTL

\* Any number of runs on one directory open one position at a time, one for each
\* accepted order, and credit a closing once, however often it is asked for.
THEOREM BooksHold == Spec => []BooksAreSound
<1>1. IInv => BooksAreSound
  BY DEF IInv, BooksAreSound
<1>2. QED
  BY <1>1, Invariant, PTL

\* Across two databases without a common transaction, the journal says of the
\* books only what is so, and nothing without its evidence or against it.
THEOREM JournalHolds == Spec => []JournalIsTrue
<1>1. IInv => JournalIsTrue
  BY DEF IInv, JournalIsTrue
<1>2. QED
  BY <1>1, Invariant, PTL

\* Nothing that is in the tables is ever taken back or rewritten.
THEOREM TablesAreDurable == Spec => [][Durable]_vars
<1>1. IInv /\ [Next]_vars => [Durable]_vars
  <2> SUFFICES ASSUME IInv, Next PROVE Durable
    BY DEF IInv
  <2>1. QED
    BY DurableStep DEF IInv, Next
<1>2. QED
  BY <1>1, Invariant, PTL DEF Spec

-----------------------------------------------------------------------------
(* The refinement: the tables implement the trade of each intent. *)

\* A step enters a state of the journal, moves the books, or tells nothing of a
\* trade.
Entered(s, l) == l \in reached[s]
Entering(s, l) ==
    /\ Enter(s, l) /\ UNCHANGED <<request, books>>
    /\ l \in {"SIGNAL_DETECTED", "FAILED_SAFE"} \/ <<life[s], l>> \in Onward

LEMMA StepKinds ==
    ASSUME TInv, NEW c \in Conductor,
           \/ \E s \in Input[c] : Start(c, s)
           \/ Work(c) \/ CallFails(c) \/ RiskUnknown(c) \/ Crash(c)
    PROVE  \/ UNCHANGED <<reached, request, books>>
           \/ \E s \in Source, l \in LifecycleState : Entering(s, l)
           \/ RecordExitRequest(c) \/ Submit(c) \/ Close(c)
<1>0. at[c] \notin Ended => source[c] \in Source
  BY DEF TInv, RunsAreNamed
<1>1. CASE CreateIntent(c)
  <2>1. source[c] \in Source /\ "SIGNAL_DETECTED" \in LifecycleState
    BY <1>0, <1>1, StepsAreBusy DEF CreateIntent, LifecycleState
  <2>2. Entering(source[c], "SIGNAL_DETECTED") \/ UNCHANGED <<reached, request, books>>
    BY <1>1 DEF CreateIntent, Entering, Enter
  <2>3. QED
    BY <2>1, <2>2
<1>2. CASE Transition(c)
  <2> PICK l \in LifecycleState :
        /\ at[c] = Move(l)
        /\ LET s == source[c] IN
            IF <<life[s], l>> \in Onward
            THEN Enter(s, l) /\ Go(c, AfterMove(l))
            ELSE UNCHANGED <<life, reached>> /\ Go(c, FailSafe)
        /\ UNCHANGED <<opened, risk, lineage, request, books>>
    BY <1>2 DEF Transition
  <2>1. source[c] \in Source
    BY <1>0, StepsAreBusy
  <2>2. Entering(source[c], l) \/ UNCHANGED <<reached, request, books>>
    BY DEF Entering
  <2>3. QED
    BY <2>1, <2>2
<1>3. CASE FailIntentSafe(c)
  <2>1. source[c] \in Source /\ "FAILED_SAFE" \in LifecycleState
    BY <1>0, <1>3, StepsAreBusy DEF FailIntentSafe, LifecycleState, Terminal
  <2>2. Entering(source[c], "FAILED_SAFE") \/ UNCHANGED <<reached, request, books>>
    BY <1>3 DEF FailIntentSafe, Entering
  <2>3. QED
    BY <2>1, <2>2
<1>4. CASE AppendLineage(c)
  BY <1>4 DEF AppendLineage
<1>5. QED
  BY <1>1, <1>2, <1>3, <1>4, QuietSteps DEF Work, Quiet

\* An exit is asked for on the way that leads through the acceptance.
AskedWasAccepted ==
    \A s \in Source : \A l \in {"POSITION_OPEN", "EXIT_REQUESTED"} :
        Entered(s, l) => Entered(s, "ORDER_ACCEPTED")

LEMMA EnteredStates ==
    ASSUME TInv, NEW s \in Source, NEW l \in LifecycleState, Enter(s, l)
    PROVE  \A r \in Source, k \in LifecycleState :
                Entered(r, k)' <=> Entered(r, k) \/ (r = s /\ k = l)
<1>1. reached'[s] = reached[s] \union {l}
  BY DEF TInv, TypeOK, Enter
<1>2. \A r \in Source \ {s} : reached'[r] = reached[r]
  BY DEF TInv, TypeOK, Enter
<1>3. QED
  BY <1>1, <1>2 DEF Entered

LEMMA AskedKept ==
    ASSUME TInv, LifeIsReached, AskedWasAccepted, NEW c \in Conductor,
           \/ \E s \in Input[c] : Start(c, s)
           \/ Work(c) \/ CallFails(c) \/ RiskUnknown(c) \/ Crash(c)
    PROVE  AskedWasAccepted'
<1>1. CASE UNCHANGED reached
  BY <1>1 DEF AskedWasAccepted, Entered
<1>2. ASSUME NEW s \in Source, NEW l \in LifecycleState, Entering(s, l)
      PROVE  AskedWasAccepted'
  <2>1. \A r \in Source, k \in LifecycleState :
            Entered(r, k)' <=> Entered(r, k) \/ (r = s /\ k = l)
    BY <1>2, EnteredStates DEF Entering
  <2>2. {"POSITION_OPEN", "EXIT_REQUESTED", "ORDER_ACCEPTED"} \subseteq LifecycleState
    BY DEF LifecycleState
  <2>3. l = "POSITION_OPEN" => life[s] = "ORDER_ACCEPTED"
    BY <1>2 DEF Entering, Onward
  <2>4. l = "EXIT_REQUESTED" => life[s] = "POSITION_OPEN"
    BY <1>2 DEF Entering, Onward
  <2>5. \A k \in {"POSITION_OPEN", "ORDER_ACCEPTED"} : life[s] = k => Entered(s, k)
    BY NoneAssumption, <2>2 DEF LifeIsReached, Entered
  <2>6. l \in {"POSITION_OPEN", "EXIT_REQUESTED"} => Entered(s, "ORDER_ACCEPTED")
    BY <2>3, <2>4, <2>5 DEF AskedWasAccepted
  <2>7. QED
    BY <2>1, <2>2, <2>6 DEF AskedWasAccepted
<1>3. CASE RecordExitRequest(c) \/ Submit(c) \/ Close(c)
  BY <1>1, <1>3 DEF RecordExitRequest, Submit, Close, journal
<1>4. QED
  BY <1>1, <1>2, <1>3, StepKinds

\* How far a trade is, by its rows.
Claimed(s) == Entered(s, "ORDER_SUBMITTED")
Asked(s) == request[s] /\ Entered(s, "EXIT_REQUESTED")

\* The rows of an intent are those of a trade.
LEMMA RowsAreWhole ==
    ASSUME TInv, Tables, NEW s \in Source
    PROVE  /\ order[s] \in {None, "rejected"} => position[s] = None /\ exited[s] = FALSE
           /\ order[s] = "accepted" =>
                \/ position[s] = "OPEN" /\ exited[s] = FALSE
                \/ position[s] = "CLOSED" /\ exited[s] = TRUE
BY NoneAssumption DEF TInv, TypeOK, Tables, OnePosition, MoneyMovesOnce

\* A step that leaves the rows alone, and what was claimed and asked for.
LEMMA TradeStays ==
    ASSUME UNCHANGED books,
           \A s \in Source : (Claimed(s)' <=> Claimed(s)) /\ (Asked(s)' <=> Asked(s))
    PROVE  UNCHANGED Trading!tradeVars
<1>1. \A s \in Source : TradeOf(s)' = TradeOf(s)
  BY DEF TradeOf, Rows, Claimed, Asked, Entered, books
<1>2. QED
  BY <1>1 DEF Trading!tradeVars, books

\* A trade of one intent moves on, the others stay.
LEMMA TradeAdvances ==
    ASSUME NEW s \in Source, NEW from, NEW to, TradeOf(s) = from, TradeOf(s)' = to,
           \A r \in Source \ {s} : TradeOf(r)' = TradeOf(r)
    PROVE  Trading!Advance(s, from, to)
BY DEF Trading!Advance

\* The exit of a trade is asked for: the later of the request and the state.
LEMMA AskTrades ==
    ASSUME TInv, Tables, NEW s \in Source, UNCHANGED books, ~Asked(s), Asked(s)',
           Claimed(s)' <=> Claimed(s),
           \A r \in Source \ {s} :
                (Claimed(r)' <=> Claimed(r)) /\ (Asked(r)' <=> Asked(r))
    PROVE  [Trading!TradeNext]_(Trading!tradeVars)
<1>0. /\ order' = order /\ position' = position /\ exited' = exited /\ balance' = balance
  BY DEF books
<1>1. \A r \in Source \ {s} : TradeOf(r)' = TradeOf(r)
  BY <1>0 DEF TradeOf, Rows, Claimed, Asked, Entered
<1>2. CASE order[s] = "accepted" /\ position[s] = "OPEN" /\ exited[s] = FALSE
  <2>1. TradeOf(s) = "open" /\ TradeOf(s)' = "asked"
    BY <1>0, <1>2, NoneAssumption DEF TradeOf, Rows, Claimed, Asked, Entered
  <2>2. Trading!AskExit(s)
    BY <1>0, <1>1, <2>1, TradeAdvances DEF Trading!AskExit
  <2>3. QED
    BY <2>2 DEF Trading!TradeNext
<1>3. CASE ~(order[s] = "accepted" /\ position[s] = "OPEN" /\ exited[s] = FALSE)
  <2>1. TradeOf(s)' = TradeOf(s)
    BY <1>0, <1>3 DEF TradeOf, Rows, Claimed, Asked, Entered
  <2>2. QED
    BY <1>0, <1>1, <2>1 DEF Trading!tradeVars
<1>4. QED
  BY <1>2, <1>3

\* A state is entered in the journal.
LEMMA EnterTrades ==
    ASSUME TInv, Tables, NEW s \in Source, NEW l \in LifecycleState, Entering(s, l)
    PROVE  [Trading!TradeNext]_(Trading!tradeVars)
<1>1. \A r \in Source, k \in {"ORDER_SUBMITTED", "EXIT_REQUESTED"} :
         Entered(r, k)' <=> Entered(r, k) \/ (r = s /\ k = l)
  BY EnteredStates DEF Entering, LifecycleState
<1>2. /\ order' = order /\ position' = position /\ exited' = exited /\ balance' = balance
      /\ UNCHANGED books /\ request' = request
  BY DEF Entering, books
<1>3. CASE Entered(s, l) \/ l \notin {"ORDER_SUBMITTED", "EXIT_REQUESTED"}
  <2>1. \A r \in Source : (Claimed(r)' <=> Claimed(r)) /\ (Asked(r)' <=> Asked(r))
    BY <1>1, <1>2, <1>3 DEF Claimed, Asked
  <2>2. QED
    BY <1>2, <2>1, TradeStays
<1>4. CASE ~Entered(s, l) /\ l = "ORDER_SUBMITTED"
  <2>1. \A r \in Source \ {s} : TradeOf(r)' = TradeOf(r)
    BY <1>1, <1>2 DEF TradeOf, Rows, Entered
  <2>2. order[s] = None
    BY <1>4 DEF Tables, OrderIsOnRecord, Ordered, Entered
  <2>3. position[s] = None /\ exited[s] = FALSE
    BY <2>2, RowsAreWhole
  <2>4. ~Claimed(s) /\ Claimed(s)'
    BY <1>1, <1>4 DEF Claimed
  <2>5. TradeOf(s) = "none" /\ TradeOf(s)' = "claimed"
    BY <1>2, <2>2, <2>3, <2>4, NoneAssumption DEF TradeOf, Rows, Claimed, Entered
  <2>6. Trading!Claim(s)
    BY <1>2, <2>1, <2>5, TradeAdvances DEF Trading!Claim
  <2>7. QED
    BY <2>6 DEF Trading!TradeNext
<1>5. CASE ~Entered(s, l) /\ l = "EXIT_REQUESTED"
  <2>1. /\ Claimed(s)' <=> Claimed(s)
        /\ \A r \in Source \ {s} :
                (Claimed(r)' <=> Claimed(r)) /\ (Asked(r)' <=> Asked(r))
    BY <1>1, <1>2, <1>5 DEF Claimed, Asked
  <2>2. CASE request[s]
    <3>1. ~Asked(s) /\ Asked(s)'
      BY <1>1, <1>2, <1>5, <2>2 DEF Asked
    <3>2. QED
      BY <1>2, <2>1, <3>1, AskTrades
  <2>3. CASE ~request[s]
    <3>1. Asked(s)' <=> Asked(s)
      BY <1>2, <2>3 DEF Asked
    <3>2. \A r \in Source : (Claimed(r)' <=> Claimed(r)) /\ (Asked(r)' <=> Asked(r))
      BY <2>1, <3>1
    <3>3. QED
      BY <1>2, <3>2, TradeStays
  <2>4. QED
    BY <2>2, <2>3
<1>6. QED
  BY <1>3, <1>4, <1>5

\* The exit request is recorded.
LEMMA RequestTrades ==
    ASSUME TInv, Tables, NEW c \in Conductor, RecordExitRequest(c)
    PROVE  [Trading!TradeNext]_(Trading!tradeVars)
<1> PICK s \in Source : s = source[c]
  BY StepsAreBusy DEF TInv, RunsAreNamed, RecordExitRequest
<1>1. UNCHANGED books /\ reached' = reached
  BY DEF RecordExitRequest
<1>2. request'[s] = TRUE /\ \A r \in Source \ {s} : request'[r] = request[r]
  BY DEF RecordExitRequest, TInv, TypeOK
<1>3. /\ \A r \in Source : Claimed(r)' <=> Claimed(r)
      /\ \A r \in Source \ {s} : Asked(r)' <=> Asked(r)
  BY <1>1, <1>2 DEF Claimed, Asked, Entered
<1>4. CASE Asked(s)' <=> Asked(s)
  BY <1>1, <1>3, <1>4, TradeStays
<1>5. CASE ~(Asked(s)' <=> Asked(s))
  <2>1. ~Asked(s) /\ Asked(s)'
    BY <1>1, <1>2, <1>5 DEF Asked, Entered
  <2>2. QED
    BY <1>1, <1>3, <2>1, AskTrades
<1>6. QED
  BY <1>4, <1>5

\* The broker records an order, with its verdict.
LEMMA SubmitTrades ==
    ASSUME TInv, Tables, AskedWasAccepted, NEW c \in Conductor, Backed(c), Submit(c)
    PROVE  [Trading!TradeNext]_(Trading!tradeVars)
<1> PICK s \in Source : s = source[c]
  BY StepsAreBusy DEF TInv, RunsAreNamed, Submit
<1>0. UNCHANGED <<reached, request, exited, balance>>
  BY DEF Submit, journal
<1>1. Claimed(s)
  BY DEF Submit, Backed, Needs, Claimed, Entered
<1>2. \/ order' = order /\ position' = position
      \/ /\ order[s] = None /\ order' = [order EXCEPT ![s] = "rejected"]
         /\ position' = position
      \/ /\ order[s] = None /\ order' = [order EXCEPT ![s] = "accepted"]
         /\ position' = [position EXCEPT ![s] = "OPEN"]
         /\ \A r \in Source : position[r] # "OPEN"
  BY DEF Submit, PositionLimitReached
<1>3. CASE order' = order /\ position' = position
  BY <1>0, <1>3, TradeStays DEF books, Claimed, Asked, Entered
<1>4. ASSUME order[s] = None
      PROVE  TradeOf(s) = "claimed" /\ position[s] = None /\ exited[s] = FALSE
  BY <1>1, <1>4, RowsAreWhole, NoneAssumption DEF TradeOf, Rows, Claimed, Entered
<1>5. CASE /\ order[s] = None /\ order' = [order EXCEPT ![s] = "rejected"]
           /\ position' = position
  <2>1. order'[s] = "rejected" /\ \A r \in Source \ {s} : order'[r] = order[r]
    BY <1>5 DEF TInv, TypeOK
  <2>2. \A r \in Source \ {s} : TradeOf(r)' = TradeOf(r)
    BY <1>0, <1>5, <2>1 DEF TradeOf, Rows
  <2>3. TradeOf(s)' = "rejected"
    BY <1>0, <1>4, <1>5, <2>1, NoneAssumption DEF TradeOf, Rows
  <2>4. Trading!Reject(s)
    BY <1>0, <1>4, <1>5, <2>2, <2>3, TradeAdvances DEF Trading!Reject
  <2>5. QED
    BY <2>4 DEF Trading!TradeNext
<1>6. CASE /\ order[s] = None /\ order' = [order EXCEPT ![s] = "accepted"]
           /\ position' = [position EXCEPT ![s] = "OPEN"]
           /\ \A r \in Source : position[r] # "OPEN"
  <2>1. /\ order'[s] = "accepted" /\ position'[s] = "OPEN"
        /\ \A r \in Source \ {s} : order'[r] = order[r] /\ position'[r] = position[r]
    BY <1>6 DEF TInv, TypeOK
  <2>2. \A r \in Source \ {s} : TradeOf(r)' = TradeOf(r)
    BY <1>0, <2>1 DEF TradeOf, Rows
  <2>3. ~Entered(s, "EXIT_REQUESTED")
    BY <1>6, NoneAssumption
    DEF AskedWasAccepted, Tables, JournalIsBacked, Entered
  <2>4. TradeOf(s)' = "open"
    BY <1>0, <1>4, <1>6, <2>1, <2>3, NoneAssumption DEF TradeOf, Rows, Entered
  <2>5. \A r \in Source : TradeOf(r) \notin {"open", "asked"}
    BY <1>6, NoneAssumption DEF TradeOf, Rows
  <2>6. Trading!Open(s)
    BY <1>0, <1>4, <1>6, <2>2, <2>4, <2>5, TradeAdvances DEF Trading!Open, Trading!Live
  <2>7. QED
    BY <2>6 DEF Trading!TradeNext
<1>7. QED
  BY <1>2, <1>3, <1>5, <1>6

\* The broker closes a position, once, and credits it.
LEMMA CloseTrades ==
    ASSUME TInv, Tables, NEW c \in Conductor, Backed(c), Close(c)
    PROVE  [Trading!TradeNext]_(Trading!tradeVars)
<1> PICK s \in Source : s = source[c]
  BY StepsAreBusy DEF TInv, RunsAreNamed, Close
<1>0. UNCHANGED <<reached, request, order>>
  BY DEF Close, journal
<1>1. Asked(s)
  BY DEF Close, Backed, Needs, Asked, Entered
<1>2. CASE ~exited[s] /\ position[s] = "OPEN"
  <2>1. /\ position' = [position EXCEPT ![s] = "CLOSED"]
        /\ exited' = [exited EXCEPT ![s] = TRUE]
        /\ balance' = balance + 1
    BY <1>2 DEF Close
  <2>2. /\ exited'[s] = TRUE /\ position'[s] = "CLOSED"
        /\ \A r \in Source \ {s} : exited'[r] = exited[r] /\ position'[r] = position[r]
    BY <2>1 DEF TInv, TypeOK
  <2>3. \A r \in Source \ {s} : TradeOf(r)' = TradeOf(r)
    BY <1>0, <2>2 DEF TradeOf, Rows
  <2>4. order[s] = "accepted" /\ exited[s] = FALSE
    BY <1>2, NoneAssumption DEF TInv, TypeOK, Tables, OnePosition
  <2>5. TradeOf(s) = "asked"
    BY <1>1, <1>2, <2>4, NoneAssumption DEF TradeOf, Rows, Asked, Entered
  <2>6. TradeOf(s)' = "closed"
    BY <1>0, <2>2, <2>4, NoneAssumption DEF TradeOf, Rows
  <2>7. Trading!Settle(s)
    BY <2>1, <2>3, <2>5, <2>6, TradeAdvances DEF Trading!Settle
  <2>8. QED
    BY <2>7 DEF Trading!TradeNext
<1>3. CASE ~(~exited[s] /\ position[s] = "OPEN")
  <2>1. UNCHANGED books
    BY <1>0, <1>3 DEF Close, books
  <2>2. QED
    BY <1>0, <2>1, TradeStays DEF Claimed, Asked, Entered
<1>4. QED
  BY <1>2, <1>3

\* Any number of runs on one directory, dying and starting again between two
\* databases, trade an intent as one run that never dies: they claim it, open
\* it alone, ask for its exit and settle it, in that order and each once.
THEOREM PaperImplementsTrade == Spec => ImplementsPaperTrade
<1>1. Init => Trading!TradeInit /\ AskedWasAccepted
  <2> SUFFICES ASSUME Init PROVE Trading!TradeInit /\ AskedWasAccepted
    OBVIOUS
  <2>1. \A s \in Source : TradeOf(s) = "none"
    BY NoneAssumption DEF Init, TradeOf, Rows
  <2>2. Trading!TradeInit
    BY <2>1 DEF Init, Trading!TradeInit
  <2>3. AskedWasAccepted
    BY DEF Init, AskedWasAccepted, Entered
  <2>4. QED
    BY <2>2, <2>3
<1>2. IInv /\ AskedWasAccepted /\ [Next]_vars => AskedWasAccepted'
  <2> SUFFICES ASSUME IInv, AskedWasAccepted, [Next]_vars PROVE AskedWasAccepted'
    OBVIOUS
  <2>1. CASE UNCHANGED vars
    BY <2>1 DEF vars, journal, AskedWasAccepted, Entered
  <2>2. QED
    BY <2>1, AskedKept DEF Next, IInv
<1>3. IInv /\ AskedWasAccepted /\ [Next]_vars
            => [Trading!TradeNext]_(Trading!tradeVars)
  <2> SUFFICES ASSUME IInv, AskedWasAccepted, [Next]_vars
               PROVE  [Trading!TradeNext]_(Trading!tradeVars)
    OBVIOUS
  <2>0. TInv /\ Tables /\ RunsAreBacked
    BY DEF IInv, Tables
  <2>1. ASSUME UNCHANGED <<reached, request, books>>
        PROVE  [Trading!TradeNext]_(Trading!tradeVars)
    BY <2>1, TradeStays DEF Claimed, Asked, Entered
  <2>2. CASE UNCHANGED vars
    BY <2>1, <2>2 DEF vars, journal
  <2>3. CASE Next
    <3> PICK c \in Conductor :
          \/ \E s \in Input[c] : Start(c, s)
          \/ Work(c) \/ CallFails(c) \/ RiskUnknown(c) \/ Crash(c)
      BY <2>3 DEF Next
    <3>1. Backed(c)
      BY <2>0 DEF RunsAreBacked
    <3>2. \/ UNCHANGED <<reached, request, books>>
          \/ \E s \in Source, l \in LifecycleState : Entering(s, l)
          \/ RecordExitRequest(c) \/ Submit(c) \/ Close(c)
      BY <2>0, StepKinds
    <3>3. QED
      BY <2>0, <2>1, <3>1, <3>2, EnterTrades, RequestTrades,
         SubmitTrades, CloseTrades
  <2>4. QED
    BY <2>2, <2>3
<1>4. QED
  BY <1>1, <1>2, <1>3, Invariant, PTL
  DEF Spec, ImplementsPaperTrade, Trading!TradeSpec
=============================================================================
