---------------------------- MODULE OfflinePaper ----------------------------
(***************************************************************************)
(* The OFFLINE_PAPER lifecycle (src/ig_trader/offline_paper).  A conductor *)
(* is one run of the command line: it reads a fixture (the source), walks  *)
(* the analysis, records a trade intent in trade-intents.db (the journal), *)
(* submits it to the PaperBroker, whose tables are in paper-broker.db (the *)
(* books), closes the position and reconciles.  The two databases share no *)
(* transaction.  A run may die between any two calls and be started again; *)
(* no lock keeps two runs off one state directory.                         *)
(*                                                                         *)
(* Every step of a run is one call to a database, which is one             *)
(* transaction; where a call selects first and writes then, another run    *)
(* that comes between makes the write fail (a unique key, the condition on *)
(* the old state), and that is an outcome of CallFails.  A call that fails *)
(* changes nothing and returns False, None or an unrecorded rejection; a   *)
(* read returns None both for a row that is absent and for one it could    *)
(* not read.  Left out: several instruments of a fixture, the strategy's   *)
(* arithmetic and sizes, and the wording of the report.                    *)
(***************************************************************************)
EXTENDS Integers, FiniteSets

CONSTANTS
    Conductor,  \* runs of the command line on one state directory
    Source,     \* fixtures; each has one candidate, hence one intent
    Input,      \* the fixtures a conductor may be given
    CycleOf,    \* the cycle_id a fixture names
    Exitable,   \* fixtures whose exit candle reaches one level, not two or none
    None

ASSUME SourceAssumption ==
    /\ IsFiniteSet(Source)
    /\ Input \in [Conductor -> SUBSET Source]
    /\ CycleOf \in [Source -> STRING]
    /\ Exitable \subseteq Source

VARIABLES
    \* trade-intents.db
    opened,     \* offline_runs: the fixture of each cycle
    risk,       \* risk_decisions
    life,       \* trade_intents.lifecycle_state, None without an intent
    reached,    \* lifecycle_events: the states an intent was in
    lineage,    \* evidence_lineage
    request,    \* exit_requests
    \* paper-broker.db
    order,      \* paper_orders with paper_fills: the fill's verdict
    position,   \* paper_positions.status
    exited,     \* paper_exits
    balance,    \* paper_accounts: closings credited so far
    \* one run
    at,         \* the call a conductor makes next
    source,     \* its fixture
    held        \* what it read and still uses

journal == <<opened, risk, life, reached, lineage, request>>
books == <<order, position, exited, balance>>
local == <<at, source, held>>
vars == <<journal, books, local>>

-----------------------------------------------------------------------------
(* What the tables hold. *)

Terminal == {"RECONCILED", "FAILED_SAFE"}
LifecycleState ==
    {"SIGNAL_DETECTED", "INTENT_CREATED", "ORDER_SUBMITTED", "ORDER_ACCEPTED",
     "ORDER_REJECTED", "POSITION_OPEN", "EXIT_REQUESTED", "POSITION_CLOSED"}
        \union Terminal

\* _TRANSITIONS, but for FAILED_SAFE: every state that is not final has it.
Onward ==
    {<<"SIGNAL_DETECTED", "INTENT_CREATED">>,
     <<"INTENT_CREATED", "ORDER_SUBMITTED">>,
     <<"ORDER_SUBMITTED", "ORDER_ACCEPTED">>,
     <<"ORDER_SUBMITTED", "ORDER_REJECTED">>,
     <<"ORDER_REJECTED", "RECONCILED">>,
     <<"ORDER_ACCEPTED", "POSITION_OPEN">>,
     <<"POSITION_OPEN", "EXIT_REQUESTED">>,
     <<"EXIT_REQUESTED", "POSITION_CLOSED">>,
     <<"POSITION_CLOSED", "RECONCILED">>}

\* The rows before the intent (market input, strategy, ranking, risk, sizing)
\* are left out: a run writes them one by one, nothing reads them, and one that
\* fails blocks the run as any call does there.
Execution == {"EXECUTION", "CONFIRMATION", "POSITION", "EXIT", "RECONCILIATION"}
Phase == {"TRADE_INTENT"} \union Execution

\* "STATE_UNKNOWN": of the account, or of the count of intents.
Decision == {"ALLOWED", "CYCLE_EXECUTION_LIMIT", "STATE_UNKNOWN"}
\* "unknown": the rejection that submit returns and does not record.
Fill == {"accepted", "rejected", "unknown"}

\* None is an empty column, and not a value of any.
ASSUME NoneAssumption ==
    /\ None \notin Source /\ None \notin Nat \X Nat
    /\ None \notin LifecycleState \union Decision \union Fill
    /\ None \notin {"accepted", "rejected", "OPEN", "CLOSED", "present"}

\* What the payload of a row depends on, besides its source.
Payload(p) ==
    CASE p = "EXECUTION" -> Fill
      [] p = "RECONCILIATION" -> Nat \X Nat
      [] OTHER -> {"present"}

Intents == {s \in Source : life[s] # None}
Ordered == {s \in Source : order[s] # None}
Exits == {s \in Source : exited[s]}

-----------------------------------------------------------------------------
(* The calls of a run, in the order of the code. *)

Idle == <<"idle", "">>
\* Cut short, by a death or by a call that failed.
Down == <<"down", "">>
Ended == {Idle, Down}
FailSafe == <<"fail_safe", "">>
Resume == <<"resume", "">>
Write(phase) == <<"append", phase>>
Move(state) == <<"move", state>>
Call(name) == <<"call", name>>

Preamble == {"state", "risk", "create_intent"}
Reading == {"order", "fill", "confirmation", "open_position", "exit",
            "reconciliation"}
Writing == {"submit", "record_exit_request", "close"}
Step ==
    Ended \union {FailSafe, Resume}
        \union {Write(p) : p \in Phase}
        \union {Move(l) : l \in LifecycleState}
        \union {Call(n) : n \in Preamble \union Reading \union Writing}

NothingHeld == [ordered |-> FALSE, fill |-> None, tally |-> None]
Held ==
    [ordered : BOOLEAN, fill : Fill \union {None},
     tally : (Nat \X Nat) \union {None}]

TypeOK ==
    /\ opened \in [{CycleOf[s] : s \in Source} -> Source \union {None}]
    /\ risk \in [Source -> Decision \union {None}]
    /\ life \in [Source -> LifecycleState \union {None}]
    /\ reached \in [Source -> SUBSET LifecycleState]
    /\ DOMAIN lineage = Source
    /\ \A s \in Source : DOMAIN lineage[s] = Phase
    /\ \A s \in Source, p \in Phase :
            lineage[s][p] = None \/ lineage[s][p] \in Payload(p)
    /\ request \in [Source -> BOOLEAN]
    /\ order \in [Source -> {"accepted", "rejected", None}]
    /\ position \in [Source -> {"OPEN", "CLOSED", None}]
    /\ exited \in [Source -> BOOLEAN]
    /\ balance \in Nat
    /\ at \in [Conductor -> Step]
    /\ source \in [Conductor -> Source \union {None}]
    /\ held \in [Conductor -> Held]

Init ==
    /\ opened = [y \in {CycleOf[s] : s \in Source} |-> None]
    /\ risk = [s \in Source |-> None]
    /\ life = [s \in Source |-> None]
    /\ reached = [s \in Source |-> {}]
    /\ lineage = [s \in Source |-> [p \in Phase |-> None]]
    /\ request = [s \in Source |-> FALSE]
    /\ order = [s \in Source |-> None]
    /\ position = [s \in Source |-> None]
    /\ exited = [s \in Source |-> FALSE]
    /\ balance = 0
    /\ at = [c \in Conductor |-> Idle]
    /\ source = [c \in Conductor |-> None]
    /\ held = [c \in Conductor |-> NothingHeld]

-----------------------------------------------------------------------------
(* A run's own state. *)

\* Conductor c goes on to `step` with `now` in hand.  A run that ends, or
\* that returns to the head of its loop, holds nothing.
GoWith(c, step, now) ==
    /\ at' = [at EXCEPT ![c] = step]
    /\ held' = [held EXCEPT ![c] = IF step \in Ended \union {Resume, FailSafe}
                                   THEN NothingHeld ELSE now]
    /\ source' = [source EXCEPT ![c] = IF step \in Ended THEN None ELSE @]
Go(c, step) == GoWith(c, step, held[c])

\* The operator starts a run on a fixture; a cycle that was opened with another
\* fixture refuses it.
Start(c, s) ==
    /\ at[c] \in Ended
    /\ opened[CycleOf[s]] \in {None, s}
    /\ opened' = [opened EXCEPT ![CycleOf[s]] = s]
    /\ at' = [at EXCEPT ![c] = Call("state")]
    /\ source' = [source EXCEPT ![c] = s]
    /\ UNCHANGED <<risk, life, reached, lineage, request, books, held>>

-----------------------------------------------------------------------------
(* run(): what is there, and if nothing is, the analysis. *)

\* The intents, then a snapshot of the books.  Several intents, another
\* fixture's intent, and an order without an intent block the run.  (One step:
\* an intent and order that come between the two reads block the run too, and
\* that is an outcome of CallFails.)
ReadState(c) ==
    /\ at[c] = Call("state")
    /\ Go(c, CASE Intents = {source[c]} -> Resume
               [] Intents = {} /\ Ordered = {} -> Call("risk")
               [] OTHER -> Idle)
    /\ UNCHANGED <<journal, books>>

\* _risk reads the account and counts the intents of the store; the decision
\* is recorded, and if it was recorded before must be the same.
RecordRisk(c, decision) ==
    /\ at[c] = Call("risk")
    /\ LET s == source[c] IN
        IF risk[s] \in {None, decision}
        THEN /\ risk' = [risk EXCEPT ![s] = decision]
             /\ Go(c, IF decision = "ALLOWED" THEN Call("create_intent") ELSE Idle)
        ELSE risk' = risk /\ Go(c, Idle)
    /\ UNCHANGED <<opened, life, reached, lineage, request, books>>
DecideRisk(c) ==
    RecordRisk(c, IF Intents = {} THEN "ALLOWED" ELSE "CYCLE_EXECUTION_LIMIT")

\* A row of the same intent has the same payload only while it is new: the
\* payload carries the state.  A cycle has one row.
Creatable(s) ==
    /\ life[s] \in {None, "SIGNAL_DETECTED"}
    /\ \A r \in Intents \ {s} : CycleOf[r] # CycleOf[s]
CreateIntent(c) ==
    /\ at[c] = Call("create_intent")
    /\ LET s == source[c] IN
        IF Creatable(s)
        THEN /\ life' = [life EXCEPT ![s] = "SIGNAL_DETECTED"]
             /\ reached' = [reached EXCEPT ![s] = @ \union {"SIGNAL_DETECTED"}]
             /\ Go(c, Write("TRADE_INTENT"))
        ELSE UNCHANGED <<life, reached>> /\ Go(c, Idle)
    /\ UNCHANGED <<opened, risk, lineage, request, books>>

-----------------------------------------------------------------------------
(* append_lineage and transition, and where the code goes on from them. *)

\* Mutant: the acceptance is taken for the verdict of every fill.
AfterAppendAccepting(c, p) ==
    CASE p = "TRADE_INTENT" -> Move("INTENT_CREATED")
      [] p = "EXECUTION" -> Move("ORDER_ACCEPTED")
      [] p = "CONFIRMATION" -> Move("POSITION_OPEN")
      [] p = "POSITION" -> Resume
      [] p = "EXIT" -> Move("POSITION_CLOSED")
      [] p = "RECONCILIATION" -> Move("RECONCILED")

AfterAppend(c, p) ==
    CASE p = "TRADE_INTENT" -> Move("INTENT_CREATED")
      [] p = "EXECUTION" -> IF held[c].fill = "accepted"
                            THEN Move("ORDER_ACCEPTED") ELSE Move("ORDER_REJECTED")
      [] p = "CONFIRMATION" -> Move("POSITION_OPEN")
      [] p = "POSITION" -> Resume
      [] p = "EXIT" -> Move("POSITION_CLOSED")
      [] p = "RECONCILIATION" -> Move("RECONCILED")

Written(c, p) ==
    CASE p = "EXECUTION" -> held[c].fill
      [] p = "RECONCILIATION" -> held[c].tally
      [] OTHER -> "present"

\* The row of the intent's creation blocks the run when it is refused, a later
\* one fails the intent safe.
Refusal(p) == IF p = "TRADE_INTENT" THEN Idle ELSE FailSafe

\* A phase is written once; the same payload again is accepted.
AppendLineage(c) ==
    \E p \in Phase :
        /\ at[c] = Write(p)
        /\ LET s == source[c] IN
            IF lineage[s][p] \in {None, Written(c, p)}
            THEN /\ lineage' = [lineage EXCEPT ![s][p] = Written(c, p)]
                 /\ Go(c, AfterAppend(c, p))
            ELSE lineage' = lineage /\ Go(c, Refusal(p))
        /\ UNCHANGED <<opened, risk, life, reached, request, books>>

AfterMove(l) ==
    CASE l = "POSITION_OPEN" -> Write("POSITION")
      [] l = "ORDER_REJECTED" -> Move("RECONCILED")
      [] OTHER -> Resume

Enter(s, l) ==
    /\ life' = [life EXCEPT ![s] = l]
    /\ reached' = [reached EXCEPT ![s] = @ \union {l}]

Transition(c) ==
    \E l \in LifecycleState :
        /\ at[c] = Move(l)
        /\ LET s == source[c] IN
            IF <<life[s], l>> \in Onward
            THEN Enter(s, l) /\ Go(c, AfterMove(l))
            ELSE UNCHANGED <<life, reached>> /\ Go(c, FailSafe)
        /\ UNCHANGED <<opened, risk, lineage, request, books>>

\* _fail_safe: the run ends blocked, and the intent with it unless it is final.
FailIntentSafe(c) ==
    /\ at[c] = FailSafe
    /\ LET s == source[c] IN
        IF life[s] \notin Terminal
        THEN Enter(s, "FAILED_SAFE")
        ELSE UNCHANGED <<life, reached>>
    /\ Go(c, Idle)
    /\ UNCHANGED <<opened, risk, lineage, request, books>>

-----------------------------------------------------------------------------
(* _resume: one call after the other, chosen by the state of the intent. *)

\* Mutant: an intent that was not yet confirmed as created is left alone.
NextCallCreated(l) ==
    CASE l = "INTENT_CREATED" -> Move("ORDER_SUBMITTED")
      [] l = "ORDER_SUBMITTED" -> Call("order")
      [] l = "ORDER_ACCEPTED" -> Call("confirmation")
      [] l = "POSITION_OPEN" -> Call("open_position")
      [] l = "EXIT_REQUESTED" -> Call("exit")
      [] l = "POSITION_CLOSED" -> Call("reconciliation")
      [] l = "ORDER_REJECTED" -> FailSafe
      [] OTHER -> Idle

NextCall(l) ==
    CASE l = "SIGNAL_DETECTED" -> Move("INTENT_CREATED")
      [] l = "INTENT_CREATED" -> Move("ORDER_SUBMITTED")
      [] l = "ORDER_SUBMITTED" -> Call("order")
      [] l = "ORDER_ACCEPTED" -> Call("confirmation")
      [] l = "POSITION_OPEN" -> Call("open_position")
      [] l = "EXIT_REQUESTED" -> Call("exit")
      [] l = "POSITION_CLOSED" -> Call("reconciliation")
      [] l = "ORDER_REJECTED" -> FailSafe
      [] OTHER -> Idle
ReadIntent(c) ==
    /\ at[c] = Resume
    /\ Go(c, NextCall(life[source[c]]))
    /\ UNCHANGED <<journal, books>>

\* A read of the books, after which the run goes on or fails the intent safe.
Read(c, name, found, onward) ==
    /\ at[c] = Call(name)
    /\ Go(c, IF found THEN onward ELSE FailSafe)
    /\ UNCHANGED <<journal, books>>

\* ORDER_SUBMITTED: an order that is there is taken with its fill; none is
\* submitted; one without the other is not understood.
ReadOrder(c) ==
    /\ at[c] = Call("order")
    /\ LET there == order[source[c]] # None
       IN GoWith(c, Call("fill"), [held[c] EXCEPT !.ordered = there])
    /\ UNCHANGED <<journal, books>>
WithFill(c, fill) ==
    GoWith(c, CASE held[c].ordered /\ fill # None -> Write("EXECUTION")
                [] ~held[c].ordered /\ fill = None -> Call("submit")
                [] OTHER -> FailSafe,
              [held[c] EXCEPT !.fill = fill])
ReadFill(c) ==
    /\ at[c] = Call("fill")
    /\ WithFill(c, order[source[c]])
    /\ UNCHANGED <<journal, books>>

\* submit: an intent's first order is recorded with its fill and, if the
\* policy of the run accepts it, its position; a second open position undoes
\* the whole transaction.
Submitted(c, fill) ==
    GoWith(c, Write("EXECUTION"), [held[c] EXCEPT !.fill = fill])
PositionLimitReached == \E r \in Source : position[r] = "OPEN"
\* Mutant: the count of open positions is not looked at.
SubmitUnlimited(c) ==
    /\ at[c] = Call("submit")
    /\ LET s == source[c] IN
        \/ /\ order[s] # None
           /\ Submitted(c, order[s])
           /\ UNCHANGED <<order, position>>
        \/ /\ order[s] = None
           /\ order' = [order EXCEPT ![s] = "rejected"]
           /\ Submitted(c, "rejected")
           /\ UNCHANGED position
        \/ /\ order[s] = None
           /\ order' = [order EXCEPT ![s] = "accepted"]
           /\ position' = [position EXCEPT ![s] = "OPEN"]
           /\ Submitted(c, "accepted")
    /\ UNCHANGED <<journal, exited, balance>>
Submit(c) ==
    /\ at[c] = Call("submit")
    /\ LET s == source[c] IN
        \/ /\ order[s] # None
           /\ Submitted(c, order[s])
           /\ UNCHANGED <<order, position>>
        \/ /\ order[s] = None
           /\ order' = [order EXCEPT ![s] = "rejected"]
           /\ Submitted(c, "rejected")
           /\ UNCHANGED position
        \/ /\ order[s] = None /\ ~PositionLimitReached
           /\ order' = [order EXCEPT ![s] = "accepted"]
           /\ position' = [position EXCEPT ![s] = "OPEN"]
           /\ Submitted(c, "accepted")
        \/ /\ order[s] = None /\ PositionLimitReached
           /\ Submitted(c, "unknown")
           /\ UNCHANGED <<order, position>>
    /\ UNCHANGED <<journal, exited, balance>>

\* Mutant: the position is entered in the journal before its confirmation.
ReadConfirmationLate(c) ==
    Read(c, "confirmation",
         order[source[c]] = "accepted" /\ position[source[c]] # None,
         Move("POSITION_OPEN"))
\* ORDER_ACCEPTED: the fill and its position, two rows that never change.
ReadConfirmation(c) ==
    Read(c, "confirmation",
         order[source[c]] = "accepted" /\ position[source[c]] # None,
         Write("CONFIRMATION"))

\* POSITION_OPEN: the exit candle must reach one level.
ReadOpenPosition(c) ==
    Read(c, "open_position",
         position[source[c]] # None /\ source[c] \in Exitable,
         Call("record_exit_request"))
RecordExitRequest(c) ==
    /\ at[c] = Call("record_exit_request")
    /\ request' = [request EXCEPT ![source[c]] = TRUE]
    /\ Go(c, Move("EXIT_REQUESTED"))
    /\ UNCHANGED <<opened, risk, life, reached, lineage, books>>

\* EXIT_REQUESTED: the request, which never changes, and the exit; without one
\* the position is closed.
ReadExit(c) ==
    Read(c, "exit", request[source[c]],
         IF exited[source[c]] THEN Write("EXIT") ELSE Call("close"))
\* Mutant: the profit is credited before the exit is looked up.
CloseCrediting(c) ==
    /\ at[c] = Call("close")
    /\ balance' = balance + 1
    /\ LET s == source[c] IN
        IF ~exited[s] /\ position[s] = "OPEN"
        THEN /\ position' = [position EXCEPT ![s] = "CLOSED"]
             /\ exited' = [exited EXCEPT ![s] = TRUE]
             /\ Go(c, Write("EXIT"))
        ELSE /\ UNCHANGED <<position, exited>>
             /\ Go(c, IF exited[s] THEN Write("EXIT") ELSE FailSafe)
    /\ UNCHANGED <<journal, order>>
Close(c) ==
    /\ at[c] = Call("close")
    /\ LET s == source[c] IN
        IF ~exited[s] /\ position[s] = "OPEN"
        THEN /\ position' = [position EXCEPT ![s] = "CLOSED"]
             /\ balance' = balance + 1
             /\ exited' = [exited EXCEPT ![s] = TRUE]
             /\ Go(c, Write("EXIT"))
        ELSE /\ UNCHANGED <<position, balance, exited>>
             /\ Go(c, IF exited[s] THEN Write("EXIT") ELSE FailSafe)
    /\ UNCHANGED <<journal, order>>

\* POSITION_CLOSED: the exit, which never changes, and a snapshot without the
\* position.
ReadReconciliation(c) ==
    /\ at[c] = Call("reconciliation")
    /\ GoWith(c, IF exited[source[c]] /\ position[source[c]] # "OPEN"
                 THEN Write("RECONCILIATION") ELSE FailSafe,
              [held[c] EXCEPT !.tally =
                    <<Cardinality(Ordered), Cardinality(Exits)>>])
    /\ UNCHANGED <<journal, books>>

-----------------------------------------------------------------------------
(* What goes wrong. *)

\* A call fails: before the intent exists, and when it cannot be read, the run
\* is blocked; an order, fill or exit that could not be read counts as absent;
\* a failed submission is a rejection; anything else fails the intent safe.
BlockingCall ==
    {Resume, FailSafe, Write("TRADE_INTENT")}
        \union {Call(n) : n \in Preamble}
SafeCall ==
    {Write(p) : p \in Execution} \union {Move(l) : l \in LifecycleState}
        \union {Call(n) : n \in {"confirmation", "open_position",
                    "record_exit_request", "exit", "close",
                    "reconciliation"}}
CallFails(c) ==
    /\ \/ at[c] \in BlockingCall /\ Go(c, Down)
       \/ at[c] \in SafeCall /\ Go(c, FailSafe)
       \/ /\ at[c] = Call("order")
          /\ GoWith(c, Call("fill"), [held[c] EXCEPT !.ordered = FALSE])
       \/ at[c] = Call("fill") /\ WithFill(c, None)
       \/ at[c] = Call("submit") /\ Submitted(c, "unknown")
       \/ at[c] = Call("exit") /\ request[source[c]] /\ Go(c, Call("close"))
    /\ UNCHANGED <<journal, books>>

\* An account or a count that could not be read is a veto, and recorded as one.
RiskUnknown(c) == RecordRisk(c, "STATE_UNKNOWN")

\* The process dies between two calls.
Crash(c) ==
    /\ at[c] \notin Ended
    /\ Go(c, Down)
    /\ UNCHANGED <<journal, books>>

-----------------------------------------------------------------------------
Work(c) ==
    \/ ReadState(c) \/ DecideRisk(c) \/ CreateIntent(c)
    \/ AppendLineage(c) \/ Transition(c) \/ FailIntentSafe(c)
    \/ ReadIntent(c) \/ ReadOrder(c) \/ ReadFill(c) \/ Submit(c)
    \/ ReadConfirmation(c) \/ ReadOpenPosition(c) \/ RecordExitRequest(c)
    \/ ReadExit(c) \/ Close(c) \/ ReadReconciliation(c)

Next ==
    \E c \in Conductor :
        \/ \E s \in Input[c] : Start(c, s)
        \/ Work(c) \/ CallFails(c) \/ RiskUnknown(c) \/ Crash(c)

Spec == Init /\ [][Next]_vars

\* A run goes on until it ends; somebody runs every fixture again; calls fail,
\* and processes die, finitely often.
FairSpec ==
    /\ Spec
    /\ \A c \in Conductor :
        /\ WF_vars(Work(c))
        /\ \A s \in Input[c] : SF_vars(Start(c, s))
        /\ <>[][~CallFails(c) /\ ~Crash(c)]_vars

-----------------------------------------------------------------------------
(* Safety. *)

\* An order is in the books only after the journal claimed its submission:
\* whatever dies or fails, no order is found without its intent.
OrderIsOnRecord == \A s \in Ordered : "ORDER_SUBMITTED" \in reached[s]

\* The books never hold two open positions, and every order that was accepted
\* has one position.
OnePosition ==
    /\ \A r, s \in Source :
            position[r] = "OPEN" /\ position[s] = "OPEN" => r = s
    /\ \A s \in Source : (position[s] # None) = (order[s] = "accepted")

\* Money moves once for each closed position, however often a close is asked
\* for, and only for an exit that the journal had recorded.
MoneyMovesOnce ==
    /\ balance = Cardinality(Exits)
    /\ \A s \in Source : exited[s] = (position[s] = "CLOSED")
    /\ \A s \in Exits : request[s] /\ "EXIT_REQUESTED" \in reached[s]

\* One position at a time, and its money once: no death between two databases
\* and no second run opens, closes or credits anything twice.
BooksAreSound == OnePosition /\ MoneyMovesOnce

\* What the journal says of the books is so: an accepted order is there, and a
\* closed position is closed, though the databases share no transaction.
JournalIsBacked ==
    \A s \in Source :
        /\ "ORDER_ACCEPTED" \in reached[s] => order[s] = "accepted"
        /\ "POSITION_CLOSED" \in reached[s] => position[s] = "CLOSED"

\* Each of these states is entered only with its evidence in the chain, after
\* any crash and with any second run.
Evidence ==
    {<<"ORDER_ACCEPTED", "EXECUTION">>, <<"ORDER_REJECTED", "EXECUTION">>,
     <<"POSITION_OPEN", "CONFIRMATION">>, <<"POSITION_CLOSED", "EXIT">>}
EvidencePrecedesState ==
    \A s \in Source, e \in Evidence :
        e[1] \in reached[s] => lineage[s][e[2]] # None

\* An intent's verdict is the one its evidence gives: an order evidenced as
\* accepted is never rejected in the journal, nor the reverse.
VerdictIsEvidenced ==
    \A s \in Source :
        /\ "ORDER_ACCEPTED" \in reached[s] =>
                lineage[s]["EXECUTION"] = "accepted"
        /\ "ORDER_REJECTED" \in reached[s] =>
                lineage[s]["EXECUTION"] \in {"rejected", "unknown"}

\* The journal says nothing of an order or a position that the books do not
\* bear out and the chain does not evidence, with the same verdict: three
\* tables in two databases, in whatever order they were written.
JournalIsTrue == JournalIsBacked /\ EvidencePrecedesState /\ VerdictIsEvidenced

\* The tables implement the trade of each intent.  What is claimed and asked for
\* the journal says, what is rejected, open and closed the rows of the books; rows
\* that no trade has are torn.
Rows(s, o, p, e) == order[s] = o /\ position[s] = p /\ exited[s] = e
TradeOf(s) ==
    CASE Rows(s, None, None, FALSE) ->
            IF "ORDER_SUBMITTED" \in reached[s] THEN "claimed" ELSE "none"
      [] Rows(s, "rejected", None, FALSE) -> "rejected"
      [] Rows(s, "accepted", "OPEN", FALSE) ->
            IF request[s] /\ "EXIT_REQUESTED" \in reached[s] THEN "asked" ELSE "open"
      [] Rows(s, "accepted", "CLOSED", TRUE) -> "closed"
      [] OTHER -> "torn"
Trading == INSTANCE PaperTrade WITH
    Intent <- Source, trade <- [s \in Source |-> TradeOf(s)], credit <- balance

\* Any number of runs, dying and starting again between the two databases, trade an
\* intent as one run would that never dies: it is claimed, opened while nothing else is,
\* asked to exit and settled, each once and in that order, and the money moves with the
\* settlement; no row of the books is ever without the others.
ImplementsPaperTrade == Trading!TradeSpec

-----------------------------------------------------------------------------
(* Liveness. *)

\* However a run was cut short, the runs after it bring the intent to the end
\* or fail it safe; only a second intent in the store stops that.
Unsettled == {s \in Intents : life[s] \notin Terminal}
IntentSettles == Unsettled # {} ~> Unsettled = {} \/ Cardinality(Intents) > 1
=============================================================================
