----------------------------- MODULE DemoProofs -----------------------------
(***************************************************************************)
(* The demo robot.  What the demo account's records say of the broker, for *)
(* any number of workers, commands, intents and sends; for one worker      *)
(* whose client sends a request once, that an order goes out once; and,    *)
(* of the operator's registry, one robot at a time and a kill that holds,  *)
(* for any number of start commands, workers and flattening commands.      *)
(***************************************************************************)
EXTENDS DemoExecution, DemoOperator, TLAPS


Opened(i) == deal[i] \in {"open", "closing", "closed"}
Tried(i) == book[i].life \notin {"none", "PREPARED"}

\* Where an operation may go on after it saved a record.
Afterwards == {"idle", "create", "list_open", "await_close", "next_close"}

\* The operation o of a process: it is about an intent; a position it has read or
\* will save was opened; what it will save as closed is closed; it closes what was
\* opened, lists after an accepted close, and creates what is on record.
Holds(o) ==
    /\ o.step \notin {"idle", "down", "own", "next_close"} => o.intent \in Intent
    /\ o.intent \in Intent /\ o.read.position => Opened(o.intent)
    /\ o.step = "save" =>
           /\ o.save.life \in Lifecycle \ {"PREPARED"}
           /\ o.save.position => Opened(o.intent)
           /\ o.save.life = "CLOSED_RECONCILED" => deal[o.intent] = "closed"
           /\ o.then \in Afterwards
    /\ o.step = "close" => Opened(o.intent)
    /\ o.step = "list_close" => confirms[o.intent].close = "ACCEPTED"
    /\ o.step = "create" => Tried(o.intent)

\* A deal was accepted, and an accepted close has taken effect on it.
BrokerFits ==
    \A i \in Intent :
        /\ deal[i] # "none" => confirms[i].order = "ACCEPTED"
        /\ confirms[i].close = "ACCEPTED" => deal[i] \in {"closing", "closed"}

IInv ==
    /\ TypeOK
    /\ \A a \in Actor : Holds(op[a])
    /\ BrokerFits
    /\ OrderIsOnRecord
    /\ OpenWasListed
    /\ ClosedIsGone

-----------------------------------------------------------------------------
(* Types.                                                                  *)

LEMMA IdleType == Idle \in Operation /\ Down \in Operation /\ Idle.step = "idle"
  BY BoundAssumption DEF Operation, Idle, Down

\* A record with another lifecycle, position or closing is a record.
LEMMA RecordTypes ==
    ASSUME NEW r \in Record \union {NoRecord}, NEW life \in Lifecycle
    PROVE  /\ [r EXCEPT !.life = life] \in Record
           /\ [r EXCEPT !.life = life].life = life
           /\ [r EXCEPT !.life = life].position = r.position
           /\ [r EXCEPT !.life = life, !.position = TRUE] \in Record
           /\ [r EXCEPT !.life = life, !.position = TRUE].life = life
           /\ [r EXCEPT !.life = life, !.closing = TRUE] \in Record
           /\ [r EXCEPT !.life = life, !.closing = TRUE].life = life
           /\ [r EXCEPT !.life = life, !.closing = TRUE].position = r.position
<1>1. CASE r \in Record
  <2>1. r.position \in BOOLEAN /\ r.closing \in BOOLEAN
    BY <1>1 DEF Record
  <2>2. /\ [r EXCEPT !.life = life] \in Record
        /\ [r EXCEPT !.life = life, !.position = TRUE] \in Record
        /\ [r EXCEPT !.life = life, !.closing = TRUE] \in Record
    BY <1>1 DEF Record
  <2>3. /\ [r EXCEPT !.life = life].life = life
        /\ [r EXCEPT !.life = life].position = r.position
        /\ [r EXCEPT !.life = life, !.position = TRUE].life = life
        /\ [r EXCEPT !.life = life, !.closing = TRUE].life = life
        /\ [r EXCEPT !.life = life, !.closing = TRUE].position = r.position
    BY <1>1 DEF Record
  <2>4. QED
    BY <2>2, <2>3
<1>2. CASE r = NoRecord
  <2>1. /\ [NoRecord EXCEPT !.life = life] \in Record
        /\ [NoRecord EXCEPT !.life = life, !.position = TRUE] \in Record
        /\ [NoRecord EXCEPT !.life = life, !.closing = TRUE] \in Record
    BY DEF Record, NoRecord
  <2>2. /\ [NoRecord EXCEPT !.life = life].life = life
        /\ [NoRecord EXCEPT !.life = life].position = NoRecord.position
        /\ [NoRecord EXCEPT !.life = life, !.position = TRUE].life = life
        /\ [NoRecord EXCEPT !.life = life, !.closing = TRUE].life = life
        /\ [NoRecord EXCEPT !.life = life, !.closing = TRUE].position = NoRecord.position
    BY DEF NoRecord
  <2>3. QED
    BY <1>2, <2>1, <2>2
<1>3. QED
  BY <1>1, <1>2

LEMMA TypesAtStart == Init => TypeOK
<1> SUFFICES ASSUME Init PROVE TypeOK
  OBVIOUS
<1>1. op \in [Actor -> Operation]
  BY IdleType DEF Init
<1>2. orders \in [Intent -> 0 .. MaxRequests] /\ closes \in [Intent -> 0 .. MaxRequests]
  BY BoundAssumption DEF Init
<1>3. book \in [Intent -> Record \union {NoRecord}]
  BY DEF Init
<1>4. deal \in [Intent -> Deal]
  BY DEF Init, Deal
<1>5. confirms \in [Intent -> [order : Confirmation, close : Confirmation]]
  BY DEF Init, Confirmation
<1>6. QED
  BY <1>1, <1>2, <1>3, <1>4, <1>5 DEF TypeOK

\* An operation at another step, and one about to save.
LEMMA OperationTypes ==
    ASSUME NEW o \in Operation, NEW s \in Step, NEW r \in Record,
           NEW t \in Step \union {"idle"}
    PROVE  /\ [o EXCEPT !.step = s] \in Operation
           /\ [o EXCEPT !.step = "save", !.save = r, !.then = t] \in Operation
<1> DEFINE Steps == Step \union {"idle", "down"}
           Thens == Step \union {"idle"}
           Intents == Intent \union {NoIntent}
           Records == Record \union {NoRecord}
           Sends == 0 .. Attempts - 1
<1>1. Operation = [step : Steps, intent : Intents, read : Records, save : Records,
                   attempt : Sends, todo : SUBSET Intent, then : Thens]
  BY DEF Operation
<1>2. s \in Steps /\ "save" \in Steps /\ r \in Records /\ t \in Thens
  BY DEF Step
<1> HIDE DEF Steps, Thens, Intents, Records, Sends
<1>3. QED
  BY <1>1, <1>2

-----------------------------------------------------------------------------
(* What lasts.                                                             *)

\* A deal that was opened stays so, a closed one is closed, an accepted close
\* accepted, and a record that was tried does not become untried.
Lasting ==
    \A i \in Intent :
        /\ Opened(i) => Opened(i)'
        /\ deal[i] = "closed" => deal'[i] = "closed"
        /\ confirms[i].close = "ACCEPTED" => confirms'[i].close = "ACCEPTED"
        /\ Tried(i) => Tried(i)'

\* What holds of an operation goes on holding.
LEMMA HoldsLasts == ASSUME Lasting, NEW o \in Operation, Holds(o) PROVE Holds(o)'
<1>1. o.intent \in Intent /\ Opened(o.intent) => Opened(o.intent)'
  BY DEF Lasting
<1>2. o.step = "save" /\ o.save.life = "CLOSED_RECONCILED" => deal'[o.intent] = "closed"
  BY DEF Lasting, Holds
<1>3. o.step = "list_close" => confirms'[o.intent].close = "ACCEPTED"
  BY DEF Lasting, Holds
<1>4. o.step = "create" => Tried(o.intent)'
  BY DEF Lasting, Holds
<1>5. QED
  BY <1>1, <1>2, <1>3, <1>4 DEF Holds

\* One process goes on with an operation that holds.
LEMMA UpdateHolds ==
    ASSUME IInv, Lasting, NEW a \in Actor, NEW o \in Operation, Holds(o)',
           op' = [op EXCEPT ![a] = o]
    PROVE  op' \in [Actor -> Operation] /\ \A b \in Actor : Holds(op[b])'
<1>1. op \in [Actor -> Operation] /\ \A b \in Actor : Holds(op[b])
  BY DEF IInv, TypeOK
<1>2. op' \in [Actor -> Operation]
  BY <1>1
<1>3. \A b \in Actor : Holds(op[b])'
  <2>1. \A p \in Operation : Holds(p) => Holds(p)'
    BY HoldsLasts
  <2>2. ASSUME NEW b \in Actor PROVE Holds(op[b])'
    <3>1. CASE b = a
      <4>1. op'[b] = o
        BY <1>1, <3>1
      <4>2. QED
        BY <4>1 DEF Holds
    <3>2. CASE b # a
      <4>1. op'[b] \in Operation /\ Holds(op'[b])
        BY <1>1, <3>2
      <4>2. QED
        BY <2>1, <4>1 DEF Holds
    <3>3. QED
      BY <3>1, <3>2
  <2>3. QED
    BY <2>2
<1>4. QED
  BY <1>2, <1>3


\* Every step but one that writes a record or decides a deal keeps them all.
LEMMA UnchangedLasts ==
    ASSUME UNCHANGED <<book, deal, confirms>> PROVE Lasting
  BY DEF Lasting, Opened, Tried

LEMMA ReplaceLasts ==
    ASSUME IInv, NEW a \in Actor, Replace(a) PROVE Lasting
<1>1. /\ book \in [Intent -> Record \union {NoRecord}]
      /\ op[a].save.life \in Lifecycle \ {"PREPARED"}
  BY DEF IInv, TypeOK, Holds, Replace, At
<1>2. \A i \in Intent : Tried(i) => Tried(i)'
  BY <1>1 DEF Tried, Replace, Lifecycle
<1>3. QED
  BY <1>2 DEF Lasting, Opened, Replace, brokerVars

LEMMA PutLasts == ASSUME IInv, NEW a \in Actor, Put(a) PROVE Lasting
<1>1. book \in [Intent -> Record \union {NoRecord}]
  BY DEF IInv, TypeOK
<1>2. \A i \in Intent : Tried(i) => Tried(i)'
  BY <1>1 DEF Tried, Put, NoRecord
<1>3. QED
  BY <1>2 DEF Lasting, Opened, Put, brokerVars

LEMMA BrokerLasts ==
    ASSUME IInv, NEW i \in Intent, Broker(i) PROVE Lasting
<1>1. deal \in [Intent -> Deal] /\ confirms \in [Intent -> [order : Confirmation, close : Confirmation]]
  BY DEF IInv, TypeOK
<1>2. deal[i] # "none" => confirms[i].order = "ACCEPTED"
  BY DEF IInv, BrokerFits
<1>3. CASE DecideOrder(i)
  BY <1>1, <1>2, <1>3 DEF DecideOrder, Lasting, Opened, Tried
<1>4. CASE DecideClose(i)
  BY <1>1, <1>4 DEF DecideClose, Lasting, Opened, Tried
<1>5. CASE ListDeal(i)
  BY <1>1, <1>5 DEF ListDeal, Lasting, Opened, Tried
<1>6. CASE StopOut(i)
  BY <1>1, <1>6 DEF StopOut, Lasting, Opened, Tried
<1>7. QED
  BY <1>3, <1>4, <1>5, <1>6 DEF Broker

-----------------------------------------------------------------------------
(* The broker and the book.                                                *)

\* What relates the broker and the book, and its types.
Facts ==
    /\ book \in [Intent -> Record \union {NoRecord}]
    /\ orders \in [Intent -> 0 .. MaxRequests]
    /\ closes \in [Intent -> 0 .. MaxRequests]
    /\ deal \in [Intent -> Deal]
    /\ confirms \in [Intent -> [order : Confirmation, close : Confirmation]]
    /\ BrokerFits
    /\ OrderIsOnRecord
    /\ OpenWasListed
    /\ ClosedIsGone

LEMMA FactsNow == IInv => Facts
  BY DEF IInv, TypeOK, Facts

LEMMA FactsUnchanged ==
    ASSUME Facts, UNCHANGED <<book, orders, closes, deal, confirms>> PROVE Facts'
  BY DEF Facts, BrokerFits, OrderIsOnRecord, OpenWasListed, ClosedIsGone

LEMMA ReplaceFacts == ASSUME IInv, NEW a \in Actor, Replace(a) PROVE Facts'
<1>1. /\ Item(a) \in Intent
      /\ op[a].save \in Record \union {NoRecord}
      /\ op[a].save.life \in Lifecycle \ {"PREPARED"}
      /\ op[a].save.position => Opened(Item(a))
      /\ op[a].save.life = "CLOSED_RECONCILED" => deal[Item(a)] = "closed"
  BY DEF IInv, TypeOK, Operation, Holds, Replace, At, Item
<1>2. /\ book' = [book EXCEPT ![Item(a)] = op[a].save]
      /\ UNCHANGED <<orders, closes, deal, confirms>>
  BY DEF Replace, brokerVars
<1>3. /\ book' \in [Intent -> Record \union {NoRecord}]
      /\ orders' \in [Intent -> 0 .. MaxRequests]
      /\ closes' \in [Intent -> 0 .. MaxRequests]
      /\ deal' \in [Intent -> Deal]
      /\ confirms' \in [Intent -> [order : Confirmation, close : Confirmation]]
  BY <1>1, <1>2 DEF IInv, TypeOK
<1>4. BrokerFits'
  BY <1>2 DEF IInv, BrokerFits
<1>5. OrderIsOnRecord'
  BY <1>1, <1>2 DEF IInv, TypeOK, OrderIsOnRecord, Lifecycle
<1>6. OpenWasListed'
  <2>1. ASSUME NEW i \in Intent, book'[i].position \/ closes'[i] > 0
        PROVE  Opened(i)
    <3>1. CASE i = Item(a)
      <4>1. book'[i] = op[a].save
        BY <1>2, <3>1 DEF IInv, TypeOK
      <4>2. QED
        BY <1>1, <1>2, <2>1, <3>1, <4>1 DEF IInv, OpenWasListed, Opened
    <3>2. CASE i # Item(a)
      <4>1. book'[i] = book[i]
        BY <1>2, <3>2 DEF IInv, TypeOK
      <4>2. QED
        BY <1>2, <2>1, <4>1 DEF IInv, OpenWasListed, Opened
    <3>3. QED
      BY <3>1, <3>2
  <2>2. QED
    BY <1>2, <2>1 DEF OpenWasListed, Opened
<1>7. ClosedIsGone'
  BY <1>1, <1>2 DEF IInv, TypeOK, ClosedIsGone
<1>8. QED
  BY <1>3, <1>4, <1>5, <1>6, <1>7 DEF Facts

LEMMA PutFacts ==
    ASSUME IInv, NEW a \in Actor, Put(a), Item(a) \in Intent PROVE Facts'
<1>1. CASE UNCHANGED book
  BY <1>1, FactsNow, FactsUnchanged DEF Put, brokerVars
<1>2. CASE /\ book[Item(a)] = NoRecord
           /\ book' = [book EXCEPT ![Item(a)] = Prepared]
  <2>1. UNCHANGED <<orders, closes, deal, confirms>>
    BY DEF Put, brokerVars
  <2>2. Prepared \in Record
    BY DEF Prepared, Record, Lifecycle
  <2>3. /\ book' \in [Intent -> Record \union {NoRecord}]
        /\ orders' \in [Intent -> 0 .. MaxRequests]
        /\ closes' \in [Intent -> 0 .. MaxRequests]
        /\ deal' \in [Intent -> Deal]
        /\ confirms' \in [Intent -> [order : Confirmation, close : Confirmation]]
    BY <1>2, <2>1, <2>2 DEF IInv, TypeOK
  <2>4. BrokerFits'
    BY <2>1 DEF IInv, BrokerFits
  <2>5. OrderIsOnRecord'
    BY <1>2, <2>1 DEF IInv, TypeOK, OrderIsOnRecord, NoRecord
  <2>6. \A i \in Intent : book'[i].position => book[i].position
    BY <1>2 DEF IInv, TypeOK, Prepared
  <2>7. OpenWasListed'
    BY <2>1, <2>6 DEF IInv, OpenWasListed
  <2>8. ClosedIsGone'
    BY <1>2, <2>1 DEF IInv, TypeOK, ClosedIsGone, Prepared
  <2>9. QED
    BY <2>3, <2>4, <2>5, <2>7, <2>8 DEF Facts
<1>3. QED
  BY <1>1, <1>2 DEF Put

\* A request is counted only for an order that is on record, and a close of what
\* was opened.
LEMMA CreateFacts ==
    ASSUME IInv, NEW a \in Actor, Create(a) PROVE Facts'
<1>1. Item(a) \in Intent /\ Tried(Item(a))
  BY DEF IInv, Holds, Create, At, Item
<1>2. /\ Delivered(orders, Item(a)) \/ UNCHANGED orders
      /\ UNCHANGED <<book, closes, deal, confirms>>
  BY DEF Create
<1>3. \A i \in Intent : orders'[i] = orders[i] \/ i = Item(a)
  BY <1>1, <1>2 DEF IInv, TypeOK, Delivered
<1>4. orders' \in [Intent -> 0 .. MaxRequests]
  BY <1>1, <1>2, BoundAssumption DEF IInv, TypeOK, Delivered
<1>5. /\ book' \in [Intent -> Record \union {NoRecord}]
      /\ closes' \in [Intent -> 0 .. MaxRequests]
      /\ deal' \in [Intent -> Deal]
      /\ confirms' \in [Intent -> [order : Confirmation, close : Confirmation]]
      /\ BrokerFits' /\ OpenWasListed' /\ ClosedIsGone'
  BY <1>2 DEF IInv, TypeOK, BrokerFits, OpenWasListed, ClosedIsGone
<1>6. OrderIsOnRecord'
  BY <1>1, <1>2, <1>3 DEF IInv, OrderIsOnRecord, Tried
<1>7. QED
  BY <1>4, <1>5, <1>6 DEF Facts

LEMMA CloseFacts ==
    ASSUME IInv, NEW a \in Actor, Close(a) PROVE Facts'
<1>1. Item(a) \in Intent /\ Opened(Item(a))
  BY DEF IInv, Holds, Close, At, Item
<1>2. /\ Delivered(closes, Item(a)) \/ UNCHANGED closes
      /\ UNCHANGED <<book, orders, deal, confirms>>
  BY DEF Close
<1>3. \A i \in Intent : closes'[i] = closes[i] \/ i = Item(a)
  BY <1>1, <1>2 DEF IInv, TypeOK, Delivered
<1>4. closes' \in [Intent -> 0 .. MaxRequests]
  BY <1>1, <1>2, BoundAssumption DEF IInv, TypeOK, Delivered
<1>5. /\ book' \in [Intent -> Record \union {NoRecord}]
      /\ orders' \in [Intent -> 0 .. MaxRequests]
      /\ deal' \in [Intent -> Deal]
      /\ confirms' \in [Intent -> [order : Confirmation, close : Confirmation]]
      /\ BrokerFits' /\ OrderIsOnRecord' /\ ClosedIsGone'
  BY <1>2 DEF IInv, TypeOK, BrokerFits, OrderIsOnRecord, ClosedIsGone
<1>6. OpenWasListed'
  BY <1>1, <1>2, <1>3 DEF IInv, OpenWasListed, Opened
<1>7. QED
  BY <1>4, <1>5, <1>6 DEF Facts


LEMMA BrokerFacts ==
    ASSUME IInv, NEW i \in Intent, Broker(i) PROVE Facts'
<1>1. UNCHANGED <<book, orders, closes>>
  BY DEF Broker, DecideOrder, DecideClose, ListDeal, StopOut
<1>2. Lasting
  BY BrokerLasts
<1>3. /\ deal \in [Intent -> Deal]
      /\ confirms \in [Intent -> [order : Confirmation, close : Confirmation]]
      /\ BrokerFits
  BY DEF IInv, TypeOK
<1>4. /\ deal' \in [Intent -> Deal]
      /\ confirms' \in [Intent -> [order : Confirmation, close : Confirmation]]
      /\ BrokerFits'
  <2>1. CASE DecideOrder(i)
    <3>1. "accepted" \in Deal /\ "ACCEPTED" \in Confirmation /\ "REJECTED" \in Confirmation
      BY DEF Deal, Confirmation
    <3>2. /\ deal' \in [Intent -> Deal]
          /\ confirms' \in [Intent -> [order : Confirmation, close : Confirmation]]
      BY <1>3, <2>1, <3>1 DEF DecideOrder
    <3>3. deal[i] = "none" /\ confirms[i].close # "ACCEPTED"
      BY <1>3, <2>1 DEF DecideOrder, BrokerFits
    <3>4. BrokerFits'
      BY <1>3, <2>1, <3>3 DEF DecideOrder, BrokerFits
    <3>5. QED
      BY <3>2, <3>4
  <2>2. CASE DecideClose(i)
    <3>1. "closing" \in Deal /\ "ACCEPTED" \in Confirmation /\ "REJECTED" \in Confirmation
      BY DEF Deal, Confirmation
    <3>2. /\ deal' \in [Intent -> Deal]
          /\ confirms' \in [Intent -> [order : Confirmation, close : Confirmation]]
      BY <1>3, <2>2, <3>1 DEF DecideClose
    <3>3. BrokerFits'
      BY <1>3, <2>2 DEF DecideClose, BrokerFits
    <3>4. QED
      BY <3>2, <3>3
  <2>3. CASE ListDeal(i)
    BY <1>3, <2>3 DEF ListDeal, BrokerFits, Deal
  <2>4. CASE StopOut(i)
    BY <1>3, <2>4 DEF StopOut, BrokerFits, Deal
  <2>5. QED
    BY <2>1, <2>2, <2>3, <2>4 DEF Broker
<1>5. OrderIsOnRecord'
  BY <1>1 DEF IInv, OrderIsOnRecord
<1>6. OpenWasListed'
  BY <1>1, <1>2 DEF IInv, OpenWasListed, Lasting, Opened
<1>7. ClosedIsGone'
  BY <1>1, <1>2 DEF IInv, ClosedIsGone, Lasting
<1>8. QED
  BY <1>1, <1>4, <1>5, <1>6, <1>7 DEF IInv, TypeOK, Facts

-----------------------------------------------------------------------------
(* The processes.                                                          *)

\* The processes go on with operations that hold.
Proceed == op' \in [Actor -> Operation] /\ \A a \in Actor : Holds(op[a])'

LEMMA StayHolds ==
    ASSUME IInv, Lasting, UNCHANGED op PROVE Proceed
<1>1. op \in [Actor -> Operation] /\ \A a \in Actor : Holds(op[a])
  BY DEF IInv, TypeOK
<1>2. \A p \in Operation : Holds(p) => Holds(p)'
  BY HoldsLasts
<1>3. ASSUME NEW a \in Actor PROVE Holds(op[a])'
  BY <1>1, <1>2 DEF Holds
<1>4. QED
  BY <1>1, <1>3 DEF Proceed

\* A process that is done, or down.
LEMMA FinishHolds ==
    ASSUME IInv, Lasting, NEW a \in Actor,
           Finish(a) \/ op' = [op EXCEPT ![a] = Down]
    PROVE  Proceed
<1>1. Holds(Idle)' /\ Holds(Down)'
  BY DEF Holds, Idle, Down, NoRecord
<1>2. QED
  BY <1>1, IdleType, UpdateHolds DEF Finish, Proceed

\* A process that saves a record which is true.
LEMMA SaveHolds ==
    ASSUME IInv, Lasting, NEW a \in Actor, Item(a) \in Intent,
           NEW r \in Record, NEW t \in Afterwards, Save(a, r, t),
           r.life # "PREPARED",
           r.position => Opened(Item(a)),
           r.life = "CLOSED_RECONCILED" => deal[Item(a)] = "closed"
    PROVE  Proceed
<1>1. op \in [Actor -> Operation] /\ op[a] \in Operation /\ Holds(op[a])
  BY DEF IInv, TypeOK
<1>2. t \in Step \union {"idle"} /\ r.life \in Lifecycle
  BY DEF Afterwards, Step, Record
<1>3. PICK o \in Operation : o = [op[a] EXCEPT !.step = "save", !.save = r, !.then = t]
  <2>1. "save" \in Step
    BY DEF Step
  <2>2. [op[a] EXCEPT !.step = "save", !.save = r, !.then = t] \in Operation
    BY <1>1, <1>2, <2>1, OperationTypes
  <2>3. QED
    BY <2>2, Zenon
<1>4. op' = [op EXCEPT ![a] = o]
  BY <1>1, <1>3 DEF Save
<1>5. /\ o.step = "save" /\ o.intent = Item(a) /\ o.read = op[a].read
      /\ o.save = r /\ o.then = t
  BY <1>1, <1>3 DEF Operation, Item
<1>6. Holds(o)
  BY <1>1, <1>2, <1>5 DEF Holds, Item
<1>7. Holds(o)'
  BY <1>6, HoldsLasts
<1>8. QED
  BY <1>4, <1>7, UpdateHolds DEF Proceed


\* A process that goes on to another step, about the same intent.
LEMMA GoToHolds ==
    ASSUME IInv, Lasting, NEW a \in Actor, NEW s \in Step \ {"save"}, GoTo(a, s),
           s # "next_close" => Item(a) \in Intent,
           s = "close" => Opened(Item(a)),
           s = "list_close" => confirms[Item(a)].close = "ACCEPTED",
           s = "create" => Tried(Item(a))
    PROVE  Proceed
<1>1. op \in [Actor -> Operation] /\ op[a] \in Operation /\ Holds(op[a])
  BY DEF IInv, TypeOK
<1>2. [op[a] EXCEPT !.step = s] \in Operation
  <2>1. PICK r \in Record : r = Prepared
    BY DEF Prepared, Record, Lifecycle
  <2>2. "idle" \in Step \union {"idle"}
    OBVIOUS
  <2>3. QED
    BY <1>1, <2>1, <2>2, OperationTypes
<1>3. PICK o \in Operation : o = [op[a] EXCEPT !.step = s]
  BY <1>2, Zenon
<1>4. op' = [op EXCEPT ![a] = o]
  BY <1>1, <1>3 DEF GoTo
<1>5. o.step = s /\ o.intent = Item(a) /\ o.read = op[a].read
  BY <1>1, <1>3 DEF Operation, Item
<1>6. Holds(o)
  BY <1>1, <1>5 DEF Holds, Item
<1>7. Holds(o)'
  BY <1>6, HoldsLasts
<1>8. QED
  BY <1>4, <1>7, UpdateHolds DEF Proceed

\* An operation about an intent that has just read a record.
LEMMA ReadTypes ==
    ASSUME NEW o \in Operation, NEW s \in Step, NEW i \in Intent,
           NEW r \in Record \union {NoRecord}, NEW T \in SUBSET Intent
    PROVE  /\ [o EXCEPT !.step = s, !.intent = i, !.read = r] \in Operation
           /\ [o EXCEPT !.step = s, !.intent = i, !.read = r, !.todo = T] \in Operation
           /\ [o EXCEPT !.step = s, !.todo = T] \in Operation
           /\ [o EXCEPT !.step = s, !.read = r] \in Operation
<1> DEFINE Steps == Step \union {"idle", "down"}
           Thens == Step \union {"idle"}
           Intents == Intent \union {NoIntent}
           Records == Record \union {NoRecord}
           Sends == 0 .. Attempts - 1
<1>1. Operation = [step : Steps, intent : Intents, read : Records, save : Records,
                   attempt : Sends, todo : SUBSET Intent, then : Thens]
  BY DEF Operation
<1>2. s \in Steps /\ i \in Intents /\ r \in Records
  OBVIOUS
<1> HIDE DEF Steps, Thens, Intents, Records, Sends
<1>3. QED
  BY <1>1, <1>2

LEMMA BeginHolds ==
    ASSUME IInv, Lasting, NEW a \in Actor, NEW i \in Intent,
           NEW s \in {"cycle", "mark", "confirm_open", "confirm_close"}, Begin(a, s, i)
    PROVE  Proceed
<1>1. book[i] \in Record \union {NoRecord} /\ (book[i].position => Opened(i))
  BY DEF IInv, TypeOK, OpenWasListed, Opened
<1>2. s \in Step
  BY DEF Step
<1>3. [Idle EXCEPT !.step = s, !.intent = i, !.read = book[i]] \in Operation
  BY <1>1, <1>2, IdleType, ReadTypes
<1>4. PICK o \in Operation : o = [Idle EXCEPT !.step = s, !.intent = i, !.read = book[i]]
  BY <1>3, Zenon
<1>5. op' = [op EXCEPT ![a] = o]
  BY <1>4 DEF Begin
<1>6. o.step = s /\ o.intent = i /\ o.read = book[i]
  BY <1>4 DEF Idle
<1>7. Holds(o)
  BY <1>1, <1>6 DEF Holds
<1>8. Holds(o)'
  BY <1>7, HoldsLasts
<1>9. QED
  BY <1>5, <1>8, UpdateHolds DEF Proceed

LEMMA ReplaceHolds ==
    ASSUME IInv, NEW a \in Actor, Replace(a) PROVE Proceed
<1>1. Lasting
  BY ReplaceLasts
<1>2. CASE op[a].then = "idle"
  BY <1>1, <1>2, FinishHolds DEF Replace
<1>3. CASE op[a].then # "idle"
  <2>1. op \in [Actor -> Operation] /\ op[a] \in Operation /\ Holds(op[a])
    BY DEF IInv, TypeOK
  <2>2. /\ Item(a) \in Intent /\ op[a].then \in Afterwards
        /\ op[a].save \in Record \union {NoRecord}
        /\ op[a].save.life \in Lifecycle \ {"PREPARED"}
        /\ op[a].save.position => Opened(Item(a))
    BY <2>1 DEF Operation, Holds, Replace, At, Item
  <2> DEFINE q == [op[a] EXCEPT !.step = op[a].then, !.read = op[a].save,
                                !.save = NoRecord, !.then = "idle", !.attempt = 0]
  <2>3. q \in Operation
    <3>1. op[a].then \in Step /\ 0 \in 0 .. Attempts - 1
      BY <1>3, <2>2, BoundAssumption DEF Afterwards, Step
    <3>2. QED
      BY <2>1, <2>2, <3>1 DEF Operation
  <2>4. PICK o \in Operation : o = q
    BY <2>3, Zenon
  <2>5. op' = [op EXCEPT ![a] = o]
    BY <1>3, <2>4 DEF Replace
  <2>6. o.step = op[a].then /\ o.intent = Item(a) /\ o.read = op[a].save
    BY <2>1, <2>4 DEF Operation, Item
  <2>7. book'[o.intent] = op[a].save
    BY <2>2, <2>6 DEF Replace, IInv, TypeOK
  <2>8. Opened(o.intent) => Opened(o.intent)'
    BY <1>1, <2>2, <2>6 DEF Lasting
  <2>9. o.step \in {"create", "list_open", "await_close", "next_close"}
    BY <1>3, <2>2, <2>6 DEF Afterwards
  <2>10. Tried(o.intent)'
    BY <2>2, <2>7 DEF Tried, Lifecycle
  <2>11. Holds(o)'
    BY <2>2, <2>6, <2>8, <2>9, <2>10 DEF Holds
  <2>12. QED
    BY <1>1, <2>5, <2>11, UpdateHolds DEF Proceed
<1>4. QED
  BY <1>2, <1>3


\* A process that asks the store or the broker, and writes nothing yet.
Submits(a) == (\E i \in Intent : BeginSubmit(a, i)) \/ CheckCycle(a) \/ MarkSubmitting(a)
Reads(a) ==
    \/ ReconcileOpen(a) \/ ReconcileClose(a)
    \/ BeginFlatten(a) \/ CheckOwnership(a)
    \/ (\E i \in Intent : NextClose(a, i)) \/ AwaitClose(a)
Leaves(a) == Abandon(a) \/ Restart(a)

LEMMA ReadsChangeNothing ==
    ASSUME NEW a \in Actor, Submits(a) \/ Reads(a) \/ Leaves(a)
    PROVE  UNCHANGED <<book, orders, closes, deal, confirms>>
<1>1. CASE Submits(a)
  BY <1>1 DEF Submits, BeginSubmit, CheckCycle, MarkSubmitting, brokerVars
<1>2. CASE ReconcileOpen(a)
  BY <1>2 DEF ReconcileOpen, BeginReconcileOpen, ConfirmOpen, ListOpen, brokerVars
<1>3. CASE ReconcileClose(a)
  BY <1>3 DEF ReconcileClose, BeginReconcileClose, ConfirmClose, ListClose, brokerVars
<1>4. CASE BeginFlatten(a) \/ CheckOwnership(a) \/ AwaitClose(a)
  BY <1>4 DEF BeginFlatten, CheckOwnership, AwaitClose, brokerVars
<1>5. CASE \E i \in Intent : NextClose(a, i)
  BY <1>5 DEF NextClose, brokerVars
<1>6. CASE Leaves(a)
  BY <1>6 DEF Leaves, Abandon, Restart, brokerVars
<1>7. QED
  BY <1>1, <1>2, <1>3, <1>4, <1>5, <1>6 DEF Reads

\* What the operation of a process has, when it is at a step that is about an
\* intent.
LEMMA OperationNow ==
    ASSUME IInv, NEW a \in Actor,
           op[a].step \notin {"idle", "down", "own", "next_close"}
    PROVE  /\ op[a].read \in Record \union {NoRecord}
           /\ Item(a) \in Intent
           /\ op[a].read.position => Opened(Item(a))
  BY DEF IInv, TypeOK, Operation, Holds, Item

\* A process that saves what it has read, under another lifecycle.
LEMMA SaveLifeHolds ==
    ASSUME IInv, Lasting, NEW a \in Actor,
           op[a].step \notin {"idle", "down", "own", "next_close"},
           NEW life \in Lifecycle \ {"PREPARED"}, NEW t \in Afterwards,
           SaveLife(a, life, t),
           life = "CLOSED_RECONCILED" => deal[Item(a)] = "closed"
    PROVE  Proceed
<1>1. /\ op[a].read \in Record \union {NoRecord}
      /\ Item(a) \in Intent
      /\ op[a].read.position => Opened(Item(a))
  BY OperationNow
<1>2. PICK r \in Record : r = [op[a].read EXCEPT !.life = life]
  <2>1. [op[a].read EXCEPT !.life = life] \in Record
    BY <1>1, RecordTypes
  <2>2. QED
    BY <2>1, Zenon
<1>3. r.life = life /\ r.position = op[a].read.position
  BY <1>1, <1>2, RecordTypes
<1>4. Save(a, r, t)
  BY <1>2 DEF SaveLife
<1>5. r.position => Opened(Item(a))
  BY <1>1, <1>3
<1>6. QED
  BY <1>1, <1>3, <1>4, <1>5, SaveHolds

LEMMA SubmitsHold ==
    ASSUME IInv, Lasting, NEW a \in Actor, Submits(a) PROVE Proceed
<1>1. CASE \E i \in Intent : BeginSubmit(a, i)
  BY <1>1, BeginHolds DEF BeginSubmit
<1>2. CASE CheckCycle(a)
  <2>1. Item(a) \in Intent
    BY <1>2, OperationNow DEF CheckCycle, At
  <2>2. "put" \in Step \ {"save"}
    BY DEF Step
  <2>3. QED
    BY <1>2, <2>1, <2>2, FinishHolds, GoToHolds DEF CheckCycle
<1>3. CASE MarkSubmitting(a)
  <2>1. "SUBMITTING" \in Lifecycle \ {"PREPARED"} /\ "create" \in Afterwards
    BY DEF Lifecycle, Afterwards
  <2>2. QED
    BY <1>3, <2>1, SaveLifeHolds DEF MarkSubmitting, At
<1>4. QED
  BY <1>1, <1>2, <1>3 DEF Submits

LEMMA ReconcileOpenHolds ==
    ASSUME IInv, Lasting, NEW a \in Actor, ReconcileOpen(a) PROVE Proceed
<1>1. /\ {"AMBIGUOUS", "CONFIRMED_REJECTED", "CONFIRMED_ACCEPTED", "FAILED_SAFE"}
             \subseteq Lifecycle \ {"PREPARED"}
      /\ "idle" \in Afterwards /\ "list_open" \in Afterwards
  BY DEF Lifecycle, Afterwards
<1>2. CASE \E i \in Intent : BeginReconcileOpen(a, i)
  BY <1>2, BeginHolds DEF BeginReconcileOpen
<1>3. CASE ConfirmOpen(a)
  <2>1. op[a].step \notin {"idle", "down", "own", "next_close"}
    BY <1>3 DEF ConfirmOpen, At
  <2>2. PICK life \in Lifecycle \ {"PREPARED"}, t \in Afterwards :
            SaveLife(a, life, t) /\ life # "CLOSED_RECONCILED"
    BY <1>1, <1>3 DEF ConfirmOpen
  <2>3. QED
    BY <2>1, <2>2, SaveLifeHolds
<1>4. CASE ListOpen(a)
  <2>1. op[a].step \notin {"idle", "down", "own", "next_close"}
    BY <1>4 DEF ListOpen, At
  <2>2. CASE SaveLife(a, "AMBIGUOUS", "idle") \/ SaveLife(a, "FAILED_SAFE", "idle")
    BY <1>1, <2>1, <2>2, SaveLifeHolds
  <2>3. CASE /\ Listed(Item(a))
             /\ Save(a, [op[a].read EXCEPT !.life = "OPEN_RECONCILED",
                                           !.position = TRUE], "idle")
    <3>1. Item(a) \in Intent /\ op[a].read \in Record \union {NoRecord}
      BY <2>1, OperationNow
    <3>2. "OPEN_RECONCILED" \in Lifecycle
      BY DEF Lifecycle
    <3>3. [op[a].read EXCEPT !.life = "OPEN_RECONCILED", !.position = TRUE] \in Record
      BY <3>1, <3>2, RecordTypes
    <3>4. PICK r \in Record :
              r = [op[a].read EXCEPT !.life = "OPEN_RECONCILED", !.position = TRUE]
      BY <3>3, Zenon
    <3>5. r.life = "OPEN_RECONCILED"
      BY <3>1, <3>2, <3>4, RecordTypes
    <3>6. Opened(Item(a))
      BY <2>3 DEF Listed, Opened
    <3>7. QED
      BY <1>1, <2>3, <3>1, <3>4, <3>5, <3>6, SaveHolds
  <2>4. QED
    BY <1>4, <2>2, <2>3 DEF ListOpen
<1>5. QED
  BY <1>2, <1>3, <1>4 DEF ReconcileOpen

LEMMA ReconcileCloseHolds ==
    ASSUME IInv, Lasting, NEW a \in Actor, ReconcileClose(a) PROVE Proceed
<1>1. /\ {"AMBIGUOUS", "FAILED_SAFE", "CLOSED_RECONCILED"} \subseteq Lifecycle \ {"PREPARED"}
      /\ "idle" \in Afterwards /\ "next_close" \in Afterwards
  BY DEF Lifecycle, Afterwards
<1>2. CASE \E i \in Intent : BeginReconcileClose(a, i)
  BY <1>2, BeginHolds DEF BeginReconcileClose
<1>3. CASE ConfirmClose(a)
  <2>1. op[a].step \notin {"idle", "down", "own", "next_close"}
    BY <1>3 DEF ConfirmClose, At
  <2>2. CASE SaveLife(a, "AMBIGUOUS", "idle") \/ SaveLife(a, "FAILED_SAFE", "idle")
    BY <1>1, <2>1, <2>2, SaveLifeHolds
  <2>3. CASE confirms[Item(a)].close = "ACCEPTED" /\ GoTo(a, "list_close")
    <3>1. "list_close" \in Step \ {"save"}
      BY DEF Step
    <3>2. Item(a) \in Intent
      BY <2>1, OperationNow
    <3>3. QED
      BY <2>3, <3>1, <3>2, GoToHolds
  <2>4. QED
    BY <1>3, <2>2, <2>3 DEF ConfirmClose
<1>4. CASE ListClose(a)
  <2>1. op[a].step \notin {"idle", "down", "own", "next_close"}
    BY <1>4 DEF ListClose, At
  <2>2. CASE SaveLife(a, "AMBIGUOUS", "idle") \/ SaveLife(a, "FAILED_SAFE", "idle")
    BY <1>1, <2>1, <2>2, SaveLifeHolds
  <2>3. CASE /\ ~Listed(Item(a))
             /\ SaveLife(a, "CLOSED_RECONCILED", NextOrIdle(a))
    <3>1. Item(a) \in Intent /\ confirms[Item(a)].close = "ACCEPTED"
      BY <1>4, <2>1, OperationNow DEF ListClose, At, IInv, Holds, Item
    <3>2. deal[Item(a)] = "closed"
      BY <2>3, <3>1 DEF IInv, BrokerFits, Listed
    <3>3. NextOrIdle(a) \in Afterwards
      BY <1>1 DEF NextOrIdle
    <3>4. QED
      BY <1>1, <2>1, <2>3, <3>2, <3>3, SaveLifeHolds
  <2>4. QED
    BY <1>4, <2>2, <2>3 DEF ListClose
<1>5. QED
  BY <1>2, <1>3, <1>4 DEF ReconcileClose


LEMMA BeginFlattenHolds ==
    ASSUME IInv, Lasting, NEW a \in Actor, BeginFlatten(a) PROVE Proceed
<1>1. [Idle EXCEPT !.step = "own", !.todo = {i \in Intent : Listed(i)}] \in Operation
  <2>1. PICK i \in Intent : Listed(i)
    BY DEF BeginFlatten
  <2>2. "own" \in Step
    BY DEF Step
  <2>3. PICK T \in SUBSET Intent : T = {j \in Intent : Listed(j)}
    OBVIOUS
  <2>4. NoRecord \in Record \union {NoRecord}
    OBVIOUS
  <2>5. [Idle EXCEPT !.step = "own", !.todo = T] \in Operation
    BY <2>1, <2>2, <2>4, IdleType, ReadTypes
  <2>6. QED
    BY <2>3, <2>5
<1>2. PICK o \in Operation :
          o = [Idle EXCEPT !.step = "own", !.todo = {i \in Intent : Listed(i)}]
  BY <1>1, Zenon
<1>3. op' = [op EXCEPT ![a] = o]
  BY <1>2 DEF BeginFlatten
<1>4. o.step = "own" /\ o.intent = NoIntent /\ o.read = NoRecord
  BY <1>2 DEF Idle
<1>5. Holds(o)
  BY <1>4 DEF Holds, NoRecord
<1>6. QED
  BY <1>3, <1>5, HoldsLasts, UpdateHolds DEF Proceed

LEMMA NextCloseHolds ==
    ASSUME IInv, Lasting, NEW a \in Actor, NEW i \in Intent, NextClose(a, i)
    PROVE  Proceed
<1> DEFINE q(s) == [Idle EXCEPT !.step = s, !.intent = i, !.read = book[i],
                                !.todo = op[a].todo \ {i}]
<1>1. /\ book[i] \in Record \union {NoRecord} /\ (book[i].position => Opened(i))
      /\ op[a].todo \ {i} \in SUBSET Intent
  BY DEF IInv, TypeOK, OpenWasListed, Opened, Operation
<1>2. \/ Closable(i) /\ op' = [op EXCEPT ![a] = q("close")]
      \/ op' = [op EXCEPT ![a] = q("await_close")]
      \/ Finish(a)
  <2>1. Closable(i) => op' = [op EXCEPT ![a] = q("close")]
    BY DEF NextClose, Closable
  <2>2. ~Closable(i) /\ book[i].life = "CLOSE_REQUESTED"
            => op' = [op EXCEPT ![a] = q("await_close")]
    BY DEF NextClose
  <2>3. ~Closable(i) /\ book[i].life # "CLOSE_REQUESTED" => Finish(a)
    BY DEF NextClose
  <2>4. QED
    BY <2>1, <2>2, <2>3
<1>3. ASSUME NEW s \in {"close", "await_close"}, s = "close" => Closable(i),
             op' = [op EXCEPT ![a] = q(s)]
      PROVE  Proceed
  <2>1. s \in Step
    BY DEF Step
  <2>2. q(s) \in Operation
    <3>1. PICK r \in Record \union {NoRecord} : r = book[i]
      BY <1>1
    <3>2. PICK T \in SUBSET Intent : T = op[a].todo \ {i}
      BY <1>1, Zenon
    <3>3. [Idle EXCEPT !.step = s, !.intent = i, !.read = r, !.todo = T] \in Operation
      BY <2>1, IdleType, ReadTypes
    <3>4. QED
      BY <3>1, <3>2, <3>3
  <2>3. q(s).step = s /\ q(s).intent = i /\ q(s).read = book[i]
    BY DEF Idle
  <2> HIDE DEF q
  <2>4. PICK o \in Operation : o = q(s)
    BY <2>2
  <2>5. Holds(o)
    BY <1>1, <1>3, <2>3, <2>4 DEF Holds, Closable
  <2>6. op' = [op EXCEPT ![a] = o]
    BY <1>3, <2>4
  <2>7. QED
    BY <2>5, <2>6, HoldsLasts, UpdateHolds DEF Proceed
<1> HIDE DEF q
<1>4. QED
  BY <1>2, <1>3, FinishHolds

LEMMA AwaitCloseHolds ==
    ASSUME IInv, Lasting, NEW a \in Actor, AwaitClose(a) PROVE Proceed
<1>1. /\ Item(a) \in Intent
      /\ op \in [Actor -> Operation] /\ op[a] \in Operation
  BY OperationNow DEF AwaitClose, At, IInv, TypeOK
<1>2. CASE GoTo(a, "next_close")
  <2>1. "next_close" \in Step \ {"save"}
    BY DEF Step
  <2>2. QED
    BY <1>1, <1>2, <2>1, GoToHolds
<1>3. CASE Finish(a)
  BY <1>3, FinishHolds
<1>4. CASE op' = [op EXCEPT ![a].step = "confirm_close", ![a].read = book[Item(a)]]
  <2>1. book[Item(a)] \in Record \union {NoRecord} /\ (book[Item(a)].position => Opened(Item(a)))
    BY <1>1 DEF IInv, TypeOK, OpenWasListed, Opened
  <2>2. "confirm_close" \in Step /\ {} \in SUBSET Intent
    BY DEF Step
  <2>3. [op[a] EXCEPT !.step = "confirm_close", !.read = book[Item(a)]] \in Operation
    BY <1>1, <2>1, <2>2, ReadTypes
  <2>4. PICK o \in Operation : o = [op[a] EXCEPT !.step = "confirm_close", !.read = book[Item(a)]]
    BY <2>3, Zenon
  <2>5. o.step = "confirm_close" /\ o.intent = Item(a) /\ o.read = book[Item(a)]
    BY <1>1, <2>4 DEF Operation, Item
  <2>6. Holds(o)
    BY <1>1, <2>1, <2>5 DEF Holds
  <2>7. op' = [op EXCEPT ![a] = o]
    BY <1>1, <1>4, <2>4
  <2>8. QED
    BY <2>6, <2>7, HoldsLasts, UpdateHolds DEF Proceed
<1>5. QED
  BY <1>2, <1>3, <1>4 DEF AwaitClose

LEMMA ReadsHold ==
    ASSUME IInv, Lasting, NEW a \in Actor, Reads(a) \/ Leaves(a) PROVE Proceed
<1>1. CASE CheckOwnership(a)
  <2>1. "next_close" \in Step \ {"save"}
    BY DEF Step
  <2>2. QED
    BY <1>1, <2>1, FinishHolds, GoToHolds DEF CheckOwnership
<1>2. CASE Leaves(a)
  BY <1>2, FinishHolds DEF Leaves, Abandon, Restart
<1>3. QED
  BY <1>1, <1>2, ReconcileOpenHolds, ReconcileCloseHolds, BeginFlattenHolds,
     NextCloseHolds, AwaitCloseHolds DEF Reads

LEMMA PutHolds ==
    ASSUME IInv, NEW a \in Actor, Put(a) PROVE Proceed /\ Item(a) \in Intent
<1>1. /\ Item(a) \in Intent
      /\ op \in [Actor -> Operation] /\ op[a] \in Operation
  BY OperationNow DEF Put, At, IInv, TypeOK
<1>2. Lasting
  BY PutLasts
<1>3. CASE Finish(a)
  BY <1>1, <1>2, <1>3, FinishHolds
<1>4. ASSUME NEW r \in Record \union {NoRecord}, r.position => Opened(Item(a)),
             op' = [op EXCEPT ![a].step = "mark", ![a].read = r]
      PROVE  Proceed
  <2>1. "mark" \in Step /\ {} \in SUBSET Intent
    BY DEF Step
  <2>2. [op[a] EXCEPT !.step = "mark", !.read = r] \in Operation
    BY <1>1, <2>1, ReadTypes
  <2>3. PICK o \in Operation : o = [op[a] EXCEPT !.step = "mark", !.read = r]
    BY <2>2, Zenon
  <2>4. o.step = "mark" /\ o.intent = Item(a) /\ o.read = r
    BY <1>1, <2>3 DEF Operation, Item
  <2>5. Holds(o)
    BY <1>1, <1>4, <2>4 DEF Holds
  <2>6. op' = [op EXCEPT ![a] = o]
    BY <1>1, <1>4, <2>3
  <2>7. QED
    BY <1>2, <2>5, <2>6, HoldsLasts, UpdateHolds DEF Proceed
<1>5. Prepared \in Record \union {NoRecord} /\ (Prepared.position => Opened(Item(a)))
  BY DEF Prepared, Record, Lifecycle
<1>6. /\ book[Item(a)] \in Record \union {NoRecord}
      /\ book[Item(a)].position => Opened(Item(a))
  BY <1>1 DEF IInv, TypeOK, OpenWasListed, Opened
<1>7. \/ Finish(a)
      \/ op' = [op EXCEPT ![a].step = "mark", ![a].read = Prepared]
      \/ op' = [op EXCEPT ![a].step = "mark", ![a].read = book[Item(a)]]
  BY DEF Put
<1>8. QED
  BY <1>1, <1>3, <1>4, <1>5, <1>6, <1>7

\* A process that sends a request again.
LEMMA RetryHolds ==
    ASSUME IInv, Lasting, NEW a \in Actor, CanRetry(a), Retry(a)
    PROVE  Proceed
<1>1. op \in [Actor -> Operation] /\ op[a] \in Operation /\ Holds(op[a])
  BY DEF IInv, TypeOK
<1>2. op[a].attempt + 1 \in 0 .. Attempts - 1
  BY <1>1, BoundAssumption DEF Operation, CanRetry
<1>3. [op[a] EXCEPT !.attempt = op[a].attempt + 1] \in Operation
  BY <1>1, <1>2 DEF Operation
<1>4. PICK o \in Operation : o = [op[a] EXCEPT !.attempt = op[a].attempt + 1]
  BY <1>3, Zenon
<1>5. op' = [op EXCEPT ![a] = o]
  BY <1>1, <1>4 DEF Retry
<1>6. /\ o.step = op[a].step /\ o.intent = op[a].intent /\ o.read = op[a].read
      /\ o.save = op[a].save /\ o.then = op[a].then
  BY <1>1, <1>4 DEF Operation
<1>7. Holds(o)
  BY <1>1, <1>6 DEF Holds
<1>8. QED
  BY <1>5, <1>7, HoldsLasts, UpdateHolds DEF Proceed

LEMMA CreateHolds ==
    ASSUME IInv, NEW a \in Actor, Create(a) PROVE Proceed
<1>1. Lasting
  BY UnchangedLasts DEF Create
<1>2. /\ {"SUBMITTED", "FAILED_SAFE", "AMBIGUOUS"} \subseteq Lifecycle \ {"PREPARED"}
      /\ "idle" \in Afterwards
  BY DEF Lifecycle, Afterwards
<1>3. op[a].step \notin {"idle", "down", "own", "next_close"}
  BY DEF Create, At
<1>4. CASE CanRetry(a) /\ Retry(a)
  BY <1>1, <1>4, RetryHolds
<1>5. CASE \E life \in {"SUBMITTED", "FAILED_SAFE", "AMBIGUOUS"} : SaveLife(a, life, "idle")
  BY <1>1, <1>2, <1>3, <1>5, SaveLifeHolds
<1>6. QED
  BY <1>4, <1>5 DEF Create

LEMMA CloseHolds ==
    ASSUME IInv, NEW a \in Actor, Close(a) PROVE Proceed
<1>1. Lasting
  BY UnchangedLasts DEF Close
<1>2. /\ {"FAILED_SAFE", "AMBIGUOUS"} \subseteq Lifecycle \ {"PREPARED"}
      /\ "idle" \in Afterwards /\ "await_close" \in Afterwards
      /\ "CLOSE_REQUESTED" \in Lifecycle
  BY DEF Lifecycle, Afterwards
<1>3. op[a].step \notin {"idle", "down", "own", "next_close"}
  BY DEF Close, At
<1>4. CASE CanRetry(a) /\ Retry(a)
  BY <1>1, <1>4, RetryHolds
<1>5. CASE \E life \in {"FAILED_SAFE", "AMBIGUOUS"} : SaveLife(a, life, "idle")
  BY <1>1, <1>2, <1>3, <1>5, SaveLifeHolds
<1>6. CASE Save(a, [op[a].read EXCEPT !.life = "CLOSE_REQUESTED", !.closing = TRUE],
                "await_close")
  <2>1. /\ Item(a) \in Intent /\ op[a].read \in Record \union {NoRecord}
        /\ op[a].read.position => Opened(Item(a))
    BY <1>3, OperationNow
  <2>2. [op[a].read EXCEPT !.life = "CLOSE_REQUESTED", !.closing = TRUE] \in Record
    BY <1>2, <2>1, RecordTypes
  <2>3. PICK r \in Record :
            r = [op[a].read EXCEPT !.life = "CLOSE_REQUESTED", !.closing = TRUE]
    BY <2>2, Zenon
  <2>4. r.life = "CLOSE_REQUESTED" /\ r.position = op[a].read.position
    BY <1>2, <2>1, <2>3, RecordTypes
  <2>5. r.position => Opened(Item(a))
    BY <2>1, <2>4
  <2>6. QED
    BY <1>1, <1>2, <1>6, <2>1, <2>3, <2>4, <2>5, SaveHolds
<1>7. QED
  BY <1>4, <1>5, <1>6 DEF Close

-----------------------------------------------------------------------------
(* The invariant.                                                          *)

LEMMA Together == Facts' /\ Proceed => IInv'
  BY DEF Facts, Proceed, IInv, TypeOK

LEMMA InvariantAtStart == Init => IInv
<1> SUFFICES ASSUME Init PROVE IInv
  OBVIOUS
<1>1. TypeOK
  BY TypesAtStart
<1>2. \A a \in Actor : Holds(op[a])
  BY DEF Init, Holds, Idle, NoRecord
<1>3. BrokerFits /\ OrderIsOnRecord /\ OpenWasListed /\ ClosedIsGone
  BY DEF Init, BrokerFits, OrderIsOnRecord, OpenWasListed, ClosedIsGone, NoRecord
<1>4. QED
  BY <1>1, <1>2, <1>3 DEF IInv

\* Whose step it is.
LEMMA WhoseStep ==
    ASSUME Next
    PROVE  \/ \E a \in Actor : Submits(a) \/ Reads(a) \/ Leaves(a) \/ Replace(a)
                               \/ Put(a) \/ Create(a) \/ Close(a)
           \/ \E i \in Intent : Broker(i)
  BY DEF Next, Actor, Submit, CloseAll, Submits, Reads, Leaves

LEMMA InvariantKept == IInv /\ [Next]_vars => IInv'
<1> SUFFICES ASSUME IInv, [Next]_vars PROVE IInv'
  OBVIOUS
<1>1. ASSUME NEW a \in Actor, Submits(a) \/ Reads(a) \/ Leaves(a) PROVE IInv'
  <2>1. UNCHANGED <<book, orders, closes, deal, confirms>>
    BY <1>1, ReadsChangeNothing
  <2>2. Lasting /\ Facts'
    BY <2>1, UnchangedLasts, FactsNow, FactsUnchanged
  <2>3. Proceed
    BY <1>1, <2>2, SubmitsHold, ReadsHold
  <2>4. QED
    BY <2>2, <2>3, Together
<1>2. ASSUME NEW a \in Actor, Replace(a) PROVE IInv'
  BY <1>2, ReplaceFacts, ReplaceHolds, Together
<1>3. ASSUME NEW a \in Actor, Put(a) PROVE IInv'
  BY <1>3, PutFacts, PutHolds, Together
<1>4. ASSUME NEW a \in Actor, Create(a) PROVE IInv'
  BY <1>4, CreateFacts, CreateHolds, Together
<1>5. ASSUME NEW a \in Actor, Close(a) PROVE IInv'
  BY <1>5, CloseFacts, CloseHolds, Together
<1>6. ASSUME NEW i \in Intent, Broker(i) PROVE IInv'
  <2>1. UNCHANGED op
    BY <1>6 DEF Broker, DecideOrder, DecideClose, ListDeal, StopOut
  <2>2. QED
    BY <1>6, <2>1, BrokerLasts, BrokerFacts, StayHolds, Together
<1>7. CASE UNCHANGED vars
  BY <1>7, UnchangedLasts, FactsNow, FactsUnchanged, StayHolds, Together DEF vars
<1>8. QED
  BY <1>1, <1>2, <1>3, <1>4, <1>5, <1>6, <1>7, WhoseStep

\* What the records, the operations and the broker have to do with one another
\* holds in every state that the program can reach.
THEOREM InductiveInvariant == Spec => []IInv
<1>1. Init => IInv
  BY InvariantAtStart
<1>2. IInv /\ [Next]_vars => IInv'
  BY InvariantKept
<1>3. QED
  BY <1>1, <1>2, PTL DEF Spec

\* Records, operations, requests, deals and confirmations keep their types.
THEOREM TypeCorrect == Spec => []TypeOK
<1>1. IInv => TypeOK
  BY DEF IInv
<1>2. QED
  BY <1>1, InductiveInvariant, PTL

\* An order that reached the broker is on record as tried, for any number of
\* processes on the record, sends of a request, lost replies and restarts.
THEOREM OrdersAreOnRecord == Spec => []OrderIsOnRecord
<1>1. IInv => OrderIsOnRecord
  BY DEF IInv
<1>2. QED
  BY <1>1, InductiveInvariant, PTL

\* A position on record, and every close that was sent, belong to a deal that was
\* opened, and a record that says closed is of a deal that is gone: replace writes
\* what it read long ago, and none of it is wrong.
THEOREM RecordsFollowBroker == Spec => []RecordFollowsBroker
<1>1. IInv => RecordFollowsBroker
  BY DEF IInv, RecordFollowsBroker
<1>2. QED
  BY <1>1, InductiveInvariant, PTL


-----------------------------------------------------------------------------
(* One worker, whose client sends a request once.                          *)

OneSender == Attempts = 1 /\ \A a, b \in Worker : a = b

\* The operation o is on its way to the order.
Sending(o) ==
    \/ o.step \in {"cycle", "put", "mark", "create"}
    \/ o.step = "save" /\ o.then = "create"

\* Only the worker is ever on its way to an order, and only to one that is not sent.
SendersInv ==
    /\ OrderIsSentOnce
    /\ \A a \in Actor : Sending(op[a]) => a \in Worker /\ orders[op[a].intent] = 0

\* The process a goes on; it sends only what it was about to send or what nobody sent.
Advances(a) ==
    /\ \A b \in Actor \ {a} : op'[b] = op[b]
    /\ Sending(op'[a]) =>
           \/ Sending(op[a]) /\ op'[a].intent = op[a].intent
           \/ a \in Worker /\ orders[op'[a].intent] = 0

LEMMA AdvanceKeeps ==
    ASSUME SendersInv, NEW a \in Actor, Advances(a), UNCHANGED orders
    PROVE  SendersInv'
<1>1. OrderIsSentOnce'
  BY DEF SendersInv, OrderIsSentOnce
<1>2. ASSUME NEW b \in Actor, Sending(op'[b])
      PROVE  b \in Worker /\ orders'[op'[b].intent] = 0
  <2>1. CASE b = a
    BY <1>2, <2>1 DEF Advances, SendersInv
  <2>2. CASE b # a
    BY <1>2, <2>2 DEF Advances, SendersInv
  <2>3. QED
    BY <2>1, <2>2
<1>3. QED
  BY <1>1, <1>2 DEF SendersInv, Sending

\* A process that is done, down, or saves and goes on to no order.
LEMMA QuietAdvances ==
    ASSUME IInv, NEW a \in Actor,
           \/ Finish(a)
           \/ op' = [op EXCEPT ![a] = Down]
           \/ \E r, t : t # "create" /\ Save(a, r, t)
           \/ \E s \in {"next_close", "list_close"} : GoTo(a, s)
    PROVE  Advances(a)
<1>1. op \in [Actor -> Operation] /\ op[a] \in Operation
  BY DEF IInv, TypeOK
<1>2. CASE Finish(a) \/ op' = [op EXCEPT ![a] = Down]
  BY <1>1, <1>2 DEF Finish, Advances, Sending, Idle, Down
<1>3. CASE \E r, t : t # "create" /\ Save(a, r, t)
  <2>1. PICK r, t : t # "create" /\ Save(a, r, t)
    BY <1>3
  <2>2. op'[a].step = "save" /\ op'[a].then = t
    BY <1>1, <2>1 DEF Save, Operation
  <2>3. \A b \in Actor \ {a} : op'[b] = op[b]
    BY <1>1, <2>1 DEF Save
  <2>4. QED
    BY <2>1, <2>2, <2>3 DEF Advances, Sending
<1>4. CASE \E s \in {"next_close", "list_close"} : GoTo(a, s)
  <2>1. PICK s \in {"next_close", "list_close"} : GoTo(a, s)
    BY <1>4
  <2>2. op'[a].step = s
    BY <1>1, <2>1 DEF GoTo, Operation
  <2>3. \A b \in Actor \ {a} : op'[b] = op[b]
    BY <1>1, <2>1 DEF GoTo
  <2>4. QED
    BY <2>1, <2>2, <2>3 DEF Advances, Sending
<1>5. QED
  BY <1>2, <1>3, <1>4

LEMMA BeginAdvances ==
    ASSUME IInv, NEW a \in Actor, NEW i \in Intent, NEW s, Begin(a, s, i),
           s \in {"cycle", "mark"} => a \in Worker /\ orders[i] = 0,
           s \in {"cycle", "mark", "confirm_open", "confirm_close"}
    PROVE  Advances(a)
<1>1. op \in [Actor -> Operation] /\ op[a] \in Operation
  BY DEF IInv, TypeOK
<1>2. op'[a].step = s /\ op'[a].intent = i
  BY <1>1 DEF Begin, Idle
<1>3. \A b \in Actor \ {a} : op'[b] = op[b]
  BY <1>1 DEF Begin
<1>4. QED
  BY <1>2, <1>3 DEF Advances, Sending

\* What has no record, or one that is only prepared, has not been sent.
LEMMA UntriedIsUnsent ==
    ASSUME IInv, NEW i \in Intent, book[i].life \in {"none", "PREPARED"}
    PROVE  orders[i] = 0
  BY DEF IInv, TypeOK, OrderIsOnRecord

LEMMA SubmitsAdvance ==
    ASSUME IInv, NEW a \in Actor, a \in Worker, Submits(a) \/ Put(a)
    PROVE  Advances(a)
<1>1. op \in [Actor -> Operation] /\ op[a] \in Operation
  BY DEF IInv, TypeOK
<1>2. CASE \E i \in Intent : BeginSubmit(a, i)
  <2>1. PICK i \in Intent : BeginSubmit(a, i)
    BY <1>2
  <2>2. book[i].life \in {"none", "PREPARED"}
    BY <2>1 DEF BeginSubmit, NoRecord
  <2>3. orders[i] = 0
    BY <2>2, UntriedIsUnsent
  <2>4. QED
    BY <2>1, <2>3, BeginAdvances DEF BeginSubmit
<1>3. CASE CheckCycle(a)
  <2>1. CASE Finish(a)
    BY <2>1, QuietAdvances
  <2>2. CASE GoTo(a, "put")
    BY <1>1, <1>3, <2>2 DEF CheckCycle, GoTo, At, Advances, Sending, Operation
  <2>3. QED
    BY <1>3, <2>1, <2>2 DEF CheckCycle
<1>4. CASE MarkSubmitting(a)
  BY <1>1, <1>4 DEF MarkSubmitting, SaveLife, Save, At, Advances, Sending, Operation
<1>5. CASE Put(a)
  <2>1. CASE Finish(a)
    BY <2>1, QuietAdvances
  <2>2. CASE \E r : op' = [op EXCEPT ![a].step = "mark", ![a].read = r]
    BY <1>1, <1>5, <2>2 DEF Put, At, Advances, Sending, Operation
  <2>3. QED
    BY <1>5, <2>1, <2>2 DEF Put
<1>6. QED
  BY <1>2, <1>3, <1>4, <1>5 DEF Submits

LEMMA ReadsAdvance ==
    ASSUME IInv, NEW a \in Actor, Reads(a) \/ Leaves(a) PROVE Advances(a)
<1>1. op \in [Actor -> Operation] /\ op[a] \in Operation
  BY DEF IInv, TypeOK
<1>2. CASE ReconcileOpen(a)
  <2>1. CASE \E i \in Intent : BeginReconcileOpen(a, i)
    BY <2>1, BeginAdvances DEF BeginReconcileOpen
  <2>2. CASE ConfirmOpen(a) \/ ListOpen(a)
    BY <2>2, QuietAdvances DEF ConfirmOpen, ListOpen, SaveLife
  <2>3. QED
    BY <1>2, <2>1, <2>2 DEF ReconcileOpen
<1>3. CASE ReconcileClose(a)
  <2>1. CASE \E i \in Intent : BeginReconcileClose(a, i)
    BY <2>1, BeginAdvances DEF BeginReconcileClose
  <2>2. CASE ConfirmClose(a)
    BY <2>2, QuietAdvances DEF ConfirmClose, SaveLife
  <2>3. CASE ListClose(a)
    BY <2>3, QuietAdvances DEF ListClose, SaveLife, NextOrIdle
  <2>4. QED
    BY <1>3, <2>1, <2>2, <2>3 DEF ReconcileClose
<1>4. CASE BeginFlatten(a)
  <2>1. op'[a].step = "own" /\ \A b \in Actor \ {a} : op'[b] = op[b]
    BY <1>1, <1>4 DEF BeginFlatten, Idle
  <2>2. QED
    BY <2>1 DEF Advances, Sending
<1>5. CASE CheckOwnership(a)
  BY <1>5, QuietAdvances DEF CheckOwnership
<1>6. CASE \E i \in Intent : NextClose(a, i)
  <2>1. PICK i \in Intent : NextClose(a, i)
    BY <1>6
  <2>2. CASE Finish(a)
    BY <2>2, QuietAdvances
  <2>3. ASSUME NEW s \in {"close", "await_close"},
               op' = [op EXCEPT ![a] = [Idle EXCEPT
                        !.step = s, !.intent = i, !.read = book[i],
                        !.todo = op[a].todo \ {i}]]
        PROVE  Advances(a)
    <3>1. op'[a].step = s /\ \A b \in Actor \ {a} : op'[b] = op[b]
      BY <1>1, <2>3 DEF Idle
    <3>2. QED
      BY <3>1 DEF Advances, Sending
  <2>4. CASE Closable(i)
    BY <2>1, <2>3, <2>4 DEF NextClose
  <2>5. CASE ~Closable(i) /\ book[i].life = "CLOSE_REQUESTED"
    BY <2>1, <2>3, <2>5 DEF NextClose
  <2>6. CASE ~Closable(i) /\ book[i].life # "CLOSE_REQUESTED"
    BY <2>1, <2>2, <2>6 DEF NextClose
  <2>7. QED
    BY <2>4, <2>5, <2>6
<1>7. CASE AwaitClose(a)
  <2>1. CASE Finish(a) \/ GoTo(a, "next_close")
    BY <2>1, QuietAdvances
  <2>2. CASE op' = [op EXCEPT ![a].step = "confirm_close", ![a].read = book[Item(a)]]
    <3>1. op'[a].step = "confirm_close" /\ \A b \in Actor \ {a} : op'[b] = op[b]
      BY <1>1, <2>2 DEF Operation
    <3>2. QED
      BY <3>1 DEF Advances, Sending
  <2>3. QED
    BY <1>7, <2>1, <2>2 DEF AwaitClose
<1>8. CASE Leaves(a)
  BY <1>8, QuietAdvances DEF Leaves, Abandon, Restart
<1>9. QED
  BY <1>2, <1>3, <1>4, <1>5, <1>6, <1>7, <1>8 DEF Reads

LEMMA ReplaceAdvances ==
    ASSUME IInv, NEW a \in Actor, Replace(a) PROVE Advances(a)
<1>1. op \in [Actor -> Operation] /\ op[a] \in Operation
  BY DEF IInv, TypeOK
<1>2. op[a].then \in Afterwards /\ op[a].step = "save"
  BY DEF IInv, Holds, Replace, At
<1>3. CASE op[a].then = "idle"
  BY <1>3, QuietAdvances DEF Replace
<1>4. CASE op[a].then # "idle"
  <2>1. /\ op'[a].step = op[a].then /\ op'[a].intent = op[a].intent
        /\ \A b \in Actor \ {a} : op'[b] = op[b]
    BY <1>1, <1>4 DEF Replace, Operation
  <2>2. QED
    BY <1>2, <2>1 DEF Advances, Sending, Afterwards
<1>5. QED
  BY <1>3, <1>4

\* The worker's order is the first, and it sends no second one.
LEMMA CreateKeeps ==
    ASSUME OneSender, IInv, SendersInv, NEW a \in Actor, Create(a)
    PROVE  SendersInv'
<1>1. op \in [Actor -> Operation] /\ op[a] \in Operation
  BY DEF IInv, TypeOK
<1>2. Sending(op[a]) /\ Item(a) \in Intent
  BY OperationNow DEF Create, At, Sending
<1>3. a \in Worker /\ orders[Item(a)] = 0
  BY <1>2 DEF SendersInv, Item
<1>4. ~CanRetry(a)
  BY <1>1, BoundAssumption DEF OneSender, CanRetry, Operation
<1>5. \E life : SaveLife(a, life, "idle")
  BY <1>4 DEF Create
<1>6. ~Sending(op'[a]) /\ \A b \in Actor \ {a} : op'[b] = op[b]
  <2>1. op'[a].step = "save" /\ op'[a].then = "idle"
    BY <1>1, <1>5 DEF SaveLife, Save, Operation
  <2>2. \A b \in Actor \ {a} : op'[b] = op[b]
    BY <1>1, <1>5 DEF SaveLife, Save
  <2>3. QED
    BY <2>1, <2>2 DEF Sending
<1>7. \A b \in Actor : ~Sending(op'[b])
  BY <1>3, <1>6 DEF OneSender, SendersInv
<1>8. OrderIsSentOnce'
  <2>1. /\ orders \in [Intent -> 0 .. MaxRequests]
        /\ Delivered(orders, Item(a)) \/ UNCHANGED orders
    BY DEF Create, IInv, TypeOK
  <2>2. \A i \in Intent : orders'[i] = orders[i] \/ (i = Item(a) /\ orders'[i] = 1)
    BY <1>2, <1>3, <2>1 DEF Delivered
  <2>3. QED
    BY <2>2 DEF SendersInv, OrderIsSentOnce
<1>9. QED
  BY <1>7, <1>8 DEF SendersInv, Sending

LEMMA SendersKept ==
    ASSUME OneSender, IInv, SendersInv, [Next]_vars PROVE SendersInv'
<1>1. ASSUME NEW a \in Actor, Reads(a) \/ Leaves(a) PROVE SendersInv'
  BY <1>1, ReadsAdvance, ReadsChangeNothing, AdvanceKeeps
<1>2. ASSUME NEW a \in Worker, Submits(a) \/ Put(a) PROVE SendersInv'
  <2>1. a \in Actor
    BY DEF Actor
  <2>2. UNCHANGED orders
    BY <1>2, <2>1, ReadsChangeNothing DEF Put, brokerVars
  <2>3. QED
    BY <1>2, <2>1, <2>2, SubmitsAdvance, AdvanceKeeps
<1>3. ASSUME NEW a \in Actor, Replace(a) PROVE SendersInv'
  BY <1>3, ReplaceAdvances, AdvanceKeeps DEF Replace, brokerVars
<1>4. ASSUME NEW a \in Actor, Create(a) PROVE SendersInv'
  BY <1>4, CreateKeeps
<1>5. ASSUME NEW a \in Actor, Close(a) PROVE SendersInv'
  <2>1. op \in [Actor -> Operation] /\ op[a] \in Operation
    BY DEF IInv, TypeOK
  <2>2. ~CanRetry(a)
    BY <2>1, BoundAssumption DEF OneSender, CanRetry, Operation
  <2>3. Advances(a)
    BY <1>5, <2>2, QuietAdvances DEF Close, SaveLife
  <2>4. QED
    BY <1>5, <2>3, AdvanceKeeps DEF Close
<1>6. ASSUME NEW i \in Intent, Broker(i) PROVE SendersInv'
  BY <1>6 DEF Broker, DecideOrder, DecideClose, ListDeal, StopOut,
              SendersInv, OrderIsSentOnce, Sending
<1>7. CASE UNCHANGED vars
  BY <1>7 DEF vars, SendersInv, OrderIsSentOnce, Sending
<1>8. Next =>
        \/ \E a \in Actor : Reads(a) \/ Leaves(a) \/ Replace(a) \/ Create(a) \/ Close(a)
        \/ \E a \in Worker : Submits(a) \/ Put(a)
        \/ \E i \in Intent : Broker(i)
  BY DEF Next, Actor, Submit, CloseAll, Submits, Reads, Leaves
<1>9. QED
  BY <1>1, <1>2, <1>3, <1>4, <1>5, <1>6, <1>7, <1>8

\* With one worker, whose client sends a request once (max_retries = 1), the broker
\* gets at most one order for an intent, whatever replies are lost, whoever dies, and
\* however many commands work on the record at the same time.
THEOREM OneOrderPerIntent == ASSUME OneSender PROVE Spec => []OrderIsSentOnce
<1>1. Init => SendersInv
  BY DEF Init, SendersInv, OrderIsSentOnce, Sending, Idle
<1>2. SendersInv /\ IInv /\ [Next]_vars => SendersInv'
  BY SendersKept
<1>3. SendersInv => OrderIsSentOnce
  BY DEF SendersInv
<1>4. QED
  BY <1>1, <1>2, <1>3, InductiveInvariant, PTL DEF Spec

-----------------------------------------------------------------------------
(* The operator's registry. *)

\* A claim in its first state belongs to a start command; a registry that
\* names a process without a claim has been killed.
OwnerFits ==
    /\ reg.state = "STARTING" => reg.pid \in Starter
    /\ reg.pid # NoPid /\ reg.state \notin Claimed => reg.kill

\* A start command that is about to assign has launched a worker.
ChildIsLaunched ==
    \A c \in Starter : pc[c] = "assign" => child[c] \in RobotWorker

\* A flatten that may still send a close has sent none under the kill.
LateCloseIsFirst ==
    \A f \in Flattener :
        late[f] <= 1 /\ (reg.kill /\ pc[f] = "close" => late[f] = 0)

OperatorIInv ==
    /\ OperatorTypeOK
    /\ OwnerFits
    /\ ChildIsLaunched
    /\ ServingIsRegistered
    /\ LateCloseIsFirst

-----------------------------------------------------------------------------

\* Nothing runs and nothing is registered at first.
LEMMA InitIInv == OperatorInit => OperatorIInv
  BY PidAssumption
  DEF OperatorInit, OperatorIInv, OperatorTypeOK, OwnerFits, ChildIsLaunched, ServingIsRegistered,
      LateCloseIsFirst, Row, State, Claimed, Ended, Serving, Pid

\* What the transactions write is a row.
LEMMA WriteType ==
    ASSUME OperatorTypeOK, NEW state \in State, NEW pid \in Pid \union {NoPid},
           state \in Claimed => pid # NoPid, Write(state, pid)
    PROVE  /\ reg' \in Row /\ (reg'.state \in Claimed => reg'.pid # NoPid)
           /\ reg'.state = state /\ reg'.pid = pid /\ reg'.kill = reg.kill
  BY DEF OperatorTypeOK, Row, Write

\* A report of a process that the registry does not name changes nothing.
LEMMA StoppedType ==
    ASSUME OperatorTypeOK, NEW p \in Pid, NEW state \in {"STOPPED", "SAFE_STOP"},
           Stopped(p, state)
    PROVE  /\ reg' \in Row /\ (reg'.state \in Claimed => reg'.pid # NoPid)
           /\ reg'.kill = reg.kill
           /\ \/ reg.pid = p /\ reg'.pid = NoPid /\ reg'.state = state
              \/ reg.pid # p /\ UNCHANGED reg
<1>1. CASE reg.pid = p
  <2>1. Write(state, NoPid)
    BY <1>1 DEF Stopped
  <2>2. state \in State /\ state \notin Claimed
    BY DEF State, Claimed
  <2>3. QED
    BY <1>1, <2>1, <2>2, WriteType
<1>2. CASE reg.pid # p
  BY <1>2 DEF Stopped, OperatorTypeOK
<1>3. QED
  BY <1>1, <1>2

\* The processes are of three kinds.
LEMMA PidKinds ==
    /\ Starter \subseteq Pid /\ RobotWorker \subseteq Pid /\ Flattener \subseteq Pid
    /\ \A c \in Starter : c \notin RobotWorker /\ c \notin Flattener /\ c # NoPid
    /\ \A w \in RobotWorker : w \notin Flattener /\ w # NoPid
  BY PidAssumption DEF Pid

\* A start command's step preserves the invariant.
LEMMA StartStep ==
    ASSUME OperatorIInv, NEW c \in Starter, Start(c) PROVE OperatorIInv'
<1> USE PidKinds DEF OperatorIInv
<1>1. CASE BeginStart(c)
  BY <1>1
  DEF BeginStart, Reached, Go, OperatorTypeOK, OwnerFits, ChildIsLaunched,
      ServingIsRegistered, LateCloseIsFirst, Ended, Serving
<1>2. CASE AcquireStart(c)
  <2>1. CASE Free /\ ~reg.kill
    <3>1. Write("STARTING", c) /\ Go(c, "launch") /\ UNCHANGED <<child, late>>
      BY <1>2, <2>1 DEF AcquireStart
    <3>2. /\ reg' \in Row /\ (reg'.state \in Claimed => reg'.pid # NoPid)
          /\ reg'.state = "STARTING" /\ reg'.pid = c /\ reg'.kill = reg.kill
      BY <3>1, WriteType DEF State, Claimed
    <3>3. \A w \in RobotWorker : pc[w] \notin Serving
      <4>1. reg.state \notin Claimed => reg.pid = NoPid
        BY <2>1 DEF OwnerFits
      <4>2. QED
        BY <2>1, <4>1 DEF Free, ServingIsRegistered, Alive, Serving, Ended
    <3>4. QED
      BY <2>1, <3>1, <3>2, <3>3
      DEF Go, OperatorTypeOK, OwnerFits, ChildIsLaunched, ServingIsRegistered,
          LateCloseIsFirst, Serving, Ended, Claimed
  <2>2. CASE ~(Free /\ ~reg.kill)
    BY <1>2, <2>2
    DEF AcquireStart, Reached, Go, OperatorTypeOK, OwnerFits, ChildIsLaunched,
        ServingIsRegistered, LateCloseIsFirst, Ended, Serving
  <2>3. QED
    BY <2>1, <2>2
<1>3. CASE Launch(c)
  <2>1. CASE Go(c, "abandon") /\ UNCHANGED <<reg, child, late>>
    BY <2>1
    DEF Go, OperatorTypeOK, OwnerFits, ChildIsLaunched, ServingIsRegistered,
        LateCloseIsFirst, Ended, Serving
  <2>2. ASSUME NEW w \in RobotWorker, Reached(w, "unborn"),
               pc' = [pc EXCEPT ![c] = "assign", ![w] = "heartbeat"],
               child' = [child EXCEPT ![c] = w], UNCHANGED <<reg, late>>
        PROVE  OperatorIInv'
    BY <2>2
    DEF OperatorTypeOK, OwnerFits, ChildIsLaunched, ServingIsRegistered,
        LateCloseIsFirst, Ended, Serving
  <2>3. QED
    BY <1>3, <2>1, <2>2 DEF Launch
<1>4. CASE SetWorkerPid(c)
  <2>1. CASE reg.state = "STARTING" /\ ~reg.kill
    <3>1. /\ Write("RUNNING", child[c]) /\ Go(c, "dead")
          /\ UNCHANGED <<child, late>> /\ child[c] \in RobotWorker
      BY <1>4, <2>1 DEF SetWorkerPid, Reached, ChildIsLaunched
    <3>2. /\ reg' \in Row /\ (reg'.state \in Claimed => reg'.pid # NoPid)
          /\ reg'.state = "RUNNING" /\ reg'.pid = child[c]
          /\ reg'.kill = reg.kill
      BY <3>1, WriteType DEF State, Claimed
    <3>3. \A w \in RobotWorker : pc[w] \notin Serving
      BY <2>1 DEF OwnerFits, ServingIsRegistered
    <3>4. QED
      BY <2>1, <3>1, <3>2, <3>3
      DEF Go, OperatorTypeOK, OwnerFits, ChildIsLaunched, ServingIsRegistered,
          LateCloseIsFirst, Serving, Ended, Claimed
  <2>2. CASE ~(reg.state = "STARTING" /\ ~reg.kill)
    BY <1>4, <2>2
    DEF SetWorkerPid, Reached, Go, OperatorTypeOK, OwnerFits, ChildIsLaunched,
        ServingIsRegistered, LateCloseIsFirst, Ended, Serving
  <2>3. QED
    BY <2>1, <2>2
<1>5. CASE AbandonStart(c)
  <2>1. /\ Stopped(c, "SAFE_STOP") /\ Go(c, "dead") /\ UNCHANGED <<child, late>>
    BY <1>5 DEF AbandonStart
  <2>2. /\ reg' \in Row /\ (reg'.state \in Claimed => reg'.pid # NoPid)
        /\ reg'.kill = reg.kill
        /\ \/ reg.pid = c /\ reg'.pid = NoPid /\ reg'.state = "SAFE_STOP"
           \/ reg.pid # c /\ UNCHANGED reg
    BY <2>1, StoppedType
  <2>3. QED
    BY <2>1, <2>2
    DEF Go, OperatorTypeOK, OwnerFits, ChildIsLaunched, ServingIsRegistered,
        LateCloseIsFirst, Serving, Ended
<1>6. QED
  BY <1>1, <1>2, <1>3, <1>4, <1>5 DEF Start

\* A worker's step preserves it.
LEMMA WorkStep ==
    ASSUME OperatorIInv, NEW w \in RobotWorker, Work(w) PROVE OperatorIInv'
<1> USE PidKinds DEF OperatorIInv
<1>1. CASE Heartbeat(w)
  <2>1. CASE reg.pid = w /\ reg.state \in Owned
    <3>1. Write(reg.state, w) /\ Go(w, "read") /\ UNCHANGED <<child, late>>
      BY <1>1, <2>1 DEF Heartbeat
    <3>2. /\ reg' \in Row /\ (reg'.state \in Claimed => reg'.pid # NoPid)
          /\ reg'.state = reg.state /\ reg'.pid = w /\ reg'.kill = reg.kill
      BY <2>1, <3>1, WriteType DEF State, Owned
    <3>3. QED
      BY <2>1, <3>1, <3>2
      DEF Go, OperatorTypeOK, OwnerFits, ChildIsLaunched, ServingIsRegistered,
          LateCloseIsFirst, Serving, Ended, Owned
  <2>2. CASE ~(reg.pid = w /\ reg.state \in Owned)
    BY <1>1, <2>2
    DEF Heartbeat, Go, OperatorTypeOK, OwnerFits, ChildIsLaunched,
        ServingIsRegistered, LateCloseIsFirst, Ended, Serving
  <2>3. QED
    BY <2>1, <2>2
<1>2. CASE ReadState(w) \/ EndCycle(w) \/ Leave(w)
  <2>1. /\ UNCHANGED <<reg, child, late>>
        /\ \/ pc[w] \in Serving /\ Go(w, "stop")
           \/ pc[w] \in Serving /\ Go(w, "cycle")
           \/ Go(w, "leave") \/ Go(w, "fail") \/ Go(w, "heartbeat")
           \/ Go(w, "dead")
    BY <1>2 DEF ReadState, EndCycle, Leave, Reached, Serving
  <2>2. QED
    BY <2>1
    DEF Go, OperatorTypeOK, OwnerFits, ChildIsLaunched, ServingIsRegistered,
        LateCloseIsFirst, Ended, Serving
<1>3. CASE StopWorker(w) \/ FailWorker(w)
  <2>1. PICK state \in {"STOPPED", "SAFE_STOP"} :
            /\ Stopped(w, state)
            /\ Go(w, "leave") \/ Go(w, "dead")
            /\ UNCHANGED <<child, late>>
    BY <1>3 DEF StopWorker, FailWorker
  <2>2. /\ reg' \in Row /\ (reg'.state \in Claimed => reg'.pid # NoPid)
        /\ reg'.kill = reg.kill
        /\ \/ reg.pid = w /\ reg'.pid = NoPid /\ reg'.state = state
           \/ reg.pid # w /\ UNCHANGED reg
    BY <2>1, StoppedType
  <2>3. QED
    BY <2>1, <2>2
    DEF Go, OperatorTypeOK, OwnerFits, ChildIsLaunched, ServingIsRegistered,
        LateCloseIsFirst, Serving, Ended
<1>4. QED
  BY <1>1, <1>2, <1>3 DEF Work

\* A console command preserves it.
LEMMA CommandStep == ASSUME OperatorIInv, Command PROVE OperatorIInv'
<1> USE PidKinds DEF OperatorIInv
<1>1. CASE RequestStop \/ Pause \/ Resume
  <2>1. PICK state \in Owned :
            Write(state, reg.pid) /\ UNCHANGED <<pc, child, late>>
    BY <1>1 DEF RequestStop, Pause, Resume, Owned
  <2>2. reg.state \in Claimed /\ reg.pid # NoPid /\ reg.pid \in Pid
    BY <1>1 DEF RequestStop, Pause, Resume, Claimed, OperatorTypeOK, Row
  <2>3. /\ reg' \in Row /\ (reg'.state \in Claimed => reg'.pid # NoPid)
        /\ reg'.state = state /\ reg'.pid = reg.pid /\ reg'.kill = reg.kill
    BY <2>1, <2>2, WriteType DEF State, Owned
  <2>4. QED
    BY <2>1, <2>2, <2>3
    DEF OperatorTypeOK, OwnerFits, ChildIsLaunched, ServingIsRegistered,
        LateCloseIsFirst, Owned, Claimed
<1>2. CASE EmergencyKill
  <2>1. /\ reg' \in Row /\ reg'.state = "SAFE_STOP" /\ reg'.kill
        /\ reg'.pid = reg.pid /\ UNCHANGED <<pc, child>>
    BY <1>2 DEF EmergencyKill, OperatorTypeOK, Row, State
  <2>2. /\ late' \in [Flattener -> Nat]
        /\ \A f \in Flattener : late'[f] = 0 \/ (reg.kill /\ late'[f] = late[f])
    BY <1>2 DEF EmergencyKill, OperatorTypeOK
  <2>3. QED
    BY <2>1, <2>2
    DEF OperatorTypeOK, OwnerFits, ChildIsLaunched, ServingIsRegistered,
        LateCloseIsFirst, Claimed
<1>3. CASE ReleaseKill
  <2>1. /\ reg' \in Row /\ reg'.state = "STOPPED" /\ ~reg'.kill
        /\ reg'.pid = NoPid /\ UNCHANGED <<pc, child, late>>
    BY <1>3 DEF ReleaseKill, Row, State
  <2>2. \A w \in RobotWorker : pc[w] \notin Serving
    BY <1>3 DEF ReleaseKill, ServingIsRegistered, Alive, Serving, Ended
  <2>3. QED
    BY <2>1, <2>2
    DEF OperatorTypeOK, OwnerFits, ChildIsLaunched, ServingIsRegistered,
        LateCloseIsFirst, Claimed
<1>4. QED
  BY <1>1, <1>2, <1>3 DEF Command

\* A flattening command's step preserves it.
LEMMA FlattenStep ==
    ASSUME OperatorIInv, NEW f \in Flattener, Flatten(f) PROVE OperatorIInv'
<1> USE PidKinds DEF OperatorIInv
<1>1. CASE EnterFlatten(f) \/ CloseAuthority(f)
  <2>1. /\ UNCHANGED <<reg, child, late>>
        /\ \/ Go(f, "authority") \/ Go(f, "dead")
           \/ ~reg.kill /\ Go(f, "close")
    BY <1>1 DEF EnterFlatten, CloseAuthority
  <2>2. QED
    BY <2>1
    DEF Go, OperatorTypeOK, OwnerFits, ChildIsLaunched, ServingIsRegistered,
        LateCloseIsFirst, Ended, Serving
<1>2. CASE SendClose(f)
  <2>1. /\ UNCHANGED <<reg, child>> /\ pc[f] = "close"
        /\ Go(f, "authority") \/ Go(f, "dead")
        /\ late' = [late EXCEPT ![f] = @ + (IF reg.kill THEN 1 ELSE 0)]
    BY <1>2 DEF SendClose, Reached
  <2>2. late' \in [Flattener -> Nat] /\ \A g \in Flattener : late'[g] <= 1
    BY <2>1 DEF OperatorTypeOK, LateCloseIsFirst
  <2>3. \A g \in Flattener \ {f} : late'[g] = late[g]
    BY <2>1 DEF OperatorTypeOK
  <2>4. QED
    BY <2>1, <2>2, <2>3
    DEF Go, OperatorTypeOK, OwnerFits, ChildIsLaunched, ServingIsRegistered,
        LateCloseIsFirst, Ended, Serving
<1>3. QED
  BY <1>1, <1>2 DEF Flatten

\* So do a death and the passing of time.
LEMMA StepIInv == OperatorIInv /\ [OperatorNext]_operatorVars => OperatorIInv'
<1> SUFFICES ASSUME OperatorIInv, [OperatorNext]_operatorVars PROVE OperatorIInv'
  OBVIOUS
<1>1. ASSUME NEW p \in Pid, Die(p) PROVE OperatorIInv'
  BY <1>1
  DEF OperatorIInv, Die, Go, OperatorTypeOK, OwnerFits, ChildIsLaunched, ServingIsRegistered,
      LateCloseIsFirst, Ended, Serving
<1>2. CASE Age
  BY <1>2
  DEF OperatorIInv, Age, OperatorTypeOK, Row, OwnerFits, ChildIsLaunched,
      ServingIsRegistered, LateCloseIsFirst
<1>3. CASE UNCHANGED operatorVars
  BY <1>3
  DEF operatorVars, OperatorIInv, OperatorTypeOK, OwnerFits, ChildIsLaunched, ServingIsRegistered,
      LateCloseIsFirst
<1>4. QED
  BY <1>1, <1>2, <1>3, StartStep, WorkStep, CommandStep, FlattenStep DEF OperatorNext

\* The inductive invariant holds throughout.
THEOREM Invariant == OperatorSpec => []OperatorIInv
  BY InitIInv, StepIInv, PTL DEF OperatorSpec

\* Every variable stays in its set, and a claim always has an owner.
THEOREM OperatorTypeCorrect == OperatorSpec => []OperatorTypeOK
<1>1. OperatorIInv => OperatorTypeOK
  BY DEF OperatorIInv
<1>2. QED
  BY Invariant, <1>1, PTL

\* The worker inside its cycle is the registered one: there is only one.
THEOREM OneServingWorker == OperatorSpec => []ServingIsRegistered
<1>1. OperatorIInv => ServingIsRegistered
  BY DEF OperatorIInv
<1>2. QED
  BY Invariant, <1>1, PTL

\* What a kill allows of one step, without the temporal operators.
KillStep ==
    /\ reg.kill /\ ~reg'.kill => \A w \in RobotWorker : pc[w] \notin Serving
    /\ reg.kill /\ reg'.kill => reg'.pid \in {reg.pid, NoPid}

\* Only a release lifts the kill, and only a start not killed hands over.
LEMMA KillStepHolds == OperatorIInv /\ [OperatorNext]_operatorVars => KillStep
<1> SUFFICES ASSUME OperatorIInv, [OperatorNext]_operatorVars, reg.kill PROVE KillStep
  BY DEF KillStep
<1> USE DEF KillStep
<1>a. \A state, pid :
            Write(state, pid) => reg'.kill = reg.kill /\ reg'.pid = pid
  BY DEF OperatorIInv, OperatorTypeOK, Row, Write
<1>b. \A p, state : Stopped(p, state) =>
            reg'.kill = reg.kill /\ reg'.pid \in {reg.pid, NoPid}
  BY <1>a DEF Stopped
<1>1. ASSUME NEW c \in Starter, Start(c) PROVE KillStep
  <2>1. UNCHANGED reg \/ Stopped(c, "SAFE_STOP")
    BY <1>1
    DEF Start, BeginStart, AcquireStart, Launch, SetWorkerPid, AbandonStart
  <2>2. QED
    BY <2>1, <1>b
<1>2. ASSUME NEW w \in RobotWorker, Work(w) PROVE KillStep
  <2>1. \/ UNCHANGED reg
        \/ reg.pid = w /\ Write(reg.state, w)
        \/ Stopped(w, "STOPPED") \/ Stopped(w, "SAFE_STOP")
    BY <1>2
    DEF Work, Heartbeat, ReadState, EndCycle, StopWorker, Leave, FailWorker
  <2>2. QED
    BY <2>1, <1>a, <1>b
<1>3. ASSUME NEW f \in Flattener, Flatten(f) PROVE KillStep
  BY <1>3 DEF Flatten, EnterFlatten, CloseAuthority, SendClose
<1>4. CASE RequestStop \/ Pause \/ Resume \/ EmergencyKill
  BY <1>4, <1>a DEF RequestStop, Pause, Resume, EmergencyKill, OperatorIInv, OperatorTypeOK, Row
<1>5. CASE ReleaseKill
  BY <1>5, PidKinds
  DEF ReleaseKill, OperatorIInv, OperatorTypeOK, Row, ServingIsRegistered, Alive, Serving, Ended
<1>6. CASE Age \/ UNCHANGED operatorVars \/ \E p \in Pid : Die(p)
  BY <1>6 DEF Age, operatorVars, Die, OperatorIInv, OperatorTypeOK, Row
<1>7. QED
  BY <1>1, <1>2, <1>3, <1>4, <1>5, <1>6 DEF OperatorNext, Command

\* A kill is not bypassed by whoever was running when it came: no start, no
\* worker, and no flatten beyond the one close it has the authority for.
THEOREM KillHolds == OperatorSpec => KillIsNotBypassed
<1>1. OperatorIInv /\ [OperatorNext]_operatorVars => [KillStep]_operatorVars
  BY KillStepHolds
<1>2. OperatorIInv => KillStopsFlatten
  BY DEF OperatorIInv, LateCloseIsFirst, KillStopsFlatten
<1>3. QED
  BY Invariant, <1>1, <1>2, PTL DEF OperatorSpec, KillIsNotBypassed, KillStep
=============================================================================
