---------------------------- MODULE DemoExecution ----------------------------
(***************************************************************************)
(* Trading an IG demo account: DemoExecutionCore (demo_execution.py) on    *)
(* the SQLite store (demo_store.py), called by the operator's processes    *)
(* (demo_operator.py) over an HTTP client that retries (http_client.py).   *)
(*                                                                         *)
(* A step is one call on the store or one on the broker.  The store's      *)
(* replace overwrites the whole record with what the caller read earlier.  *)
(* Replies may be lost, processes may die anywhere, and several processes  *)
(* may work on one record: the worker, and every console command.          *)
(*                                                                         *)
(* Economics are abstract: an intent's own deal stands for its epic,       *)
(* direction and size, which the confirmation and the position repeat.     *)
(***************************************************************************)
EXTENDS Naturals

CONSTANTS
    Worker,         \* robot processes: they submit and reconcile
    Console,        \* operator commands: start reconciles, close_all closes
    Intent,
    CycleOf,        \* Intent -> global cycle
    Attempts,       \* HTTPClient.max_retries: sends of one request
    MaxRequests     \* bound: requests of a kind that reach the broker

ASSUME ActorAssumption == Worker \cap Console = {}
ASSUME BoundAssumption == Attempts \in Nat \ {0} /\ MaxRequests \in Nat

VARIABLES
    book,       \* demo_execution_records
    op,         \* the operation each process is inside
    orders,     \* create requests that reached the broker, per intent
    closes,     \* close requests that reached the broker, per intent
    deal,       \* the intent's deal at the broker
    confirms    \* what the broker confirms of the order and of the close

brokerVars == <<orders, closes, deal, confirms>>
vars == <<book, op, orders, closes, deal, confirms>>

Actor == Worker \union Console

Lifecycle == {"PREPARED", "SUBMITTING", "SUBMITTED", "CONFIRMED_ACCEPTED",
              "CONFIRMED_REJECTED", "OPEN_RECONCILED", "CLOSE_REQUESTED",
              "CLOSED_RECONCILED", "FAILED_SAFE", "AMBIGUOUS"}
Incomplete == {"SUBMITTED", "AMBIGUOUS", "CONFIRMED_ACCEPTED",
               "CLOSE_REQUESTED"}

\* position: the reconciled deal is known; closing: a close was acknowledged.
Record == [life : Lifecycle, position : BOOLEAN, closing : BOOLEAN]
NoRecord == [life |-> "none", position |-> FALSE, closing |-> FALSE]
Prepared == [life |-> "PREPARED", position |-> FALSE, closing |-> FALSE]

Step == {"cycle", "put", "mark", "create", "confirm_open", "list_open",
         "own", "next_close", "close", "await_close", "confirm_close",
         "list_close", "save"}
NoIntent == "none"

\* read: the record as the operation last read or wrote it; save: the record
\* it is about to write; then: where it goes on after that.
Operation == [step : Step \union {"idle", "down"}, intent : Intent \union {NoIntent},
              read : Record \union {NoRecord},
              save : Record \union {NoRecord}, attempt : 0..Attempts - 1,
              todo : SUBSET Intent, then : Step \union {"idle"}]
Idle == [step |-> "idle", intent |-> NoIntent, read |-> NoRecord,
         save |-> NoRecord, attempt |-> 0, todo |-> {}, then |-> "idle"]

Down == [Idle EXCEPT !.step = "down"]

\* An accepted order is listed among the positions only a little later, and
\* an accepted close leaves the list a little later.
Deal == {"none", "accepted", "open", "closing", "closed"}
Listed(i) == deal[i] \in {"open", "closing"}
Confirmation == {"none", "ACCEPTED", "REJECTED"}

TypeOK ==
    /\ book \in [Intent -> Record \union {NoRecord}]
    /\ op \in [Actor -> Operation]
    /\ orders \in [Intent -> 0..MaxRequests]
    /\ closes \in [Intent -> 0..MaxRequests]
    /\ deal \in [Intent -> Deal]
    /\ confirms \in [Intent -> [order : Confirmation, close : Confirmation]]

Init ==
    /\ book = [i \in Intent |-> NoRecord]
    /\ op = [a \in Actor |-> Idle]
    /\ orders = [i \in Intent |-> 0]
    /\ closes = [i \in Intent |-> 0]
    /\ deal = [i \in Intent |-> "none"]
    /\ confirms = [i \in Intent |-> [order |-> "none", close |-> "none"]]

-----------------------------------------------------------------------------
(* Where an operation stands. *)

At(a, step) == op[a].step = step
Item(a) == op[a].intent
GoTo(a, step) == op' = [op EXCEPT ![a].step = step]
Finish(a) == op' = [op EXCEPT ![a] = Idle]
Begin(a, step, i) ==
    op' = [op EXCEPT ![a] = [Idle EXCEPT !.step = step, !.intent = i,
                                         !.read = book[i]]]

\* The operation will replace the record it read, and then go on.
Save(a, record, then) ==
    op' = [op EXCEPT ![a].step = "save", ![a].save = record, ![a].then = then]
SaveLife(a, life, then) == Save(a, [op[a].read EXCEPT !.life = life], then)

\* store.replace: nothing is compared with what the store holds by now.
Replace(a) ==
    /\ At(a, "save")
    /\ book' = [book EXCEPT ![Item(a)] = op[a].save]
    /\ IF op[a].then = "idle" THEN Finish(a)
       ELSE op' = [op EXCEPT ![a].step = op[a].then, ![a].read = op[a].save,
                             ![a].save = NoRecord, ![a].then = "idle",
                             ![a].attempt = 0]
    /\ UNCHANGED brokerVars

-----------------------------------------------------------------------------
(* submit. *)

\* _prepare: store.get.  A record that is past PREPARED is returned as it is.
BeginSubmit(a, i) ==
    /\ At(a, "idle")
    /\ \/ book[i] = NoRecord /\ Begin(a, "cycle", i)
       \/ book[i].life = "PREPARED" /\ Begin(a, "mark", i)
    /\ UNCHANGED <<book, brokerVars>>

CycleTaken(i) ==
    \E j \in Intent \ {i} : CycleOf[j] = CycleOf[i] /\ book[j] # NoRecord

CheckCycle(a) ==
    /\ At(a, "cycle")
    /\ IF CycleTaken(Item(a)) THEN Finish(a) ELSE GoTo(a, "put")
    /\ UNCHANGED <<book, brokerVars>>

Put(a) ==
    /\ At(a, "put")
    /\ IF book[Item(a)] = NoRecord
       THEN /\ book' = [book EXCEPT ![Item(a)] = Prepared]
            /\ op' = [op EXCEPT ![a].step = "mark", ![a].read = Prepared]
       ELSE /\ IF book[Item(a)].life = "PREPARED"
               THEN op' = [op EXCEPT ![a].step = "mark",
                                     ![a].read = book[Item(a)]]
               ELSE Finish(a)
            /\ UNCHANGED book
    /\ UNCHANGED brokerVars

\* Mutant: the order goes out before the record says so.
CreateUnmarked(a) ==
    /\ At(a, "mark")
    /\ GoTo(a, "create")
    /\ UNCHANGED <<book, brokerVars>>

MarkSubmitting(a) ==
    /\ At(a, "mark")
    /\ SaveLife(a, "SUBMITTING", "create")
    /\ UNCHANGED <<book, brokerVars>>

\* A request reaches the broker.
Delivered(count, i) ==
    /\ count[i] < MaxRequests
    /\ count' = [count EXCEPT ![i] = @ + 1]

\* HTTPClient._request: a send that times out is repeated.
CanRetry(a) == op[a].attempt + 1 < Attempts
Retry(a) == op' = [op EXCEPT ![a].attempt = @ + 1]

\* The reply comes, about this order or another; or it is lost or an error.
Create(a) ==
    /\ At(a, "create")
    /\ \/ /\ Delivered(orders, Item(a))
          /\ \E life \in {"SUBMITTED", "FAILED_SAFE"} : SaveLife(a, life, "idle")
       \/ /\ Delivered(orders, Item(a)) \/ UNCHANGED orders
          /\ \/ CanRetry(a) /\ Retry(a)
             \/ SaveLife(a, "AMBIGUOUS", "idle")
    /\ UNCHANGED <<book, closes, deal, confirms>>

-----------------------------------------------------------------------------
(* reconcile_open. *)

\* Mutant: an ambiguous record is not taken up again.
BeginReconcileKnown(a, i) ==
    /\ At(a, "idle")
    /\ book[i].life \in {"SUBMITTED", "CONFIRMED_ACCEPTED"}
    /\ Begin(a, "confirm_open", i)
    /\ UNCHANGED <<book, brokerVars>>

BeginReconcileOpen(a, i) ==
    /\ At(a, "idle")
    /\ book[i].life \in {"SUBMITTED", "AMBIGUOUS", "CONFIRMED_ACCEPTED"}
    /\ Begin(a, "confirm_open", i)
    /\ UNCHANGED <<book, brokerVars>>

\* No answer or nothing to confirm yet; a rejection; an acceptance, of this
\* order or of something else.
ConfirmOpen(a) ==
    /\ At(a, "confirm_open")
    /\ \/ SaveLife(a, "AMBIGUOUS", "idle")
       \/ /\ confirms[Item(a)].order = "REJECTED"
          /\ SaveLife(a, "CONFIRMED_REJECTED", "idle")
       \/ /\ confirms[Item(a)].order = "ACCEPTED"
          /\ \/ SaveLife(a, "CONFIRMED_ACCEPTED", "list_open")
             \/ SaveLife(a, "FAILED_SAFE", "idle")
    /\ UNCHANGED <<book, brokerVars>>

\* Mutant: an accepted confirmation is enough.
ListOpenUnseen(a) ==
    /\ At(a, "list_open")
    /\ Save(a, [op[a].read EXCEPT !.life = "OPEN_RECONCILED",
                                  !.position = TRUE], "idle")
    /\ UNCHANGED <<book, brokerVars>>

ListOpen(a) ==
    /\ At(a, "list_open")
    /\ \/ SaveLife(a, "AMBIGUOUS", "idle")
       \/ /\ Listed(Item(a))
          /\ Save(a, [op[a].read EXCEPT !.life = "OPEN_RECONCILED",
                                        !.position = TRUE], "idle")
       \/ ~Listed(Item(a)) /\ SaveLife(a, "FAILED_SAFE", "idle")
    /\ UNCHANGED <<book, brokerVars>>

-----------------------------------------------------------------------------
(* close_all_demo_positions, request_close and reconcile_close. *)

BeginFlatten(a) ==
    /\ At(a, "idle")
    /\ \E i \in Intent : Listed(i)
    /\ op' = [op EXCEPT ![a] = [Idle EXCEPT !.step = "own",
                                            !.todo = {i \in Intent : Listed(i)}]]
    /\ UNCHANGED <<book, brokerVars>>

Closable(i) == book[i].life = "OPEN_RECONCILED" /\ book[i].position

\* Every listed position must belong to a reconciled record.
CheckOwnership(a) ==
    /\ At(a, "own")
    /\ IF \A i \in op[a].todo : Closable(i)
       THEN GoTo(a, "next_close") ELSE Finish(a)
    /\ UNCHANGED <<book, brokerVars>>

\* request_close reads the record again; a close that another process has
\* requested meanwhile is only awaited.
NextClose(a, i) ==
    /\ At(a, "next_close")
    /\ i \in op[a].todo
    /\ LET Take(step) ==
               op' = [op EXCEPT ![a] = [Idle EXCEPT
                        !.step = step, !.intent = i, !.read = book[i],
                        !.todo = op[a].todo \ {i}]]
       IN  CASE Closable(i) -> Take("close")
             [] book[i].life = "CLOSE_REQUESTED" -> Take("await_close")
             [] OTHER -> Finish(a)
    /\ UNCHANGED <<book, brokerVars>>

Close(a) ==
    /\ At(a, "close")
    /\ \/ /\ Delivered(closes, Item(a))
          /\ \/ Save(a, [op[a].read EXCEPT !.life = "CLOSE_REQUESTED",
                                           !.closing = TRUE], "await_close")
             \/ SaveLife(a, "FAILED_SAFE", "idle")
       \/ /\ Delivered(closes, Item(a)) \/ UNCHANGED closes
          /\ \/ CanRetry(a) /\ Retry(a)
             \/ SaveLife(a, "AMBIGUOUS", "idle")
    /\ UNCHANGED <<book, orders, deal, confirms>>

AwaitsClose(i) ==
    book[i].life = "CLOSE_REQUESTED" /\ book[i].position /\ book[i].closing
NextOrIdle(a) == IF op[a].todo = {} THEN "idle" ELSE "next_close"

\* reconcile_close within close_all: any end but CLOSED_RECONCILED stops it.
AwaitClose(a) ==
    /\ At(a, "await_close")
    /\ IF AwaitsClose(Item(a))
       THEN op' = [op EXCEPT ![a].step = "confirm_close",
                             ![a].read = book[Item(a)]]
       ELSE IF book[Item(a)].life = "CLOSED_RECONCILED" /\ op[a].todo # {}
       THEN GoTo(a, "next_close")
       ELSE Finish(a)
    /\ UNCHANGED <<book, brokerVars>>

BeginReconcileClose(a, i) ==
    /\ At(a, "idle")
    /\ AwaitsClose(i)
    /\ Begin(a, "confirm_close", i)
    /\ UNCHANGED <<book, brokerVars>>

\* The confirmation of the close, as ConfirmOpen, but nothing is saved yet.
ConfirmClose(a) ==
    /\ At(a, "confirm_close")
    /\ \/ SaveLife(a, "AMBIGUOUS", "idle")
       \/ /\ confirms[Item(a)].close # "none"
          /\ SaveLife(a, "FAILED_SAFE", "idle")
       \/ /\ confirms[Item(a)].close = "ACCEPTED"
          /\ GoTo(a, "list_close")
    /\ UNCHANGED <<book, brokerVars>>

\* Mutant: the position snapshot is not consulted.
ListCloseUnseen(a) ==
    /\ At(a, "list_close")
    /\ SaveLife(a, "CLOSED_RECONCILED", NextOrIdle(a))
    /\ UNCHANGED <<book, brokerVars>>

ListClose(a) ==
    /\ At(a, "list_close")
    /\ \/ SaveLife(a, "AMBIGUOUS", "idle")
       \/ Listed(Item(a)) /\ SaveLife(a, "FAILED_SAFE", "idle")
       \/ /\ ~Listed(Item(a))
          /\ SaveLife(a, "CLOSED_RECONCILED", NextOrIdle(a))
    /\ UNCHANGED <<book, brokerVars>>

-----------------------------------------------------------------------------
(* The broker: what arrives is decided later, and a stop or limit of the    *)
(* order may close the deal at any time.                                    *)

DecideOrder(i) ==
    /\ orders[i] > 0 /\ confirms[i].order = "none"
    /\ \/ /\ deal' = [deal EXCEPT ![i] = "accepted"]
          /\ confirms' = [confirms EXCEPT ![i].order = "ACCEPTED"]
       \/ /\ confirms' = [confirms EXCEPT ![i].order = "REJECTED"]
          /\ UNCHANGED deal
    /\ UNCHANGED <<book, op, orders, closes>>

DecideClose(i) ==
    /\ closes[i] > 0 /\ confirms[i].close = "none"
    /\ \/ /\ deal[i] = "open"
          /\ deal' = [deal EXCEPT ![i] = "closing"]
          /\ confirms' = [confirms EXCEPT ![i].close = "ACCEPTED"]
       \/ /\ deal[i] \in {"open", "closed"}
          /\ confirms' = [confirms EXCEPT ![i].close = "REJECTED"]
          /\ UNCHANGED deal
    /\ UNCHANGED <<book, op, orders, closes>>

ListDeal(i) ==
    /\ \/ deal[i] = "accepted" /\ deal' = [deal EXCEPT ![i] = "open"]
       \/ deal[i] = "closing" /\ deal' = [deal EXCEPT ![i] = "closed"]
    /\ UNCHANGED <<book, op, orders, closes, confirms>>

StopOut(i) ==
    /\ deal[i] = "open"
    /\ deal' = [deal EXCEPT ![i] = "closed"]
    /\ UNCHANGED <<book, op, orders, closes, confirms>>

-----------------------------------------------------------------------------

\* The process dies, a store call raises or the authority gate refuses; the
\* next poll or command, of this process or of one started anew, comes later.
Abandon(a) ==
    /\ ~At(a, "idle") /\ ~At(a, "down")
    /\ op' = [op EXCEPT ![a] = Down]
    /\ UNCHANGED <<book, brokerVars>>
Restart(a) ==
    /\ At(a, "down")
    /\ Finish(a)
    /\ UNCHANGED <<book, brokerVars>>

Submit(a) ==
    \/ \E i \in Intent : BeginSubmit(a, i)
    \/ CheckCycle(a) \/ Put(a) \/ MarkSubmitting(a) \/ Create(a)
ReconcileOpen(a) ==
    \/ \E i \in Intent : BeginReconcileOpen(a, i)
    \/ ConfirmOpen(a) \/ ListOpen(a)
CloseAll(a) ==
    \/ BeginFlatten(a) \/ CheckOwnership(a)
    \/ \E i \in Intent : NextClose(a, i)
    \/ Close(a) \/ AwaitClose(a)
ReconcileClose(a) ==
    \/ \E i \in Intent : BeginReconcileClose(a, i)
    \/ ConfirmClose(a) \/ ListClose(a)
Broker(i) == DecideOrder(i) \/ DecideClose(i) \/ ListDeal(i) \/ StopOut(i)

Next ==
    \/ \E a \in Actor :
        \/ ReconcileOpen(a) \/ ReconcileClose(a) \/ Replace(a)
        \/ Abandon(a) \/ Restart(a)
    \/ \E a \in Worker : Submit(a)
    \/ \E a \in Console : CloseAll(a)
    \/ \E i \in Intent : Broker(i)

Spec == Init /\ [][Next]_vars

\* The worker goes on with what it has begun, polls for ever, takes up every
\* incomplete record, and is restarted when it dies; it dies finitely often,
\* and a read that is made again and again is answered.  The broker decides
\* and lists what it got.
Continue(a) ==
    \/ CheckCycle(a) \/ Put(a) \/ MarkSubmitting(a) \/ Create(a)
    \/ ConfirmOpen(a) \/ ListOpen(a) \/ ConfirmClose(a) \/ ListClose(a)
    \/ Replace(a) \/ Restart(a)
Answered(a) == op'[a].step # "save" \/ op'[a].save.life # "AMBIGUOUS"
WorkerFairness(a) ==
    /\ \A i \in Intent : SF_vars(BeginReconcileOpen(a, i))
                       /\ SF_vars(BeginReconcileClose(a, i))
    /\ WF_vars(Continue(a))
    /\ SF_vars(ConfirmOpen(a) /\ Answered(a))
    /\ SF_vars(ListOpen(a) /\ Answered(a))
    /\ <>[][~Abandon(a)]_vars
FairSpec ==
    /\ Spec
    /\ \A a \in Worker : WorkerFairness(a)
    /\ \A i \in Intent : WF_vars(DecideOrder(i)) /\ WF_vars(ListDeal(i))

-----------------------------------------------------------------------------
(* Safety. *)

\* However often the processes restart, lose replies and are asked to submit
\* again, the broker gets at most one order for an intent.
OrderIsSentOnce == \A i \in Intent : orders[i] <= 1

\* An order can reach the broker only after the record says it was tried, so
\* that no restart takes it for one that was never sent.
OrderIsOnRecord ==
    \A i \in Intent : orders[i] > 0 => book[i].life \notin {"none", "PREPARED"}

\* A position is on record, and a close is sent, only for a deal that was
\* really opened, although its confirmation, its listing and its record
\* change at three different times and places.
OpenWasListed ==
    \A i \in Intent :
        book[i].position \/ closes[i] > 0 =>
            deal[i] \in {"open", "closing", "closed"}

\* A position that is on record as closed is gone from the broker.
ClosedIsGone ==
    \A i \in Intent : book[i].life = "CLOSED_RECONCILED" => deal[i] = "closed"

\* What the store says of a position the broker has done before, whichever
\* process wrote it last and however old the record was that it replaced.
RecordFollowsBroker == OpenWasListed /\ ClosedIsGone

-----------------------------------------------------------------------------
(* Liveness. *)

\* A record whose order the broker received gets the broker's word, however
\* many replies are lost before: it does not stay ambiguous or half confirmed
\* for ever.  (An order that was lost on its way has nothing to confirm; its
\* record is polled as AMBIGUOUS for ever.)
Waiting(i) == book[i].life \in Incomplete /\ orders[i] > 0
IncompleteIsResolved ==
    \A i \in Intent : Waiting(i) ~> book[i].life \notin Incomplete

=============================================================================
