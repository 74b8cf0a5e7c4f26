---------------------------- MODULE PriceStream ----------------------------
(***************************************************************************)
(* The quote stream of the shadow tournament, in its three layers: the     *)
(* bridge (shadow01/stream_bridge.py), the session-bound transport and the *)
(* queueing client (shadow01/local_demo_stream_transport.py).              *)
(*                                                                         *)
(* Two threads run: the caller's, which is inside at most one operation of *)
(* the bridge, and Lightstreamer's, whose callbacks take the client's lock *)
(* between any two steps of that operation.  A step is what the caller's   *)
(* thread does between two points where it lets the lock go.               *)
(*                                                                         *)
(* Prices are left out: an update is its item and its number among the     *)
(* callbacks of the item's subscription.                                   *)
(***************************************************************************)
EXTENDS Naturals, Sequences, FiniteSets

CONSTANTS
    Epics,                  \* the registry's verified items
    MaxPending,             \* _MAX_PENDING_UPDATES
    MaxReconnectAttempts,   \* max_reconnect_attempts of the bridge
    NoClient,               \* the transport holds no client
    UpdateBound             \* bound: callbacks of one subscription

ASSUME EpicsAssumption == IsFiniteSet(Epics)
ASSUME PendingAssumption == MaxPending \in Nat \ {0}
ASSUME AttemptsAssumption == MaxReconnectAttempts \in Nat
ASSUME BoundAssumption == UpdateBound \in Nat

VARIABLES
    bridge,     \* _connected, _subscribed_epics, _reconnect_required, attempts left
    link,       \* the transport's _connected and _subscribed_epics
    client,     \* the transport's client: flags, subscriptions and the queue
    call,       \* where the caller's thread is
    outcome,    \* how the last operation of the bridge ended
    sent,       \* history: callbacks of each item's subscription
    got         \* history: number of the last update delivered of each item

streamVars == <<bridge, link, client, call, outcome, sent, got>>

Updates == [epic : Epics, n : Nat]

Clients == [connected : BOOLEAN, lost : BOOLEAN, overflowed : BOOLEAN,
            subs : SUBSET Epics, updates : Seq(Updates)]

ASSUME NoClientAssumption == NoClient \notin Clients

Operations == {"connect", "subscribe", "unsubscribe", "restore", "representative"}

Idle == [op |-> "none", step |-> "idle", items |-> {}, todo |-> {}]

Calls == [op : Operations, step : {"connecting", "subscribing", "unsubscribing", "retrying"},
          items : SUBSET Epics, todo : SUBSET Epics] \cup {Idle}

StreamTypeOK ==
    /\ bridge \in [connected : BOOLEAN, subs : SUBSET Epics,
                   required : BOOLEAN, left : 0 .. MaxReconnectAttempts]
    /\ link \in [connected : BOOLEAN, subs : SUBSET Epics]
    /\ client \in Clients \cup {NoClient}
    /\ call \in Calls
    /\ outcome \in {"none", "ok", "failed", "quote", "no_update", "exhausted"}
    /\ sent \in [Epics -> 0 .. UpdateBound]
    /\ got \in [Epics -> 0 .. UpdateBound]

Disconnected == [connected |-> FALSE, subs |-> {}]

FreshClient == [connected |-> FALSE, lost |-> FALSE, overflowed |-> FALSE,
                subs |-> {}, updates |-> <<>>]

None == [e \in Epics |-> 0]

StreamInit ==
    /\ bridge = [connected |-> FALSE, subs |-> {}, required |-> FALSE, left |-> 0]
    /\ link = Disconnected
    /\ client = NoClient
    /\ call = Idle
    /\ outcome = "none"
    /\ sent = None
    /\ got = None

-----------------------------------------------------------------------------
(* What the layers share.  The histories are of the transport's client.    *)

\* _mark_disconnected of the bridge.  The set stays, to be restored.
MarkDisconnected(b) ==
    [b EXCEPT !.connected = FALSE,
              !.required = b.subs # {},
              !.left = IF b.subs # {} THEN MaxReconnectAttempts ELSE 0]

\* The transport disconnects its client and forgets it.  Callbacks of a client
\* that nothing refers to change nothing anyone reads.
TearDown ==
    /\ link' = Disconnected
    /\ client' = NoClient
    /\ sent' = None
    /\ got' = None

\* A new client for every connection: nothing of an older one can reach it.
OpenClient ==
    /\ link' = Disconnected
    /\ client' = FreshClient
    /\ sent' = None
    /\ got' = None

\* The queued updates of some items, in their order.
Of(updates, items) ==
    LET kept[i \in 0 .. Len(updates)] ==
            IF i = 0 THEN <<>>
            ELSE IF updates[i].epic \in items THEN Append(kept[i - 1], updates[i])
            ELSE kept[i - 1]
    IN  kept[Len(updates)]

Available == client.connected /\ ~client.lost

Return(result) ==
    /\ call' = Idle
    /\ outcome' = result

\* Mutant: the transport leaves a failed client as it is.
StepFailsKeepsClient ==
    /\ UNCHANGED <<link, client>>
    /\ UNCHANGED <<sent, got>>
    /\ IF call.op = "restore"
       THEN /\ call' = [call EXCEPT !.step = "retrying", !.todo = {}]
            /\ UNCHANGED <<bridge, outcome>>
       ELSE /\ bridge' = MarkDisconnected(bridge)
            /\ Return("failed")

\* A call of the transport raised: it has torn its client down, and the bridge
\* is disconnected.  A restoration tries again.
StepFails ==
    /\ TearDown
    /\ IF call.op = "restore"
       THEN /\ call' = [call EXCEPT !.step = "retrying", !.todo = {}]
            /\ UNCHANGED <<bridge, outcome>>
       ELSE /\ bridge' = MarkDisconnected(bridge)
            /\ Return("failed")

-----------------------------------------------------------------------------
(* The caller's thread.                                                    *)

\* connect: only one connection at a time.  Callers of the repository connect
\* a bridge that has no subscriptions (see the README).
Connect ==
    /\ call = Idle
    /\ ~bridge.connected
    /\ bridge.subs = {}
    /\ OpenClient
    /\ call' = [op |-> "connect", step |-> "connecting", items |-> {}, todo |-> {}]
    /\ UNCHANGED <<bridge, outcome>>

\* client.connect returned; the listener may have reported the end already.
ConnectReturns ==
    /\ call.step = "connecting"
    /\ ~client.lost
    /\ client' = [client EXCEPT !.connected = TRUE]
    /\ link' = [link EXCEPT !.connected = TRUE]
    /\ IF call.op = "connect"
       THEN /\ bridge' = [bridge EXCEPT !.connected = TRUE]
            /\ Return("ok")
       ELSE /\ call' = [call EXCEPT !.step = "subscribing", !.todo = call.items]
            /\ UNCHANGED <<bridge, outcome>>
    /\ UNCHANGED <<sent, got>>

\* subscribe_prices of the bridge and the transport, up to the first item.
Subscribe(items) ==
    /\ call = Idle
    /\ bridge.connected
    /\ items # {}
    /\ bridge.subs = {}
    /\ call' = [op |-> "subscribe", step |-> "subscribing", items |-> items, todo |-> items]
    /\ UNCHANGED <<bridge, link, client, outcome, sent, got>>

\* One item: it is registered before the library is asked, for the first
\* callback may come at once.
SubscribeItem(e) ==
    /\ call.step = "subscribing"
    /\ e \in call.todo
    /\ Available
    /\ client' = [client EXCEPT !.subs = @ \cup {e}]
    /\ sent' = [sent EXCEPT ![e] = 0]
    /\ got' = [got EXCEPT ![e] = 0]
    /\ call' = [call EXCEPT !.todo = @ \ {e}]
    /\ UNCHANGED <<bridge, link, outcome>>

SubscribeReturns ==
    /\ call.step = "subscribing"
    /\ call.todo = {}
    /\ Available
    /\ link' = [link EXCEPT !.subs = call.items]
    /\ bridge' = IF call.op = "subscribe"
                 THEN [bridge EXCEPT !.subs = call.items]
                 ELSE [connected |-> TRUE, subs |-> call.items,
                       required |-> FALSE, left |-> 0]
    /\ Return("ok")
    /\ UNCHANGED <<client, sent, got>>

\* receive_price_update: the wait ends in the same test as the first look, so
\* one step stands for both.
NextUpdates == Of(client.updates, client.subs)

Receive ==
    /\ call = Idle
    /\ bridge.connected
    /\ bridge.subs # {}
    /\ ~client.overflowed /\ ~client.lost
    /\ IF NextUpdates = <<>>
       THEN /\ client' = [client EXCEPT !.updates = <<>>]
            /\ outcome' = "no_update"
            /\ UNCHANGED got
       ELSE /\ client' = [client EXCEPT !.updates = Tail(NextUpdates)]
            /\ got' = [got EXCEPT ![Head(NextUpdates).epic] = Head(NextUpdates).n]
            /\ outcome' = "quote"
    /\ UNCHANGED <<bridge, link, call, sent>>

ReceiveFails ==
    /\ call = Idle
    /\ bridge.connected
    /\ bridge.subs # {}
    /\ client.overflowed \/ client.lost
    /\ StepFails

\* unsubscribe_prices: the library is asked item by item.
Unsubscribe(items) ==
    /\ call = Idle
    /\ bridge.connected
    /\ items # {}
    /\ items \subseteq bridge.subs
    /\ call' = [op |-> "unsubscribe", step |-> "unsubscribing", items |-> items, todo |-> {}]
    /\ UNCHANGED <<bridge, link, client, outcome, sent, got>>

\* _remove_subscriptions: with the items go their queued updates.
Remove(items) ==
    [client EXCEPT !.subs = @ \ items,
                   !.updates = Of(@, Epics \ items)]

UnsubscribeReturns ==
    /\ call.step = "unsubscribing"
    /\ call.op = "unsubscribe"
    /\ Available
    /\ client' = Remove(call.items)
    /\ link' = [link EXCEPT !.subs = @ \ call.items]
    /\ bridge' = [bridge EXCEPT !.subs = @ \ call.items]
    /\ Return("ok")
    /\ UNCHANGED <<sent, got>>

\* disconnect: the bridge forgets everything, whether or not the library fails.
Disconnect(result) ==
    /\ call = Idle
    /\ result \in IF bridge.connected THEN {"ok", "failed"} ELSE {"ok"}
    /\ IF bridge.connected THEN TearDown ELSE UNCHANGED <<link, client, sent, got>>
    /\ bridge' = [connected |-> FALSE, subs |-> {}, required |-> FALSE, left |-> 0]
    /\ outcome' = result
    /\ UNCHANGED call

\* reconnect_and_restore: a bounded number of attempts to restore the set.
Restore ==
    /\ call = Idle
    /\ ~bridge.connected
    /\ bridge.required
    /\ bridge.subs # {}
    /\ call' = [op |-> "restore", step |-> "retrying", items |-> bridge.subs, todo |-> {}]
    /\ UNCHANGED <<bridge, link, client, outcome, sent, got>>

Attempt ==
    /\ call.step = "retrying"
    /\ bridge.left > 0
    /\ bridge' = [bridge EXCEPT !.left = @ - 1]
    /\ OpenClient
    /\ call' = [call EXCEPT !.step = "connecting"]
    /\ UNCHANGED outcome

Exhausted ==
    /\ call.step = "retrying"
    /\ bridge.left = 0
    /\ bridge' = [bridge EXCEPT !.required = FALSE]
    /\ Return("exhausted")
    /\ UNCHANGED <<link, client, sent, got>>

\* reconnect_representative_prices: one intended reconnection for fewer items.
Representative(items) ==
    /\ call = Idle
    /\ bridge.connected
    /\ items # {}
    /\ items \subseteq bridge.subs
    /\ items # bridge.subs
    /\ call' = [op |-> "representative", step |-> "unsubscribing",
                items |-> items, todo |-> {}]
    /\ UNCHANGED <<bridge, link, client, outcome, sent, got>>

\* Everything is unsubscribed, the client is disconnected and the next one is
\* opened.
RepresentativeReconnects ==
    /\ call.step = "unsubscribing"
    /\ call.op = "representative"
    /\ Available
    /\ OpenClient
    /\ bridge' = [bridge EXCEPT !.connected = FALSE]
    /\ call' = [call EXCEPT !.step = "connecting"]
    /\ UNCHANGED outcome

\* The library refuses a step, or the step finds that the stream has ended.
CallFails ==
    /\ call.step \in {"connecting", "subscribing", "unsubscribing"}
    /\ StepFails

CallerSteps ==
    \/ ConnectReturns
    \/ \E e \in Epics : SubscribeItem(e)
    \/ SubscribeReturns
    \/ UnsubscribeReturns
    \/ Attempt
    \/ Exhausted
    \/ RepresentativeReconnects
    \/ CallFails

-----------------------------------------------------------------------------
(* Lightstreamer's thread.                                                 *)

\* Mutant: a full queue forgets its oldest update.
QueuedDroppingOldest(u) ==
    IF client.overflowed \/ ~Available THEN client
    ELSE [client EXCEPT !.updates =
              Append(IF Len(@) >= MaxPending THEN Tail(@) ELSE @, u)]

\* _record_update_locked.  A full queue ends the stream; it never drops one.
Queued(u) ==
    IF client.overflowed \/ ~Available THEN client
    ELSE IF Len(client.updates) >= MaxPending
    THEN [client EXCEPT !.updates = <<>>, !.overflowed = TRUE, !.lost = TRUE]
    ELSE [client EXCEPT !.updates = Append(@, u)]

\* onItemUpdate of a registered item: record_item_update.
ItemUpdate(e) ==
    /\ client # NoClient
    /\ e \in client.subs
    /\ sent[e] < UpdateBound
    /\ sent' = [sent EXCEPT ![e] = @ + 1]
    /\ client' = Queued([epic |-> e, n |-> sent[e] + 1])
    /\ UNCHANGED <<bridge, link, call, outcome, got>>

\* onStatusChange and onServerError: mark_disconnected.
ConnectionLost ==
    /\ client # NoClient
    /\ ~client.lost
    /\ client' = [client EXCEPT !.connected = FALSE, !.lost = TRUE, !.updates = <<>>]
    /\ UNCHANGED <<bridge, link, call, outcome, sent, got>>

ListenerSteps ==
    \/ \E e \in Epics : ItemUpdate(e)
    \/ ConnectionLost

-----------------------------------------------------------------------------
(* Properties.                                                             *)

\* Between two operations the bridge's belief and the layers under it agree.  A
\* connected bridge has a client with exactly its subscriptions, so that no
\* guard of the transport refuses what the bridge lets through and no caller
\* waits on items nobody asked for (stream_bridge.py:247-331).  A bridge that is
\* not connected has left no client behind: cleanup skips such a bridge, and a
\* client it still had would stay open (stream_bridge.py:412,
\* local_demo_stream_transport.py:711).
LayersAgree ==
    call = Idle =>
        IF bridge.connected
        THEN /\ client # NoClient
             /\ link = [connected |-> TRUE, subs |-> bridge.subs]
             /\ client.subs = bridge.subs
        ELSE client = NoClient

\* Of every item, what is queued is all that came since the last update that
\* was delivered, in its order, unless the stream has been declared lost: no
\* update is dropped in silence (local_demo_stream_transport.py:842-845).
NothingIsDropped ==
    (client # NoClient /\ Available) =>
        \A e \in client.subs :
            Of(client.updates, {e})
                = [i \in 1 .. (sent[e] - got[e]) |-> [epic |-> e, n |-> got[e] + i]]

\* The caller and the library's thread agree on what the stream is and on what came
\* over it (stream_bridge.py:412, local_demo_stream_transport.py:842).
StreamIsFaithful == LayersAgree /\ NothingIsDropped
=============================================================================
