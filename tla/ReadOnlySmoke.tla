--------------------------- MODULE ReadOnlySmoke ---------------------------
(***************************************************************************)
(* The bounded read-only smoke (shadow01/live_readonly_smoke.py) over the  *)
(* session it opens (shadow01/read_only_broker.py, local_demo_read_only.py,*)
(* session.py) and over the quote stream of PriceStream.                   *)
(*                                                                         *)
(* The smoke is one thread with a fixed order of phases and one finally    *)
(* block.  Beside it run the stream's callbacks and the clock, which ends  *)
(* the session's tokens at any time.  In the phase "off" no smoke runs and *)
(* the bridge's operations are called in any order (as its tests and the   *)
(* contract probe do).                                                     *)
(***************************************************************************)
EXTENDS PriceStream

CONSTANTS
    Representatives,    \* _DQ03_REPRESENTATIVES
    MaxLogins           \* bound: sessions opened at the broker

ASSUME RepresentativesAssumption ==
    Representatives \subseteq Epics /\ Representatives # {} /\ Representatives # Epics

ASSUME LoginsAssumption == MaxLogins \in Nat

VARIABLES
    phase,      \* where the smoke is
    todo,       \* documents the phase has still to read, or items without a quote
    rest,       \* the session, the allowance and the budget
    report      \* what the smoke has found so far

smokeVars == <<phase, todo, rest, report>>
vars == <<streamVars, smokeVars>>

Phases == {"off", "preflight", "auth", "account", "markets", "history",
           "connect", "subscribe", "collect", "reconnect", "recollect",
           "cleanup", "clock", "finally", "logout", "done"}

TypeOK ==
    /\ StreamTypeOK
    /\ phase \in Phases
    /\ todo \in SUBSET Epics
    /\ rest \in [session : {"none", "open", "expired"}, exhausted : BOOLEAN,
                 left : [{"market", "history"} -> Nat],
                 logins : 0 .. MaxLogins]
    /\ report \in [broker : BOOLEAN, bridge : BOOLEAN, blocked : BOOLEAN,
                   stream : {"not_run", "unavailable", "error", "ok"}, valid : SUBSET Epics,
                   disconnect : {"NOT_REQUIRED", "PASS", "FAILED", "ALREADY_DISCONNECTED"},
                   logout : {"NOT_REQUIRED", "LOGGED_OUT", "FAILED"},
                   status : {"none", "BLOCKED", "PASS"}]

\* Budgets that suffice and budgets that are one short.  The other requests are
\* made once.
Budgets == [market : {Cardinality(Epics) - 1, Cardinality(Epics)},
            history : {Cardinality(Representatives) - 1, Cardinality(Representatives)}]

Init ==
    /\ StreamInit
    /\ phase \in {"off", "preflight"}
    /\ todo = {}
    /\ \E budget \in Budgets :
           rest = [session |-> "none", exhausted |-> FALSE, logins |-> 0, left |-> budget]
    /\ report = [broker |-> FALSE, bridge |-> FALSE, blocked |-> FALSE,
                 stream |-> "not_run", valid |-> {}, disconnect |-> "NOT_REQUIRED",
                 logout |-> "NOT_REQUIRED", status |-> "none"]

Go(p, items) == phase' = p /\ todo' = items

\* An error leaves the sequence for the finally block.
Block ==
    /\ Go("finally", {})
    /\ report' = [report EXCEPT !.blocked = TRUE]

-----------------------------------------------------------------------------
(* One read over the session.                                              *)

\* _request reserves before it asks.  The transport logs in when the tokens are
\* not there or have expired, outside the budget, and proves the account before
\* and after.  An error may come before or after that login.
Request(answer, left) ==
    \E session \in {"open", rest.session} :
        LET login == IF session = rest.session THEN 0 ELSE 1 IN
        /\ answer = "document" => session = "open"
        /\ rest.logins + login <= MaxLogins
        /\ rest' = [session |-> session, exhausted |-> answer = "allowance",
                    logins |-> rest.logins + login, left |-> left]

Answers == {"document", "refused", "allowance"}

\* ShadowSmokeRequestBudget.reserve.
Read(category, answer) ==
    /\ rest.left[category] > 0
    /\ Request(answer, [rest.left EXCEPT ![category] = @ - 1])

OverBudget(category) ==
    /\ rest.left[category] = 0
    /\ UNCHANGED rest

-----------------------------------------------------------------------------
(* The phases.                                                             *)

\* Authorisation, configuration, registry, database and factories.
Preflight ==
    /\ phase = "preflight"
    /\ \/ Go("auth", {}) /\ report' = [report EXCEPT !.broker = TRUE]
       \/ Block
    /\ UNCHANGED <<streamVars, rest>>

Authenticate ==
    /\ phase = "auth"
    /\ \E answer \in Answers :
           /\ Request(answer, rest.left)
           /\ IF answer = "document" THEN Go("account", {}) /\ UNCHANGED report ELSE Block
    /\ UNCHANGED streamVars

\* read_account, its validation, and the hand-over to the bridge, which needs the
\* session once more.
ReadAccount ==
    /\ phase = "account"
    /\ \E answer \in Answers :
           /\ Request(answer, rest.left)
           /\ \/ /\ answer = "document"
                 /\ Go("markets", Epics)
                 /\ report' = [report EXCEPT !.bridge = TRUE]
              \/ Block
    /\ UNCHANGED streamVars

\* _read_all_dq03_markets: an unreadable market is recorded and the next one is
\* read; with one missing the smoke is blocked after the last.
ReadMarket(e) ==
    /\ phase = "markets"
    /\ e \in todo
    /\ \/ OverBudget("market") /\ Block
       \/ \E answer \in Answers :
              /\ Read("market", answer)
              /\ IF answer = "allowance" \/ (todo = {e} /\ (report.blocked \/ answer = "refused"))
                 THEN Block
                 ELSE /\ IF todo = {e} THEN Go("history", Representatives)
                                       ELSE Go("markets", todo \ {e})
                      /\ report' = [report EXCEPT !.blocked = @ \/ answer = "refused"]
    /\ UNCHANGED streamVars

\* _prefetch_representative_history, then the warm-up over the cached documents.
ReadHistory(e) ==
    /\ phase = "history"
    /\ e \in todo
    /\ \/ OverBudget("history") /\ Block
       \/ \E answer \in Answers :
              /\ Read("history", answer)
              /\ IF answer # "document"
                 THEN Block
                 ELSE /\ IF todo = {e} THEN Go("connect", {}) ELSE Go("history", todo \ {e})
                      /\ UNCHANGED report
    /\ UNCHANGED streamVars

\* The result of an operation of the bridge that just returned to the smoke.
StreamError == report' = [report EXCEPT !.stream = "error"]

\* _exercise_stream: without streaming prices for every item nothing is opened.
ConnectStream ==
    /\ phase = "connect"
    /\ call = Idle
    /\ \/ Go("cleanup", {}) /\ report' = [report EXCEPT !.stream = "unavailable"]
          /\ UNCHANGED streamVars
       \/ Go("subscribe", {}) /\ Connect /\ UNCHANGED report
    /\ UNCHANGED rest

SubscribeStream ==
    /\ phase = "subscribe"
    /\ call = Idle
    /\ IF outcome = "ok"
       THEN Go("collect", Epics) /\ Subscribe(Epics) /\ UNCHANGED report
       ELSE Go("cleanup", {}) /\ StreamError /\ UNCHANGED streamVars
    /\ UNCHANGED rest

\* _collect_stream_quotes: one quote after another until every item has a valid
\* one, the deadline has passed or the stream fails.  A rejected quote in the
\* first collection is an error that later valid ones do not take back.
Collecting == phase \in {"collect", "recollect"} /\ call = Idle

CollectQuote ==
    /\ Collecting
    /\ bridge.connected
    /\ todo # {}
    /\ Receive \/ ReceiveFails
    /\ IF outcome' = "quote"
       THEN \E quality \in {"VALID_QUOTE", "REJECTED"} :
              LET e == Head(NextUpdates).epic
                  useful == IF quality = "VALID_QUOTE" THEN {e} ELSE {} IN
              /\ Go(phase, todo \ useful)
              /\ report' = IF phase = "collect"
                           THEN [report EXCEPT !.valid = @ \cup useful,
                                    !.stream = IF quality = "REJECTED" THEN "error" ELSE @]
                           ELSE report
       ELSE Go("cleanup", {}) /\ StreamError
    /\ UNCHANGED rest

\* subscribe_prices failed, or the deadline has passed with quotes missing.
CollectEnds ==
    /\ Collecting
    /\ todo # {}
    /\ Go("cleanup", {})
    /\ StreamError
    /\ UNCHANGED <<streamVars, rest>>

CollectSucceeds ==
    /\ Collecting
    /\ todo = {}
    /\ CASE phase = "recollect" -> Go("cleanup", {}) /\ report' = [report EXCEPT !.stream = "ok"]
         [] phase = "collect" /\ report.stream = "error" -> Go("cleanup", {}) /\ UNCHANGED report
         [] OTHER -> Go("reconnect", {}) /\ UNCHANGED report
    /\ UNCHANGED <<streamVars, rest>>

ReconnectStream ==
    /\ phase = "reconnect"
    /\ Representative(Representatives)
    /\ Go("recollect", Representatives)
    /\ UNCHANGED <<rest, report>>

\* _cleanup_stream: unsubscribe what is left, then disconnect.  It runs once in
\* the sequence and, for a bridge that is still held, in the finally block.
CleanupUnsubscribes ==
    /\ phase \in {"cleanup", "finally"}
    /\ report.bridge
    /\ todo = {}
    /\ Unsubscribe(bridge.subs)
    /\ Go(phase, Epics)      \* asked once
    /\ UNCHANGED <<rest, report>>

CleanupDisconnects ==
    /\ phase \in {"cleanup", "finally"}
    /\ report.bridge
    /\ call = Idle
    /\ bridge.connected => (bridge.subs = {} \/ todo # {})
    /\ \E result \in {"ok", "failed"} :
           /\ IF bridge.connected THEN Disconnect(result)
                                  ELSE result = "ok" /\ UNCHANGED streamVars
           /\ LET verdict ==
                    IF bridge.connected THEN (IF result = "ok" THEN "PASS" ELSE "FAILED")
                    ELSE IF report.stream \in {"error", "ok"} /\ report.disconnect = "NOT_REQUIRED"
                    THEN "ALREADY_DISCONNECTED" ELSE report.disconnect
                  failed == phase = "cleanup" /\ verdict = "FAILED" IN
              /\ report' = [report EXCEPT !.disconnect = verdict,
                                          !.blocked = @ \/ failed,
                                          !.bridge = failed]
              /\ IF phase = "cleanup" /\ ~failed THEN Go("clock", {})
                 ELSE Go(IF failed THEN "finally" ELSE "logout", {})
    /\ UNCHANGED rest

\* The clock diagnostic and the dry snapshot: cached documents and the quotes.
CheckClock ==
    /\ phase = "clock"
    /\ \/ Go("finally", {}) /\ UNCHANGED report
       \/ Block
    /\ UNCHANGED <<streamVars, rest>>

\* Mutant: the finally block takes a bridge for granted.
NoBridgeMissing == FALSE

NoBridge ==
    /\ phase = "finally"
    /\ ~report.bridge
    /\ Go("logout", {})
    /\ UNCHANGED <<streamVars, rest, report>>

\* Mutant: a blocked smoke returns without the logout.
LogoutUnlessBlocked ==
    /\ phase = "logout"
    /\ Go("done", {})
    /\ \E completed \in BOOLEAN, unchanged \in BOOLEAN :
           /\ completed => (report.broker /\ ~report.blocked) /\ rest.session = "open"
           /\ rest' = IF (report.broker /\ ~report.blocked)
                      THEN [rest EXCEPT !.session = IF completed THEN "none" ELSE @]
                      ELSE rest
           /\ LET left == IF ~(report.broker /\ ~report.blocked) THEN "NOT_REQUIRED"
                          ELSE IF completed THEN "LOGGED_OUT" ELSE "FAILED" IN
              report' = [report EXCEPT !.logout = left, !.status =
                  \* _final_status; unchanged: the database is what it was
                  IF /\ unchanged /\ ~report.blocked
                     /\ left # "FAILED" /\ report.disconnect # "FAILED"
                     /\ report.stream \in {"not_run", "ok"}
                     /\ report.valid = Epics
                  THEN "PASS" ELSE "BLOCKED"]
    /\ UNCHANGED streamVars

\* Mutant: the verdict does not look at the logout.
LogoutNotJudged ==
    /\ phase = "logout"
    /\ Go("done", {})
    /\ \E completed \in BOOLEAN, unchanged \in BOOLEAN :
           /\ completed => report.broker /\ rest.session = "open"
           /\ rest' = IF report.broker
                      THEN [rest EXCEPT !.session = IF completed THEN "none" ELSE @]
                      ELSE rest
           /\ LET left == IF ~report.broker THEN "NOT_REQUIRED"
                          ELSE IF completed THEN "LOGGED_OUT" ELSE "FAILED" IN
              report' = [report EXCEPT !.logout = left, !.status =
                  \* _final_status; unchanged: the database is what it was
                  IF /\ unchanged /\ ~report.blocked
                     /\ report.disconnect # "FAILED"
                     /\ report.stream \in {"not_run", "ok"}
                     /\ report.valid = Epics
                  THEN "PASS" ELSE "BLOCKED"]
    /\ UNCHANGED streamVars

\* The only request after the allowance is spent.  It needs tokens that still
\* count: it never logs in.
Logout ==
    /\ phase = "logout"
    /\ Go("done", {})
    /\ \E completed \in BOOLEAN, unchanged \in BOOLEAN :
           /\ completed => report.broker /\ rest.session = "open"
           /\ rest' = IF report.broker
                      THEN [rest EXCEPT !.session = IF completed THEN "none" ELSE @]
                      ELSE rest
           /\ LET left == IF ~report.broker THEN "NOT_REQUIRED"
                          ELSE IF completed THEN "LOGGED_OUT" ELSE "FAILED" IN
              report' = [report EXCEPT !.logout = left, !.status =
                  \* _final_status; unchanged: the database is what it was
                  IF /\ unchanged /\ ~report.blocked
                     /\ left # "FAILED" /\ report.disconnect # "FAILED"
                     /\ report.stream \in {"not_run", "ok"}
                     /\ report.valid = Epics
                  THEN "PASS" ELSE "BLOCKED"]
    /\ UNCHANGED streamVars

SmokeSteps ==
    \/ Preflight
    \/ Authenticate
    \/ ReadAccount
    \/ \E e \in Epics : ReadMarket(e) \/ ReadHistory(e)
    \/ ConnectStream
    \/ SubscribeStream
    \/ CollectQuote
    \/ CollectEnds
    \/ CollectSucceeds
    \/ ReconnectStream
    \/ CleanupUnsubscribes
    \/ CleanupDisconnects
    \/ CheckClock
    \/ NoBridge
    \/ Logout

\* The tokens' lifetime passes.
Expire ==
    /\ rest.session = "open"
    /\ phase # "done"
    /\ rest' = [rest EXCEPT !.session = "expired"]
    /\ UNCHANGED <<streamVars, phase, todo, report>>

\* No smoke: any operation of the bridge.
AnyCaller ==
    /\ phase = "off"
    /\ \/ Connect
       \/ \E items \in SUBSET Epics :
              Subscribe(items) \/ Unsubscribe(items) \/ Representative(items)
       \/ Receive
       \/ ReceiveFails
       \/ Restore
       \/ \E result \in {"ok", "failed"} : Disconnect(result)
    /\ UNCHANGED smokeVars

Next ==
    \/ SmokeSteps
    \/ AnyCaller
    \/ (CallerSteps \/ ListenerSteps) /\ UNCHANGED smokeVars
    \/ Expire

Spec == Init /\ [][Next]_vars

\* The smoke's own thread goes on.
FairSpec == Spec /\ WF_vars(SmokeSteps \/ (CallerSteps /\ UNCHANGED smokeVars))

-----------------------------------------------------------------------------
(* Properties.                                                             *)

\* However the smoke ends, no stream client is open, and no session either,
\* unless the report says that the logout failed (live_readonly_smoke.py:848).
NothingIsLeftOpen ==
    phase = "done" =>
        /\ client = NoClient
        /\ (rest.session = "none" \/ report.logout = "FAILED")

\* A smoke that passes has had a valid quote of every item, has reconnected, has
\* spent no allowance, and has closed its stream and its session
\* (live_readonly_smoke.py:1739).
PassIsEarned ==
    report.status = "PASS" =>
        /\ report.valid = Epics
        /\ report.stream = "ok"
        /\ report.disconnect \in {"PASS", "ALREADY_DISCONNECTED"}
        /\ report.logout = "LOGGED_OUT"
        /\ rest.session = "none"
        /\ ~rest.exhausted

\* However a smoke ends, what it leaves behind and what it reports of it agree
\* (live_readonly_smoke.py:847).
EndIsClean == NothingIsLeftOpen /\ PassIsEarned

\* A smoke ends, whatever the stream and the broker answer.
SmokeEnds == (phase = "preflight") ~> (phase = "done")
=============================================================================
