-------------------------- MODULE ReadOnlySession --------------------------
(***************************************************************************)
(* One read-only session at the broker, layer by layer, and the four       *)
(* one-shot probes that open one (shadow01/live_contract_probe.py,         *)
(* live_schedule_contract_probe.py, live_v2_schedule_contract_probe.py,    *)
(* bounded_final_clock_smoke.py).                                          *)
(*                                                                         *)
(* A request goes down through the broker (read_only_broker.py: logical    *)
(* counters), the transport (local_demo_read_only.py: identity before and  *)
(* after, physical limits), the session manager (session.py: logs in by    *)
(* itself when its tokens have expired) and the HTTP client                *)
(* (http_client.py: attempts).  Time passes between any two of them, so    *)
(* tokens that one layer has just checked may have expired for the next.   *)
(*                                                                         *)
(* What a document says is left out, up to what a probe asks of it.        *)
(***************************************************************************)
EXTENDS PriceStream, FiniteSetsExt

CONSTANTS
    ClockMarkets,   \* _REPRESENTATIVES of the final-clock smoke, in order
    HttpAttempts,   \* max_http_attempts of a factory without limits
    LoginBound      \* bound: sessions the broker opens

ASSUME ClockMarketsAssumption == ClockMarkets \in Seq(Epics) /\ Len(ClockMarkets) >= 2

ASSUME HttpAssumption == HttpAttempts \in 1 .. 3 /\ LoginBound \in Nat

\* The names of the routes that are no items.
ASSUME RoutesAssumption == Epics \cap {"login", "logout", "accounts", "prices"} = {}

VARIABLES
    probe,      \* which probe runs, where it is, and what it will report
    request,    \* the request under way and the layer it is in
    manager,    \* SessionManager: its tokens, their account and their session
    transport,  \* SessionManagerReadOnlyTransport: its counters and evidence
    broker,     \* Shadow01ReadOnlyBroker: logical counters
    wire        \* history: what was sent, under which account; open sessions

sessionVars == <<probe, request, manager, transport, broker, wire>>

Kinds == {"gate09", "gate12", "gate12xau", "gate13", "clock"}

\* (method, endpoint): what the limits of the transport count.
Routes == {"login", "logout", "accounts", "prices"} \cup Epics

\* What a document is worth to its reader.  Of hours: usable, absent, null or of
\* another shape; "odd" is a success other than 200.
Contents == {"usable", "absent", "null", "poor", "odd"}

\* ReadOnlyBrokerRequestCounters: what the broker counts of each kind of request.
Counters == {"auth", "internal", "account", "schedule", "history", "logout"}

Asked(path, version) == [path |-> path, version |-> version]

\* The reads of a probe after its login; "2" and "3" are the schedule's versions.
Reads(kind) ==
    CASE kind = "gate09" -> <<Asked("prices", "none")>>
      [] kind \in {"gate12", "gate12xau"} ->
            <<Asked(ClockMarkets[1], "3"), Asked(ClockMarkets[2], "3")>>
      [] kind = "gate13" -> <<Asked(ClockMarkets[1], "2")>>
      [] kind = "clock" ->
            <<Asked("accounts", "none")>>
                \o [i \in 1 .. Len(ClockMarkets) |-> Asked(ClockMarkets[i], "3")]

\* How the factory of each probe is built; 0 is no limit.
Limits(kind) ==
    CASE kind = "gate09" -> [attempts |-> HttpAttempts, total |-> 0, logins |-> 0, route |-> 0]
      [] kind = "gate12xau" -> [attempts |-> 1, total |-> 4, logins |-> 1, route |-> 1]
      [] kind = "clock" ->
            [attempts |-> 1, total |-> Len(ClockMarkets) + 3, logins |-> 1, route |-> 1]
      [] OTHER -> [attempts |-> 1, total |-> 3, logins |-> 1, route |-> 1]

Limit == Limits(probe.kind)

Quiet == [step |-> "idle", path |-> "login", version |-> "none", attempt |-> 1,
          after |-> "identity", content |-> "poor"]

NoContract == [version |-> "none", content |-> "poor"]

SessionTypeOK ==
    /\ probe \in [kind : Kinds,
                  at : {"off", "preflight", "auth", "read", "stream", "final", "logout", "done"},
                  next : Nat, authenticated : BOOLEAN, bridge : BOOLEAN,
                  first : Contents,
                  error : {"none", "HOURS", "ALLOWANCE", "BLOCKED"},
                  unsubscribe : {"NOT_REQUIRED", "PASS", "FAILED"},
                  disconnect : {"NOT_REQUIRED", "PASS", "FAILED"},
                  logout : {"NOT_REQUIRED", "PASS", "FAILED", "ALLOWANCE"},
                  reserved : [{"auth", "account", "schedule", "logout"} -> Nat],
                  status : {"none", "PASS", "HOURS", "ALLOWANCE", "BLOCKED"}]
    /\ request \in [step : {"idle", "prove", "identity", "manager", "login", "send",
                            "answered", "ok", "failed"},
                    path : Routes, version : {"none", "2", "3"}, attempt : Nat,
                    after : {"identity", "send"}, content : Contents \cup {"error"}]
    /\ manager \in [tokens : {"none", "live", "expired"}, owner : {"none", "expected", "other"},
                    session : 0 .. LoginBound]
    /\ transport \in [total : Nat, logins : Nat, routes : [Routes -> Nat],
                      dispatched : {"none", "2", "3"},
                      contract : [version : {"none", "2", "3"}, content : Contents \cup {"error"}],
                      diagnostic : {"none", "allowance", "other"}]
    /\ broker \in [Counters -> Nat]
    /\ wire \in [sent : [Routes -> Nat], under : {"none", "expected", "other"},
                 open : SUBSET (1 .. LoginBound), made : 0 .. LoginBound]

ProbeInit(at) ==
    /\ \E kind \in Kinds :
           probe = [kind |-> kind, at |-> at, next |-> 1, authenticated |-> FALSE,
                    bridge |-> FALSE, first |-> "poor", error |-> "none",
                    unsubscribe |-> "NOT_REQUIRED", disconnect |-> "NOT_REQUIRED",
                    logout |-> "NOT_REQUIRED",
                    reserved |-> [c \in {"auth", "account", "schedule", "logout"} |-> 0],
                    status |-> "none"]
    /\ request = Quiet
    /\ manager = [tokens |-> "none", owner |-> "none", session |-> 0]
    /\ transport = [total |-> 0, logins |-> 0, routes |-> [r \in Routes |-> 0],
                    dispatched |-> "none", contract |-> NoContract, diagnostic |-> "none"]
    /\ broker = [c \in Counters |-> 0]
    /\ wire = [sent |-> [r \in Routes |-> 0], under |-> "none", open |-> {}, made |-> 0]

-----------------------------------------------------------------------------
(* One request.                                                            *)

Goto(step) == request' = [request EXCEPT !.step = step, !.attempt = 1]

\* Shadow01ReadOnlyBroker._record_transport_request.
CounterOf(r) ==
    CASE r.path = "login" -> "auth"
      [] r.path = "accounts" -> "account"
      [] r.version \in {"2", "3"} -> "schedule"
      [] OTHER -> "history"

\* _request of the broker, then authorized_request of the transport up to the
\* proof of the account: the evidence of an earlier schedule read is dropped.
\* The logout has an entry of its own, which counts nothing yet and never logs in.
Ask(r) ==
    /\ request.step = "idle"
    /\ request' = [Quiet EXCEPT !.step = IF r.path = "logout" THEN "identity" ELSE "prove",
                                !.path = r.path, !.version = r.version]
    /\ broker' = IF r.path = "logout" THEN broker ELSE [broker EXCEPT ![CounterOf(r)] = @ + 1]
    /\ transport' = IF r.version \in {"2", "3"}
                    THEN [transport EXCEPT !.dispatched = "none", !.contract = NoContract]
                    ELSE transport
    /\ UNCHANGED <<manager, wire>>

\* _require_authenticated_expected_account logs in when there are no tokens.
Prove ==
    /\ request.step = "prove"
    /\ Goto(IF manager.tokens = "live" THEN "identity" ELSE "login")
    /\ UNCHANGED <<probe, manager, transport, broker, wire>>

\* _require_expected_account_identity.
Proven == manager.tokens = "live" /\ manager.owner = "expected"

Identify ==
    /\ request.step = "identity"
    /\ CASE ~Proven -> Goto("failed") /\ UNCHANGED transport
         [] Proven /\ request.path = "login" -> Goto("ok") /\ UNCHANGED transport
         [] OTHER -> Goto("manager") /\ transport' = [transport EXCEPT !.diagnostic = "none"]
    /\ UNCHANGED <<probe, manager, broker, wire>>

\* SessionManager.authorized_request and logout: the tokens are looked at again.
\* A read logs in by itself, unseen by the proof above; a logout gives up.
EnterManager ==
    /\ request.step = "manager"
    /\ CASE manager.tokens = "live" -> Goto("send")
         [] manager.tokens # "live" /\ request.path = "logout" -> Goto("failed")
         [] OTHER -> request' = [request EXCEPT !.step = "login", !.attempt = 1, !.after = "send"]
    /\ UNCHANGED <<probe, manager, transport, broker, wire>>

\* The route of the next physical attempt.
Route == IF request.step = "login" THEN "login" ELSE request.path

Reached(count, limit) == limit # 0 /\ count >= limit

\* _reserve_observed_http_request refuses.
OverLimit ==
    \/ Route = "login" /\ Reached(transport.logins, Limit.logins)
    \/ Reached(transport.routes[Route], Limit.route)
    \/ Reached(transport.total, Limit.total)

\* Mutant: a repeated attempt is not reserved again.
ReservedOnce ==
    [transport EXCEPT !.total = @ + (IF request.attempt = 1 THEN 1 ELSE 0),
                      !.routes[Route] = @ + (IF request.attempt = 1 THEN 1 ELSE 0),
                      !.logins = @ + (IF Route = "login" THEN 1 ELSE 0),
                      !.dispatched = IF Route = "login" THEN @ ELSE request.version]

\* What an attempt leaves in the transport before it is sent: it is counted, and
\* the version it is sent with is noted.
Reserved ==
    [transport EXCEPT !.total = @ + 1,
                      !.routes[Route] = @ + 1,
                      !.logins = @ + (IF Route = "login" THEN 1 ELSE 0),
                      !.dispatched = IF Route = "login" THEN @ ELSE request.version]

\* observe_transport_request: every attempt is reserved before it is sent, and a
\* login nobody asked for is counted in the broker.
Observe(noted) ==
    /\ transport' = [Reserved EXCEPT !.diagnostic = noted]
    /\ broker' = IF Route = "login" /\ request.path # "login"
                 THEN [broker EXCEPT !.internal = @ + 1] ELSE broker

Refused ==
    /\ request.step \in {"login", "send"}
    /\ OverLimit
    /\ Goto("failed")
    /\ UNCHANGED <<probe, manager, transport, broker, wire>>

\* HTTPClient._request: a timeout or a failed connection is tried again, any other
\* error is not.
TryAgain ==
    \/ request.attempt < Limit.attempts /\ request' = [request EXCEPT !.attempt = @ + 1]
    \/ Goto("failed")

Sent == [wire EXCEPT !.sent[Route] = @ + 1]

\* The broker opened another session.
Opened == [Sent EXCEPT !.open = @ \cup {wire.made + 1}, !.made = @ + 1]

\* SessionManager.login, one attempt of it.
LoginAttempt ==
    /\ request.step = "login"
    /\ ~OverLimit
    /\ \/ \* 200: the tokens may be missing and the account any
          \E tokens \in {"live", "none"}, owner \in {"expected", "other"} :
              /\ wire.made < LoginBound
              /\ wire' = Opened
              /\ manager' = [tokens |-> tokens, owner |-> owner, session |-> wire.made + 1]
              /\ Goto(request.after)
              /\ Observe(transport.diagnostic)
       \/ \* refused; only a 403 is noted
          \E noted \in {transport.diagnostic, "allowance", "other"} :
              /\ wire' = Sent
              /\ Goto("failed")
              /\ Observe(noted)
              /\ UNCHANGED manager
       \/ \* the reply is lost or unreadable; the session may be open
          /\ wire' = Sent \/ (wire.made < LoginBound /\ wire' = Opened)
          /\ TryAgain
          /\ Observe(transport.diagnostic)
          /\ UNCHANGED manager
    /\ UNCHANGED probe

\* A read, one attempt of it: it goes out under the account of the tokens.
ReadAttempt ==
    /\ request.step = "send"
    /\ request.path # "logout"
    /\ ~OverLimit
    /\ \/ \E content \in IF request.version = "none" THEN {"usable", "poor"} ELSE Contents :
              /\ request' = [request EXCEPT !.step = "answered", !.content = content]
              /\ Observe(transport.diagnostic)
       \/ \E noted \in {transport.diagnostic, "allowance", "other"} :
              /\ request' = [request EXCEPT !.step = "answered", !.content = "error"]
              /\ Observe(noted)
       \/ TryAgain /\ Observe(transport.diagnostic)
    /\ wire' = [Sent EXCEPT !.under = manager.owner]
    /\ UNCHANGED <<probe, manager>>

\* Mutant: the account is not proven again after the answer.
AnsweredUnproven ==
    /\ request.step = "answered"
    /\ Goto(IF request.content = "error" THEN "failed" ELSE "ok")
    /\ transport' = IF request.version # "none"
                    THEN [transport EXCEPT !.dispatched = "none", !.contract =
                              [version |-> transport.dispatched, content |-> request.content]]
                    ELSE transport
    /\ UNCHANGED <<probe, manager, broker, wire>>

\* The rest of the transport's authorized_request: the account is proven again,
\* then what the answer shows of the schedule is kept, then it is judged.
Answered ==
    /\ request.step = "answered"
    /\ Goto(IF ~Proven \/ request.content = "error" THEN "failed" ELSE "ok")
    /\ transport' = IF Proven /\ request.version # "none"
                    THEN [transport EXCEPT !.dispatched = "none", !.contract =
                              [version |-> transport.dispatched, content |-> request.content]]
                    ELSE transport
    /\ UNCHANGED <<probe, manager, broker, wire>>

\* SessionManager.logout, one attempt of it.
LogoutAttempt ==
    /\ request.step = "send"
    /\ request.path = "logout"
    /\ ~OverLimit
    /\ \/ /\ wire' = [Sent EXCEPT !.open = @ \ {manager.session}]
          /\ manager' = [manager EXCEPT !.tokens = "none", !.owner = "none"]
          /\ Goto("ok")
          /\ Observe(transport.diagnostic)
       \/ \E noted \in {transport.diagnostic, "allowance", "other"} :
              /\ wire' = Sent
              /\ Goto("failed")
              /\ Observe(noted)
              /\ UNCHANGED manager
       \/ /\ wire' \in {Sent, [Sent EXCEPT !.open = @ \ {manager.session}]}
          /\ TryAgain
          /\ Observe(transport.diagnostic)
          /\ UNCHANGED manager
    /\ UNCHANGED probe

RequestSteps ==
    /\ \/ Prove
       \/ Identify
       \/ EnterManager
       \/ Refused
       \/ LoginAttempt
       \/ ReadAttempt
       \/ Answered
       \/ LogoutAttempt
    /\ UNCHANGED streamVars

-----------------------------------------------------------------------------
(* The probes.                                                             *)

Sequence(p, at) == probe' = [p EXCEPT !.at = at]

\* An error leaves the sequence for the finally block.
Stop(p, error) == Sequence([p EXCEPT !.error = error], "final")

\* The caller takes the answer: with a schedule read it takes the evidence too.
Take ==
    /\ request' = Quiet
    /\ transport' = [transport EXCEPT !.contract = NoContract]

\* _allowance_affected.
AfterFailure == IF transport.diagnostic = "allowance" THEN "ALLOWANCE" ELSE "BLOCKED"

\* BoundedFinalClockRequestBudget: one login, one account, the schedules, one logout.
Budget == [auth |-> 1, account |-> 1, schedule |-> Len(ClockMarkets), logout |-> 1]

\* Only the final-clock smoke keeps a budget of its own.
Spend(category, r) ==
    IF probe.kind # "clock" THEN Ask(r) /\ UNCHANGED probe
    ELSE IF probe.reserved[category] < Budget[category]
    THEN Ask(r) /\ probe' = [probe EXCEPT !.reserved[category] = @ + 1]
    ELSE /\ IF category = "logout"
            THEN Sequence([probe EXCEPT !.logout = "FAILED"], "done")
            ELSE Stop(probe, "BLOCKED")
         /\ UNCHANGED <<request, transport, broker, manager, wire>>

\* The authorisation, the frozen configuration, the registry, the factory's status:
\* a requirement that does not hold stops the probe.
RequirementFails == Stop(probe, "BLOCKED")

\* Settings that are complete and name the demo host: the factory builds a broker
\* that has not logged in yet, or fails to.
BrokerBuilt == Sequence(probe, "auth") \/ RequirementFails

ProbePreflight ==
    /\ probe.at = "preflight"
    /\ BrokerBuilt \/ RequirementFails
    /\ UNCHANGED <<request, manager, transport, broker, wire, streamVars>>

ProbeAuthenticates ==
    /\ probe.at = "auth"
    /\ request.step = "idle"
    /\ Spend("auth", Asked("login", "none"))
    /\ UNCHANGED streamVars

\* The session is the probe's to close only when authenticate has returned.
ProbeAuthenticated ==
    /\ probe.at = "auth"
    /\ request.step \in {"ok", "failed"}
    /\ IF request.step = "ok"
       THEN Sequence([probe EXCEPT !.authenticated = TRUE], "read")
       ELSE Stop(probe, IF probe.kind = "gate09" THEN "BLOCKED" ELSE AfterFailure)
    /\ Take
    /\ UNCHANGED <<manager, broker, wire, streamVars>>

ProbeReads ==
    /\ probe.at = "read"
    /\ request.step = "idle"
    /\ LET r == Reads(probe.kind)[probe.next] IN Spend(CounterOf(r), r)
    /\ UNCHANGED streamVars

ReadDone == probe.at = "read" /\ request.step \in {"ok", "failed"}

\* Gate 09: the first row of the history.
HistoryRead ==
    /\ ReadDone
    /\ probe.kind = "gate09"
    /\ IF request.step = "ok" /\ request.content = "usable"
       THEN Sequence(probe, "stream") ELSE Stop(probe, "BLOCKED")
    /\ Take
    /\ UNCHANGED <<manager, broker, wire, streamVars>>

\* account_state_is_valid proves the account once more.
AccountRead ==
    /\ ReadDone
    /\ request.path = "accounts"
    /\ CASE request.step = "failed" -> Stop(probe, AfterFailure)
         [] request.step = "ok" /\ Proven /\ request.content = "usable" ->
                probe' = [probe EXCEPT !.next = @ + 1]
         [] OTHER -> Stop(probe, "BLOCKED")
    /\ Take
    /\ UNCHANGED <<manager, broker, wire, streamVars>>

\* Gate 12: the second market is read only to compare it with hours that are
\* absent from the first.
Gate12Read ==
    /\ ReadDone
    /\ probe.kind \in {"gate12", "gate12xau"}
    /\ LET content == transport.contract.content
           p == IF probe.next = 1 THEN [probe EXCEPT !.first = content] ELSE probe IN
       CASE request.step = "failed" -> Stop(probe, AfterFailure)
         [] request.step = "ok" /\ probe.kind = "gate12xau" /\ probe.next = 1
                /\ content = "absent" -> probe' = [p EXCEPT !.next = 2]
         [] OTHER -> Sequence(p, "final")
    /\ Take
    /\ UNCHANGED <<manager, broker, wire, streamVars>>

\* Gate 13: _classify_contract.
Gate13Read ==
    /\ ReadDone
    /\ probe.kind = "gate13"
    /\ LET content == transport.contract.content IN
       CASE request.step = "failed" -> Stop(probe, AfterFailure)
         [] request.step = "ok" /\ (transport.contract.version # "2" \/ content = "odd") ->
                Stop(probe, "BLOCKED")
         [] request.step = "ok" /\ transport.contract.version = "2"
                /\ content \notin {"usable", "odd"} ->
                Stop([probe EXCEPT !.first = content], "HOURS")
         [] OTHER -> Sequence([probe EXCEPT !.first = content], "final")
    /\ Take
    /\ UNCHANGED <<manager, broker, wire, streamVars>>

\* _v3_schedule_contract_proves_success.
ProvesSuccess == transport.contract.version = "3" /\ transport.contract.content # "odd"

\* parse_v3_market_schedule: hours are declared only when every interval of them can
\* be read and none is empty; whether the anchor lies in one is then a choice.
DeclaredHours == transport.contract.content = "usable"

\* The final clock: the evidence must prove the version and a 200, the hours must
\* be declared, and the anchor must lie in them.
ClockRead ==
    /\ ReadDone
    /\ probe.kind = "clock"
    /\ request.path # "accounts"
    /\ \E inWindow \in BOOLEAN :
       CASE request.step = "failed" -> Stop(probe, AfterFailure)
         [] request.step = "ok" /\ ~ProvesSuccess -> Stop(probe, "BLOCKED")
         [] request.step = "ok" /\ ProvesSuccess /\ DeclaredHours /\ inWindow ->
                IF probe.next = Len(Reads("clock"))
                THEN Sequence(probe, "final") ELSE probe' = [probe EXCEPT !.next = @ + 1]
         [] OTHER -> Stop(probe, "HOURS")
    /\ Take
    /\ UNCHANGED <<manager, broker, wire, streamVars>>

\* Gate 09 goes on with one quote: the session is handed to a new bridge without
\* a request, then connect, subscribe, receive.
StreamStart ==
    /\ probe.at = "stream"
    /\ ~probe.bridge
    /\ \/ Proven /\ Connect /\ probe' = [probe EXCEPT !.bridge = TRUE]
       \/ Stop(probe, "BLOCKED") /\ UNCHANGED streamVars
    /\ UNCHANGED <<request, manager, transport, broker, wire>>

StreamGoesOn ==
    /\ probe.at = "stream"
    /\ probe.bridge
    /\ call = Idle
    /\ bridge.subs = {}
    /\ IF outcome = "ok"
       THEN Subscribe({ClockMarkets[1]}) /\ UNCHANGED probe
       ELSE Stop(probe, "BLOCKED") /\ UNCHANGED streamVars
    /\ UNCHANGED <<request, manager, transport, broker, wire>>

StreamReceives ==
    /\ probe.at = "stream"
    /\ bridge.connected
    /\ bridge.subs # {}
    /\ Receive \/ ReceiveFails
    /\ IF outcome' = "quote" THEN Sequence(probe, "final") ELSE Stop(probe, "BLOCKED")
    /\ UNCHANGED <<request, manager, transport, broker, wire>>

\* The finally block.  Nothing is unsubscribed or disconnected that is not
\* connected any more.
FinalUnsubscribes ==
    /\ probe.at = "final"
    /\ probe.bridge
    /\ probe.unsubscribe = "NOT_REQUIRED"
    /\ Unsubscribe(bridge.subs)
    /\ probe' = [probe EXCEPT !.unsubscribe = "FAILED"]
    /\ UNCHANGED <<request, manager, transport, broker, wire>>

FinalDisconnects ==
    /\ probe.at = "final"
    /\ call = Idle
    /\ bridge.connected
    /\ bridge.subs # {} => probe.unsubscribe # "NOT_REQUIRED"
    /\ \E result \in {"ok", "failed"} :
           /\ Disconnect(result)
           /\ probe' = [probe EXCEPT
                  !.unsubscribe = IF @ = "FAILED" /\ outcome = "ok" THEN "PASS" ELSE @,
                  !.disconnect = IF result = "ok" THEN "PASS" ELSE "FAILED"]
    /\ UNCHANGED <<request, manager, transport, broker, wire>>

FinalLogsOut ==
    /\ probe.at = "final"
    /\ call = Idle
    /\ ~bridge.connected
    /\ Sequence(probe, IF probe.authenticated THEN "logout" ELSE "done")
    /\ UNCHANGED <<request, manager, transport, broker, wire, streamVars>>

ProbeLogsOut ==
    /\ probe.at = "logout"
    /\ request.step = "idle"
    /\ Spend("logout", Asked("logout", "none"))
    /\ UNCHANGED streamVars

\* Only Gate 12 and the final clock look at the diagnostic of a failed logout.
ProbeLoggedOut ==
    /\ probe.at = "logout"
    /\ request.step \in {"ok", "failed"}
    /\ LET affected == /\ probe.kind \in {"gate12", "gate12xau", "clock"}
                       /\ transport.diagnostic = "allowance" IN
       CASE request.step = "ok" -> Sequence([probe EXCEPT !.logout = "PASS"], "done")
         [] request.step = "failed" /\ affected ->
                Sequence([probe EXCEPT !.logout = "ALLOWANCE", !.error = "ALLOWANCE"], "done")
         [] OTHER -> Sequence([probe EXCEPT !.logout = "FAILED"], "done")
    /\ broker' = IF request.step = "ok" THEN [broker EXCEPT !.logout = @ + 1] ELSE broker
    /\ Take
    /\ UNCHANGED <<manager, wire, streamVars>>

CleanupPassed ==
    /\ probe.authenticated => probe.logout = "PASS"
    /\ probe.bridge => probe.unsubscribe = "PASS" /\ probe.disconnect = "PASS"

OverCalled == Limit.total # 0 /\ transport.total > Limit.total

\* _shape_outcome: only Gate 12 judges its hours after the cleanup.
ShapeOutcome ==
    CASE probe.kind \notin {"gate12", "gate12xau"} \/ probe.first = "usable" -> "PASS"
      [] probe.kind \in {"gate12", "gate12xau"} /\ probe.first = "odd" -> "BLOCKED"
      [] OTHER -> "HOURS"

\* Mutant: the cleanup is not looked at.
VerdictOfReads ==
    IF probe.error # "none" THEN probe.error
    ELSE IF probe.kind # "gate13" /\ OverCalled THEN "BLOCKED"
    ELSE ShapeOutcome

\* The end of run.  Gate 13 has classified its hours before the logout and does not
\* take that back.
Verdict ==
    IF probe.error # "none" THEN probe.error
    ELSE IF probe.kind # "gate13" /\ (OverCalled \/ ~CleanupPassed) THEN "BLOCKED"
    ELSE ShapeOutcome

ProbeReports ==
    /\ probe.at = "done"
    /\ probe.status = "none"
    /\ probe' = [probe EXCEPT !.status = Verdict]
    /\ UNCHANGED <<request, manager, transport, broker, wire, streamVars>>

ProbeSteps ==
    \/ ProbePreflight
    \/ ProbeAuthenticates
    \/ ProbeAuthenticated
    \/ ProbeReads
    \/ HistoryRead
    \/ AccountRead
    \/ Gate12Read
    \/ Gate13Read
    \/ ClockRead
    \/ StreamStart
    \/ StreamGoesOn
    \/ StreamReceives
    \/ FinalUnsubscribes
    \/ FinalDisconnects
    \/ FinalLogsOut
    \/ ProbeLogsOut
    \/ ProbeLoggedOut
    \/ ProbeReports

\* The lifetime of the tokens passes.
TokensExpire ==
    /\ manager.tokens = "live"
    /\ probe.status = "none"
    /\ manager' = [manager EXCEPT !.tokens = "expired"]
    /\ UNCHANGED <<probe, request, transport, broker, wire, streamVars>>

SessionNext ==
    \/ RequestSteps
    \/ ProbeSteps
    \/ (CallerSteps \/ ListenerSteps) /\ UNCHANGED sessionVars
    \/ TokensExpire

SessionSpec ==
    /\ StreamInit /\ ProbeInit("preflight")
    /\ [][SessionNext]_<<sessionVars, streamVars>>

-----------------------------------------------------------------------------
(* Properties.                                                             *)

AllSent == MapThenSumSet(LAMBDA r : wire.sent[r], Routes)

\* Whatever is repeated and whoever logs in, what the transport has counted is
\* what was sent, and no more is sent than the probe was allowed; a probe that
\* sends each request once has counted every login and read in the broker
\* (local_demo_read_only.py:502, 529).
RequestsAreCounted ==
    /\ transport.total = AllSent
    /\ Limit.total # 0 => AllSent <= Limit.total
    /\ Limit.logins # 0 => wire.sent["login"] <= Limit.logins
    /\ Limit.route # 0 => \A r \in Routes : wire.sent[r] <= Limit.route
    /\ Limit.attempts = 1 => wire.sent["login"] <= broker.auth + broker.internal

\* A document is handed up only when it was asked for under the expected account,
\* although the session manager may have logged in again after the proof
\* (local_demo_read_only.py:291).
DocumentsAreOfTheAccount ==
    (request.step = "ok" /\ request.path \notin {"login", "logout"}) => wire.under = "expected"

\* A probe that passes has made all its reads and has closed its stream and the
\* session it was given; one that may log in once leaves none open at all.
\* Gate 13 says so of its cleanup only (live_contract_probe.py:249,
\* live_schedule_contract_probe.py:242).
PassIsClosed ==
    (probe.status = "PASS" /\ (probe.kind = "gate13" => CleanupPassed)) =>
        /\ manager.session \notin wire.open
        /\ Limit.logins = 1 => wire.open = {}
        /\ client = NoClient
        /\ \A i \in 1 .. Len(Reads(probe.kind)) :
               (i = 1 \/ probe.kind = "clock") => wire.sent[Reads(probe.kind)[i].path] > 0

\* What a probe returns and what it says of it is so.
ProbeIsHonest == DocumentsAreOfTheAccount /\ PassIsClosed
=============================================================================
