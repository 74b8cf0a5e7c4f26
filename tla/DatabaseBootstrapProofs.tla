----------------------- MODULE DatabaseBootstrapProofs -----------------------
(***************************************************************************)
(* What the administrative jobs leave behind, for any number of executions *)
(* that overlap and any number of deaths, failures and lost replies.       *)
(***************************************************************************)
EXTENDS DatabaseBootstrap, FiniteSetTheorems, TLAPS

AllComplete == \A v \in Migrations : schema[v] = "COMPLETE"

\* What a job of a mode reports with PASS.
Ready(mode) ==
    /\ durable
    /\ mode \in {"bootstrap", "remediate"} => Complete
    /\ mode = "remediate" => \A v \in Migrations : owner[v] = "durable"
    /\ mode # "remediate" => AllComplete /\ grants = Required /\ ~public

\* The plan p is to apply every migration from one on whose predecessor is there.
Continues(p) == \E v \in 1 .. 4 : p = v .. 3 /\ (v = 1 \/ v - 1 \in ledger)

Holding == {"grant", "plan", "migrate", "authorise", "validate", "revoke"}

\* The memory r of an execution: which mode ends with a revoke, when it may hold a
\* membership, and what it has made sure of so far.
Fits(r) ==
    /\ r.pc \in Holding \cup {"audit"} =>
           r.mode \in {"bootstrap", "repair", "drift_repair"}
    /\ r.held => r.pc \in Holding
    /\ r.pc = "grant" => r.held
    /\ r.pc = "restore" => r.mode \in {"repair", "drift_repair"}
    /\ r.pc \in {"member", "grant", "plan", "migrate", "authorise", "validate", "reassign"}
           => durable
    /\ r.pc = "migrate" => Accepted /\ Continues(r.plan)
    /\ r.pc \in {"authorise", "validate"} => Complete
    /\ r.pc = "validate" => ~public
    /\ r.pc = "audit" \/ (r.pc = "revoke" /\ r.ok) \/ r.result = "PASS" => Ready(r.mode)

IInv ==
    /\ TypeOK
    /\ \A j \in Jobs : Fits(job[j])
    /\ MembershipIsTakenBack

-----------------------------------------------------------------------------
(* Types and updates of an execution's memory.                             *)

Pcs == {"off", "principal", "member", "grant", "plan", "migrate", "authorise",
        "validate", "revoke", "durable", "reassign", "restore", "audit", "ended"}
JobMemory ==
    [mode : Modes \cup {"none"}, pc : Pcs, plan : SUBSET Migrations, held : BOOLEAN,
     ok : BOOLEAN, result : {"none", "PASS", "FAIL", "DEAD"}]

\* The types of everything but the memories.
Database ==
    /\ schema \in [Migrations -> {"ABSENT", "COMPLETE", "PARTIAL"}]
    /\ ledger \subseteq Migrations
    /\ owner \in [Migrations -> {"bootstrap", "durable"}]
    /\ durable \in BOOLEAN /\ principal \in BOOLEAN /\ public \in BOOLEAN
    /\ members \subseteq {"bootstrap", "repair"}
    /\ grants \subseteq Required
    /\ left \subseteq members
    /\ faults \in 0 .. MaxFaults

LEMMA TypeParts == TypeOK <=> Database /\ job \in [Jobs -> JobMemory]
  BY DEF TypeOK, Database, JobMemory, Pcs

\* The memory r, moved on.
To(r, pc, p, h, k) == [r EXCEPT !.pc = pc, !.plan = p, !.held = h, !.ok = k]

LEMMA ToType ==
    ASSUME NEW r \in JobMemory, NEW pc \in Pcs, NEW p \in SUBSET Migrations,
           NEW h \in BOOLEAN, NEW k \in BOOLEAN
    PROVE  /\ To(r, pc, p, h, k) \in JobMemory
           /\ To(r, pc, p, h, k).pc = pc
           /\ To(r, pc, p, h, k).plan = p
           /\ To(r, pc, p, h, k).held = h
           /\ To(r, pc, p, h, k).ok = k
           /\ To(r, pc, p, h, k).mode = r.mode
           /\ To(r, pc, p, h, k).result = r.result
<1> DEFINE Flags == BOOLEAN
           Names == Modes \cup {"none"}
           Plans == SUBSET Migrations
           Results == {"none", "PASS", "FAIL", "DEAD"}
<1>1. /\ JobMemory = [mode : Names, pc : Pcs, plan : Plans, held : Flags, ok : Flags,
                      result : Results]
      /\ h \in Flags /\ k \in Flags /\ p \in Plans
  BY DEF JobMemory
<1> HIDE DEF Flags, Names, Plans, Results
<1>2. QED
  BY <1>1 DEF To

LEMMA EndedType ==
    ASSUME NEW mode \in Modes \cup {"none"}, NEW result \in {"PASS", "FAIL", "DEAD"}
    PROVE  /\ Ended(mode, result) \in JobMemory
           /\ Ended(mode, result).pc = "ended" /\ Ended(mode, result).mode = mode
           /\ Ended(mode, result).result = result /\ ~Ended(mode, result).held
<1>1. Idle \in JobMemory
  BY DEF Idle, JobMemory, Pcs, Modes
<1>2. "ended" \in Pcs
  BY DEF Pcs
<1>3. Ended(mode, result) \in JobMemory
  BY <1>1, <1>2 DEF Ended, JobMemory
<1>4. QED
  BY <1>3 DEF Ended, Idle

-----------------------------------------------------------------------------
(* What lasts.                                                             *)

Lasting ==
    /\ durable => durable'
    /\ Accepted => Accepted'
    /\ ledger \subseteq ledger'
    /\ Complete => Complete'
    /\ Complete /\ ~public => ~public'
    /\ \A mode : Ready(mode) => Ready(mode)'

LEMMA FitsLasts ==
    ASSUME Lasting, NEW r, Fits(r) PROVE Fits(r)'
<1>1. Continues(r.plan) => Continues(r.plan)'
  BY DEF Lasting, Continues
<1>2. Ready(r.mode) => Ready(r.mode)'
  BY DEF Lasting
<1>3. QED
  BY <1>1, <1>2 DEF Lasting, Fits

LEMMA UnchangedLasts ==
    ASSUME Database, UNCHANGED <<schema, ledger>>,
           durable => durable',
           UNCHANGED owner \/ (\A v \in Migrations : owner[v] = "durable" => owner'[v] = "durable"),
           UNCHANGED grants \/ grants' = Required,
           UNCHANGED public \/ ~public'
    PROVE  Lasting
<1>1. (Accepted <=> Accepted') /\ (Complete <=> Complete') /\ (AllComplete <=> AllComplete')
  BY DEF Accepted, Complete, AllComplete
<1>2. \A v \in Migrations : owner[v] = "durable" => owner'[v] = "durable"
  OBVIOUS
<1>3. \A mode : Ready(mode) => Ready(mode)'
  BY <1>1, <1>2 DEF Ready
<1>4. QED
  BY <1>1, <1>3 DEF Lasting


-----------------------------------------------------------------------------
(* One execution moves on.                                                 *)

LEMMA JobNow ==
    ASSUME IInv, NEW j \in Jobs
    PROVE  /\ job \in [Jobs -> JobMemory] /\ job[j] \in JobMemory
           /\ Fits(job[j]) /\ Database
           /\ job[j].plan \in SUBSET Migrations
           /\ job[j].held \in BOOLEAN /\ job[j].ok \in BOOLEAN
           /\ job[j].pc \in Pcs /\ job[j].mode \in Modes \cup {"none"}
<1>1. job \in [Jobs -> JobMemory] /\ Database
  BY TypeParts DEF IInv
<1>2. job[j] \in JobMemory
  BY <1>1
<1>3. QED
  BY <1>1, <1>2 DEF IInv, JobMemory

\* The memberships, when execution j goes on with the memory r: each is still owed
\* by somebody.
StillOwed(j, r) ==
    \A id \in members' \ left' :
        \/ r.held /\ Identity(r.mode) = id
        \/ id \in members \ left /\ (job[j].held => Identity(job[j].mode) # id)

LEMMA JobMoves ==
    ASSUME IInv, Lasting, Database', NEW j \in Jobs, NEW r \in JobMemory,
           job' = [job EXCEPT ![j] = r], Fits(r)', StillOwed(j, r)
    PROVE  IInv'
<1>1. job \in [Jobs -> JobMemory]
  BY JobNow
<1>2. job' \in [Jobs -> JobMemory] /\ job'[j] = r
  BY <1>1
<1>3. \A i \in Jobs \ {j} : job'[i] = job[i]
  BY <1>1
<1>4. TypeOK'
  BY <1>2 DEF TypeOK, Database, JobMemory, Pcs
<1>5. ASSUME NEW i \in Jobs PROVE Fits(job[i])'
  <2>1. CASE i = j
    BY <1>2, <2>1 DEF Fits
  <2>2. CASE i # j
    <3>1. Fits(job[i])
      BY DEF IInv
    <3>2. PICK s : s = job[i]
      OBVIOUS
    <3>3. Fits(s)'
      BY <3>1, <3>2, FitsLasts
    <3>4. job'[i] = s
      BY <1>3, <2>2, <3>2
    <3>5. QED
      BY <3>3, <3>4 DEF Fits
  <2>3. QED
    BY <2>1, <2>2
<1>6. MembershipIsTakenBack'
  <2>1. ASSUME NEW id \in members' \ left'
        PROVE  \E i \in Jobs : job'[i].held /\ Identity(job'[i].mode) = id
    <3>1. CASE r.held /\ Identity(r.mode) = id
      BY <1>2, <3>1
    <3>2. CASE id \in members \ left /\ (job[j].held => Identity(job[j].mode) # id)
      <4>1. PICK i \in Jobs : job[i].held /\ Identity(job[i].mode) = id
        BY <3>2 DEF IInv, MembershipIsTakenBack
      <4>2. i # j
        BY <3>2, <4>1
      <4>3. QED
        BY <1>3, <4>1, <4>2
    <3>3. QED
      BY <3>1, <3>2 DEF StillOwed
  <2>2. QED
    BY <2>1 DEF MembershipIsTakenBack, Identity
<1>7. QED
  BY <1>4, <1>5, <1>6 DEF IInv

\* An execution ends: what it passes is ready, and a membership that it held has
\* been taken back or is left over.
LEMMA EndKeeps ==
    ASSUME IInv, Lasting, Database', NEW j \in Jobs,
           NEW result \in {"PASS", "FAIL", "DEAD"}, End(j, result),
           NEW mode, mode = job[j].mode, result = "PASS" => Ready(mode)',
           members' \ left' \subseteq members \ left,
           job[j].held => Identity(job[j].mode) \notin members' \ left'
    PROVE  IInv'
<1>1. job[j].mode \in Modes \cup {"none"} /\ job \in [Jobs -> JobMemory]
  BY JobNow
<1>2. PICK r \in JobMemory : r = Ended(job[j].mode, result)
  BY <1>1, EndedType
<1>3. /\ r.pc = "ended" /\ r.mode = job[j].mode /\ r.result = result /\ ~r.held
  BY <1>1, <1>2, EndedType
<1>4. job' = [job EXCEPT ![j] = r]
  BY <1>1, <1>2 DEF End
<1>5. result = "PASS" => Ready(r.mode)'
  BY <1>3
<1>6. Fits(r)'
  BY <1>3, <1>5 DEF Fits, Holding
<1>7. StillOwed(j, r)
  BY DEF StillOwed
<1>8. QED
  BY <1>4, <1>6, <1>7, JobMoves

\* An execution that raises an error.
LEMMA RaiseKeeps ==
    ASSUME IInv, Lasting, Database', NEW j \in Jobs, Raise(j), UNCHANGED left,
           members' \subseteq members \cup (IF job[j].held THEN {Identity(job[j].mode)} ELSE {})
    PROVE  IInv'
<1>1. /\ job[j].mode \in Modes \cup {"none"} /\ job \in [Jobs -> JobMemory]
      /\ job[j] \in JobMemory /\ Fits(job[j])
      /\ job[j].plan \in SUBSET Migrations /\ job[j].held \in BOOLEAN
  BY JobNow
<1>2. CASE ~job[j].held
  <2>1. End(j, "FAIL")
    BY <1>2 DEF Raise
  <2>2. members' \ left' \subseteq members \ left
    BY <1>2
  <2>3. PICK mode : mode = job[j].mode
    OBVIOUS
  <2>4. QED
    BY <1>2, <2>1, <2>2, <2>3, EndKeeps
<1>3. CASE job[j].held
  <2>1. "revoke" \in Pcs
    BY DEF Pcs
  <2>2. PICK k \in BOOLEAN : k = FALSE
    OBVIOUS
  <2>3. PICK r \in JobMemory : r = To(job[j], "revoke", job[j].plan, job[j].held, k)
    BY <1>1, <2>1, ToType
  <2>4. r.pc = "revoke" /\ r.held = job[j].held /\ r.ok = FALSE /\ r.mode = job[j].mode
        /\ r.result = job[j].result
    BY <1>1, <2>1, <2>2, <2>3, ToType
  <2>5. job' = [job EXCEPT ![j] = r]
    <3>1. job' = [job EXCEPT ![j] = [job[j] EXCEPT !.pc = "revoke", !.ok = FALSE]]
      BY <1>1, <1>3 DEF Raise
    <3>2. [job[j] EXCEPT !.pc = "revoke", !.ok = FALSE] = r
      BY <1>1, <2>2, <2>3 DEF To, JobMemory
    <3>3. QED
      BY <3>1, <3>2
  <2>6. r.mode \in {"bootstrap", "repair", "drift_repair"}
    BY <1>1, <1>3, <2>4 DEF Fits
  <2>7. r.result = "PASS" => Ready(r.mode)
    BY <1>1, <2>4 DEF Fits
  <2>8. r.result = "PASS" => Ready(r.mode)'
    BY <2>7 DEF Lasting
  <2>9. Fits(r)'
    BY <2>4, <2>6, <2>8 DEF Fits, Holding
  <2>10. StillOwed(j, r)
    BY <1>3, <2>4 DEF StillOwed
  <2>11. QED
    BY <2>5, <2>9, <2>10, JobMoves
<1>4. QED
  BY <1>2, <1>3

\* An execution goes on to another place.
LEMMA GoKeeps ==
    ASSUME IInv, Lasting, Database', NEW j \in Jobs, NEW pc \in Pcs, Go(j, pc),
           UNCHANGED left,
           members' \subseteq members \cup (IF job[j].held THEN {Identity(job[j].mode)} ELSE {}),
           pc \in Holding \cup {"audit"} => job[j].mode \in {"bootstrap", "repair", "drift_repair"},
           job[j].held => pc \in Holding,
           pc = "grant" => job[j].held,
           pc \in {"member", "grant", "plan", "migrate", "authorise", "validate", "reassign"}
               => durable',
           pc \notin {"migrate", "restore"},
           pc \in {"authorise", "validate"} => Complete',
           pc = "validate" => ~public',
           NEW mode, mode = job[j].mode,
           pc = "audit" \/ (pc = "revoke" /\ job[j].ok) => Ready(mode)'
    PROVE  IInv'
<1>1. /\ job[j].mode \in Modes \cup {"none"} /\ job \in [Jobs -> JobMemory]
      /\ job[j] \in JobMemory /\ Fits(job[j])
      /\ job[j].plan \in SUBSET Migrations /\ job[j].held \in BOOLEAN /\ job[j].ok \in BOOLEAN
  BY JobNow
<1>2. PICK r \in JobMemory : r = To(job[j], pc, job[j].plan, job[j].held, job[j].ok)
  BY <1>1, ToType
<1>3. r.pc = pc /\ r.held = job[j].held /\ r.ok = job[j].ok /\ r.mode = job[j].mode
      /\ r.result = job[j].result
  BY <1>1, <1>2, ToType
<1>4. job' = [job EXCEPT ![j] = r]
  <2>1. job' = [job EXCEPT ![j] = [job[j] EXCEPT !.pc = pc]]
    BY <1>1 DEF Go
  <2>2. [job[j] EXCEPT !.pc = pc] = r
    BY <1>1, <1>2 DEF To, JobMemory
  <2>3. QED
    BY <2>1, <2>2
<1>5. r.result = "PASS" => Ready(r.mode)'
  <2>1. r.result = "PASS" => Ready(r.mode)
    BY <1>1, <1>3 DEF Fits
  <2>2. QED
    BY <2>1 DEF Lasting
<1>6. pc = "audit" \/ (pc = "revoke" /\ r.ok) => Ready(r.mode)'
  BY <1>3
<1>7. Fits(r)'
  BY <1>3, <1>5, <1>6 DEF Fits
<1>8. StillOwed(j, r)
  BY <1>3 DEF StillOwed
<1>9. QED
  BY <1>4, <1>7, <1>8, JobMoves


-----------------------------------------------------------------------------
(* The steps.                                                              *)

LEMMA FaultType == ASSUME Database, Fault \/ UNCHANGED faults PROVE faults' \in 0 .. MaxFaults
  BY BootstrapAssumption DEF Database, Fault

LEMMA CompleteFacts ==
    ASSUME Database
    PROVE  /\ Complete => AllComplete
           /\ Accepted /\ AllComplete => Complete
<1>1. Complete => AllComplete
  BY DEF Complete, AllComplete, Accepted, Migrations
<1>2. ASSUME Accepted, AllComplete PROVE Complete
  <2>1. PICK n \in 0 .. 3 : /\ schema = [v \in Migrations |-> IF v <= n THEN "COMPLETE"
                                                             ELSE "ABSENT"]
                            /\ ledger = 1 .. n
    BY <1>2 DEF Accepted
  <2>2. schema[3] = "COMPLETE"
    BY <1>2 DEF AllComplete, Migrations
  <2>3. n = 3
    BY <2>1, <2>2 DEF Migrations
  <2>4. QED
    BY <1>2, <2>1, <2>3 DEF Complete, Migrations
<1>3. QED
  BY <1>1, <1>2

\* A step that leaves the tables alone, or has nothing but a fault.
LEMMA QuietLasts ==
    ASSUME IInv, UNCHANGED <<tables, durable, privileges>> PROVE Lasting
  BY UnchangedLasts, TypeParts DEF IInv, tables, privileges

LEMMA QuietTypes ==
    ASSUME IInv, UNCHANGED <<tables, durable, principal, members, privileges, left>>,
           Fault \/ UNCHANGED faults
    PROVE  Database'
  BY FaultType, TypeParts DEF IInv, Database, tables, privileges

LEMMA StartKeeps ==
    ASSUME IInv, NEW j \in Jobs, NEW mode \in Modes, Start(j, mode) PROVE IInv'
<1>1. Lasting /\ Database'
  BY QuietLasts, QuietTypes DEF Start
<1>2. job \in [Jobs -> JobMemory] /\ job[j] \in JobMemory /\ Fits(job[j])
  BY JobNow
<1>3. ~job[j].held
  BY <1>2 DEF Start, Fits, Holding
<1>4. PICK pc : pc = CASE mode = "bootstrap" -> "principal"
                       [] mode = "remediate" -> "durable"
                       [] OTHER -> "restore"
  OBVIOUS
<1>5. pc \in {"principal", "durable", "restore"} /\ pc \in Pcs
      /\ (pc = "restore" => mode \in {"repair", "drift_repair"})
  BY <1>4 DEF Pcs, Modes
<1>6. Idle \in JobMemory
  BY DEF Idle, JobMemory, Pcs
<1>7. [Idle EXCEPT !.mode = mode, !.pc = pc] \in JobMemory
  BY <1>5, <1>6 DEF JobMemory
<1>8. PICK r \in JobMemory : r = [Idle EXCEPT !.mode = mode, !.pc = pc]
  BY <1>7
<1>9. r.pc = pc /\ r.mode = mode /\ ~r.held /\ r.result = "none"
  BY <1>8 DEF Idle
<1>10. job' = [job EXCEPT ![j] = r]
  BY <1>4, <1>8 DEF Start
<1>11. Fits(r)'
  BY <1>5, <1>9 DEF Fits, Holding
<1>12. StillOwed(j, r)
  BY <1>3 DEF StillOwed, Start
<1>13. QED
  BY <1>1, <1>10, <1>11, <1>12, JobMoves

LEMMA PrincipalKeeps ==
    ASSUME IInv, NEW j \in Jobs, EnsureRuntimePrincipal(j) PROVE IInv'
<1>1. Lasting
  BY QuietLasts DEF EnsureRuntimePrincipal
<1>2. Fits(job[j]) /\ Database /\ job[j].mode = "bootstrap" /\ job[j].pc = "principal"
  BY JobNow DEF EnsureRuntimePrincipal, At
<1>3. ~job[j].held
  BY <1>2 DEF Fits, Holding
<1>4. faults' \in 0 .. MaxFaults
  BY <1>2, FaultType DEF EnsureRuntimePrincipal, Reply
<1>5. Database'
  BY <1>2, <1>4 DEF Database, EnsureRuntimePrincipal, tables, privileges
<1>6. CASE Raise(j)
  BY <1>1, <1>5, <1>6, RaiseKeeps DEF EnsureRuntimePrincipal
<1>7. CASE Go(j, "member") /\ durable
  <2>1. PICK mode : mode = job[j].mode
    OBVIOUS
  <2>2. "member" \in Pcs
    BY DEF Pcs
  <2>3. durable' /\ UNCHANGED <<members, left>>
    BY <1>7 DEF EnsureRuntimePrincipal
  <2>4. QED
    BY <1>1, <1>3, <1>5, <1>7, <2>1, <2>2, <2>3, GoKeeps DEF Holding
<1>8. QED
  BY <1>6, <1>7 DEF EnsureRuntimePrincipal, Reply

LEMMA CheckKeeps ==
    ASSUME IInv, NEW j \in Jobs, CheckMembership(j) PROVE IInv'
<1>1. Lasting /\ Database' /\ UNCHANGED <<members, left>>
  BY QuietLasts, QuietTypes DEF CheckMembership
<1>2. /\ job \in [Jobs -> JobMemory] /\ job[j] \in JobMemory /\ Fits(job[j])
      /\ job[j].plan \in SUBSET Migrations /\ job[j].ok \in BOOLEAN
      /\ job[j].mode = "bootstrap" /\ job[j].pc = "member"
  BY JobNow DEF CheckMembership, At
<1>3. CASE Raise(j)
  BY <1>1, <1>3, RaiseKeeps
<1>4. CASE job' = [job EXCEPT ![j].pc = "grant", ![j].held = TRUE]
  <2>1. "grant" \in Pcs
    BY DEF Pcs
  <2>2. PICK h \in BOOLEAN : h = TRUE
    OBVIOUS
  <2>3. PICK r \in JobMemory : r = To(job[j], "grant", job[j].plan, h, job[j].ok)
    BY <1>2, <2>1, ToType
  <2>4. r.pc = "grant" /\ r.held = TRUE /\ r.mode = "bootstrap" /\ r.result = job[j].result
    <3>1. /\ r.pc = "grant" /\ r.held = h /\ r.mode = job[j].mode
          /\ r.result = job[j].result
      BY <1>2, <2>1, <2>3, ToType
    <3>2. QED
      BY <1>2, <2>2, <3>1
  <2>5. job' = [job EXCEPT ![j] = r]
    <3>1. job' = [job EXCEPT ![j] = [job[j] EXCEPT !.pc = "grant", !.held = TRUE]]
      BY <1>2, <1>4
    <3>2. [job[j] EXCEPT !.pc = "grant", !.held = TRUE] = r
      BY <1>2, <2>2, <2>3 DEF To, JobMemory
    <3>3. QED
      BY <3>1, <3>2
  <2>6. durable /\ durable'
    BY <1>1, <1>2 DEF Fits, Lasting
  <2>7. r.result = "PASS" => Ready(r.mode)'
    <3>1. r.mode = job[j].mode
      BY <1>2, <2>4
    <3>2. r.result = "PASS" => Ready(r.mode)
      BY <1>2, <2>4, <3>1 DEF Fits
    <3>3. QED
      BY <1>1, <3>2 DEF Lasting
  <2>8. Fits(r)'
    BY <2>4, <2>6, <2>7 DEF Fits, Holding
  <2>9. ~job[j].held
    BY <1>2 DEF Fits, Holding
  <2>10. StillOwed(j, r)
    BY <1>1, <2>9 DEF StillOwed
  <2>11. QED
    BY <1>1, <2>5, <2>8, <2>10, JobMoves
<1>5. QED
  BY <1>3, <1>4 DEF CheckMembership

LEMMA GrantKeeps ==
    ASSUME IInv, NEW j \in Jobs, GrantMembership(j) PROVE IInv'
<1>1. Lasting
  BY QuietLasts DEF GrantMembership
<1>2. Fits(job[j]) /\ Database /\ job[j].mode = "bootstrap" /\ job[j].pc = "grant"
  BY JobNow DEF GrantMembership, At
<1>3. job[j].held /\ durable
  BY <1>2 DEF Fits
<1>4. faults' \in 0 .. MaxFaults
  BY <1>2, FaultType DEF GrantMembership, Reply
<1>5. Database'
  BY <1>2, <1>4 DEF Database, GrantMembership, tables, privileges
<1>6. members' = members \cup {Identity(job[j].mode)} /\ UNCHANGED <<left, durable>>
  BY <1>2 DEF GrantMembership, Identity
<1>7. CASE Raise(j)
  BY <1>1, <1>3, <1>5, <1>6, <1>7, RaiseKeeps
<1>8. CASE Go(j, "plan")
  <2>1. PICK mode : mode = job[j].mode
    OBVIOUS
  <2>2. "plan" \in Pcs
    BY DEF Pcs
  <2>3. QED
    BY <1>1, <1>2, <1>3, <1>5, <1>6, <1>8, <2>1, <2>2, GoKeeps DEF Holding
<1>9. QED
  BY <1>7, <1>8 DEF GrantMembership, Reply


LEMMA PlanKeeps ==
    ASSUME IInv, NEW j \in Jobs, PlanMigrations(j) PROVE IInv'
<1>1. Lasting /\ Database' /\ UNCHANGED <<members, left>>
  BY QuietLasts, QuietTypes DEF PlanMigrations
<1>2. /\ job \in [Jobs -> JobMemory] /\ job[j] \in JobMemory /\ Fits(job[j]) /\ Database
      /\ job[j].held \in BOOLEAN /\ job[j].ok \in BOOLEAN
      /\ job[j].mode = "bootstrap" /\ job[j].pc = "plan"
  BY JobNow DEF PlanMigrations, At
<1>3. CASE Raise(j)
  BY <1>1, <1>3, RaiseKeeps
<1>4. CASE /\ Accepted
           /\ job' = [job EXCEPT ![j].plan = Migrations \ ledger, ![j].pc = "migrate"]
  <2>1. "migrate" \in Pcs
    BY DEF Pcs
  <2>2. PICK p \in SUBSET Migrations : p = Migrations \ ledger
    BY DEF Migrations
  <2>3. PICK r \in JobMemory : r = To(job[j], "migrate", p, job[j].held, job[j].ok)
    BY <1>2, <2>1, ToType
  <2>4. /\ r.pc = "migrate" /\ r.plan = p /\ r.held = job[j].held
        /\ r.mode = job[j].mode /\ r.result = job[j].result
    BY <1>2, <2>1, <2>3, ToType
  <2>5. job' = [job EXCEPT ![j] = r]
    <3>1. job' = [job EXCEPT ![j] = [job[j] EXCEPT !.plan = p, !.pc = "migrate"]]
      BY <1>2, <1>4, <2>2
    <3>2. [job[j] EXCEPT !.plan = p, !.pc = "migrate"] = r
      BY <1>2, <2>3 DEF To, JobMemory
    <3>3. QED
      BY <3>1, <3>2
  <2>6. durable /\ durable' /\ Accepted'
    BY <1>1, <1>2, <1>4 DEF Fits, Lasting
  <2>7. r.result = "PASS" => Ready(r.mode)'
    <3>1. r.result = "PASS" => Ready(r.mode)
      BY <1>2, <2>4 DEF Fits
    <3>2. QED
      BY <1>1, <3>1 DEF Lasting
  <2>8. Continues(p)
    <3>1. PICK n \in 0 .. 3 : ledger = 1 .. n
      BY <1>4 DEF Accepted
    <3>2. p = n + 1 .. 3 /\ n + 1 \in 1 .. 4 /\ (n = 0 \/ n \in ledger)
      BY <2>2, <3>1 DEF Migrations
    <3>3. (n + 1) - 1 = n
      BY <3>1
    <3>4. QED
      BY <3>2, <3>3 DEF Continues
  <2>9. Continues(p)'
    BY <1>1, <2>8 DEF Lasting, Continues
  <2>10. Fits(r)'
    <3>1. Continues(r.plan)'
      BY <2>4, <2>9 DEF Continues
    <3>2. r.mode = "bootstrap"
      BY <1>2, <2>4
    <3>3. QED
      BY <2>4, <2>6, <2>7, <3>1, <3>2 DEF Fits, Holding
  <2>11. StillOwed(j, r)
    BY <1>1, <2>4 DEF StillOwed
  <2>12. QED
    BY <1>1, <2>5, <2>10, <2>11, JobMoves
<1>5. QED
  BY <1>3, <1>4 DEF PlanMigrations

\* The migration that an execution applies next is the first that is missing.
LEMMA NextMigration ==
    ASSUME Accepted, NEW p \in SUBSET Migrations, Continues(p), p # {},
           NEW v \in p, \A y \in p : v <= y, v \notin ledger
    PROVE  /\ v \in Migrations /\ v \in p
           /\ schema = [w \in Migrations |-> IF w <= v - 1 THEN "COMPLETE" ELSE "ABSENT"]
           /\ ledger = 1 .. v - 1
           /\ p = v .. 3
<1>1. PICK k \in 1 .. 4 : p = k .. 3 /\ (k = 1 \/ k - 1 \in ledger)
  BY DEF Continues
<1>2. k \in p /\ \A y \in p : k <= y
  BY <1>1
<1>3. v = k /\ v \in 1 .. 3
  BY <1>1, <1>2 DEF Migrations
<1>4. PICK n \in 0 .. 3 : /\ schema = [w \in Migrations |-> IF w <= n THEN "COMPLETE"
                                                           ELSE "ABSENT"]
                          /\ ledger = 1 .. n
  BY DEF Accepted
<1>5. n = v - 1
  BY <1>1, <1>3, <1>4
<1>6. QED
  BY <1>1, <1>3, <1>4, <1>5 DEF Migrations

\* The state of the tables after it.
LEMMA MigratedTables ==
    ASSUME Accepted, NEW v \in Migrations,
           schema = [w \in Migrations |-> IF w <= v - 1 THEN "COMPLETE" ELSE "ABSENT"],
           ledger = 1 .. v - 1,
           schema' = [schema EXCEPT ![v] = "COMPLETE"],
           ledger' = ledger \cup {v}
    PROVE  /\ Accepted' /\ ledger' = 1 .. v
           /\ ledger' \subseteq Migrations
           /\ schema' \in [Migrations -> {"ABSENT", "COMPLETE", "PARTIAL"}]
           /\ ~Complete /\ ~AllComplete
<1>1. v \in 1 .. 3
  BY DEF Migrations
<1>2. ledger' = 1 .. v
  BY <1>1
<1>3. schema' = [w \in Migrations |-> IF w <= v THEN "COMPLETE" ELSE "ABSENT"]
  <2>1. schema' = [w \in Migrations |-> IF w = v THEN "COMPLETE" ELSE schema[w]]
    OBVIOUS
  <2>2. ASSUME NEW w \in Migrations
        PROVE  (IF w = v THEN "COMPLETE" ELSE schema[w]) = IF w <= v THEN "COMPLETE" ELSE "ABSENT"
    <3>1. w \in 1 .. 3
      BY DEF Migrations
    <3>2. schema[w] = IF w <= v - 1 THEN "COMPLETE" ELSE "ABSENT"
      OBVIOUS
    <3>3. QED
      BY <1>1, <3>1, <3>2
  <2>3. QED
    BY <2>1, <2>2
<1>4. Accepted'
  <2>1. v \in 0 .. 3
    BY <1>1
  <2>2. QED
    BY <1>2, <1>3, <2>1 DEF Accepted
<1>5. ~Complete
  BY <1>1 DEF Complete, Migrations
<1>6. schema[v] # "COMPLETE"
  BY <1>1
<1>7. ~AllComplete
  BY <1>6 DEF AllComplete
<1>8. ledger' \subseteq Migrations
  BY <1>1, <1>2 DEF Migrations
<1>9. schema' \in [Migrations -> {"ABSENT", "COMPLETE", "PARTIAL"}]
  BY <1>3
<1>10. QED
  BY <1>2, <1>4, <1>5, <1>7, <1>8, <1>9

LEMMA NotReady == ASSUME ~Complete, ~AllComplete, NEW mode PROVE ~Ready(mode)
  BY DEF Ready

LEMMA ApplyKeeps ==
    ASSUME IInv, NEW j \in Jobs, ApplyMigration(j) PROVE IInv'
<1>1. /\ job \in [Jobs -> JobMemory] /\ job[j] \in JobMemory /\ Fits(job[j]) /\ Database
      /\ job[j].held \in BOOLEAN /\ job[j].ok \in BOOLEAN /\ job[j].plan \in SUBSET Migrations
      /\ job[j].mode = "bootstrap" /\ job[j].pc = "migrate" /\ job[j].plan # {}
  BY JobNow DEF ApplyMigration, At
<1>2. durable /\ Accepted /\ Continues(job[j].plan)
  BY <1>1 DEF Fits
<1>3. PICK v : v = CHOOSE x \in job[j].plan : \A y \in job[j].plan : x <= y
  OBVIOUS
<1> DEFINE First(x) == x \in job[j].plan /\ \A y \in job[j].plan : x <= y
<1>3a. First(v)
  <2>1. PICK k \in 1 .. 4 : job[j].plan = k .. 3
    BY <1>2 DEF Continues
  <2>2. First(k)
    BY <1>1, <2>1
  <2>3. QED
    BY <1>3, <2>2
<1>4. UNCHANGED <<durable, principal, members, grants, left>>
  BY DEF ApplyMigration
<1>5. CASE Raise(j) /\ UNCHANGED <<tables, public, faults>>
  <2>1. Lasting /\ Database'
    BY <1>4, <1>5, QuietLasts, QuietTypes DEF privileges
  <2>2. QED
    BY <1>4, <1>5, <2>1, RaiseKeeps
<1>6. CASE /\ v \notin ledger
           /\ schema' = [schema EXCEPT ![v] = "COMPLETE"]
           /\ ledger' = ledger \cup {v}
           /\ owner' = [owner EXCEPT ![v] = "bootstrap"]
           /\ public' = (public \/ v = 1)
           /\ \/ /\ job' = [job EXCEPT ![j].plan = @ \ {v}]
                 /\ UNCHANGED faults
              \/ Fault /\ Raise(j)
  <2>1. /\ v \in Migrations /\ v \in job[j].plan
        /\ schema = [w \in Migrations |-> IF w <= v - 1 THEN "COMPLETE" ELSE "ABSENT"]
        /\ ledger = 1 .. v - 1
        /\ job[j].plan = v .. 3
    BY <1>1, <1>2, <1>6, <1>3a, NextMigration
  <2>2. /\ Accepted' /\ ledger' = 1 .. v /\ ledger' \subseteq Migrations
        /\ schema' \in [Migrations -> {"ABSENT", "COMPLETE", "PARTIAL"}]
        /\ ~Complete /\ ~AllComplete
    BY <1>2, <1>6, <2>1, MigratedTables
  <2>3. Lasting
    <3>1. \A mode : ~Ready(mode)
      BY <2>2, NotReady
    <3>2. ledger \subseteq ledger'
      BY <1>6
    <3>3. QED
      BY <1>4, <2>2, <3>1, <3>2 DEF Lasting
  <2>4. faults' \in 0 .. MaxFaults
    BY <1>1, <1>6, FaultType
  <2>5. Database'
    <3>1. owner' \in [Migrations -> {"bootstrap", "durable"}]
      BY <1>1, <1>6 DEF Database
    <3>2. public' \in BOOLEAN
      BY <1>6
    <3>3. QED
      BY <1>1, <1>4, <2>2, <2>4, <3>1, <3>2 DEF Database
  <2>6. CASE Raise(j)
    BY <1>4, <2>3, <2>5, <2>6, RaiseKeeps
  <2>7. CASE job' = [job EXCEPT ![j].plan = @ \ {v}]
    <3>1. PICK p \in SUBSET Migrations : p = job[j].plan \ {v}
      BY <1>1
    <3>2. job[j].pc \in Pcs
      BY <1>1 DEF Pcs
    <3>3. PICK r \in JobMemory : r = To(job[j], "migrate", p, job[j].held, job[j].ok)
      BY <1>1, <3>2, ToType
    <3>4. /\ r.pc = "migrate" /\ r.plan = p /\ r.held = job[j].held
          /\ r.mode = job[j].mode /\ r.result = job[j].result
      BY <1>1, <3>2, <3>3, ToType
    <3>5. job' = [job EXCEPT ![j] = r]
      <4>1. job' = [job EXCEPT ![j] = [job[j] EXCEPT !.plan = p]]
        BY <1>1, <2>7, <3>1
      <4>2. [job[j] EXCEPT !.plan = p] = r
        BY <1>1, <3>3 DEF To, JobMemory
      <4>3. QED
        BY <4>1, <4>2
    <3>6. Continues(p)'
      <4>1. v \in 1 .. 3
        BY <2>1 DEF Migrations
      <4>2. p = v + 1 .. 3 /\ v + 1 \in 1 .. 4 /\ (v + 1) - 1 = v /\ v \in ledger'
        BY <2>1, <2>2, <3>1, <4>1
      <4>3. QED
        BY <4>2 DEF Continues
    <3>7. r.result = "PASS" => Ready(r.mode)'
      <4>1. r.result # "PASS"
        BY <1>1, <2>2, <3>4, NotReady DEF Fits
      <4>2. QED
        BY <4>1
    <3>8. Fits(r)'
      <4>1. Continues(r.plan)'
        BY <3>4, <3>6 DEF Continues
      <4>2. r.mode = "bootstrap" /\ durable'
        BY <1>1, <1>2, <1>4, <3>4
      <4>3. QED
        BY <2>2, <3>4, <3>7, <4>1, <4>2 DEF Fits, Holding
    <3>9. StillOwed(j, r)
      BY <1>4, <3>4 DEF StillOwed
    <3>10. QED
      BY <2>3, <2>5, <3>5, <3>8, <3>9, JobMoves
  <2>8. QED
    BY <1>6, <2>6, <2>7
<1>7. QED
  BY <1>3, <1>5, <1>6 DEF ApplyMigration


LEMMA AppliedKeeps ==
    ASSUME IInv, NEW j \in Jobs, MigrationsApplied(j) PROVE IInv'
<1>1. Lasting /\ Database' /\ UNCHANGED <<members, left, durable>>
  BY QuietLasts, QuietTypes DEF MigrationsApplied
<1>2. /\ Fits(job[j]) /\ Database /\ job[j].mode = "bootstrap" /\ job[j].pc = "migrate"
      /\ job[j].plan = {}
  BY JobNow DEF MigrationsApplied, At
<1>3. CASE Raise(j)
  BY <1>1, <1>3, RaiseKeeps
<1>4. CASE Accepted /\ Go(j, "authorise")
  <2>1. durable /\ Continues({})
    BY <1>2 DEF Fits
  <2>2. 3 \in ledger
    <3>1. PICK v \in 1 .. 4 : {} = v .. 3 /\ (v = 1 \/ v - 1 \in ledger)
      BY <2>1 DEF Continues
    <3>2. v = 4
      <4>1. v <= 3 => v \in v .. 3
        BY <3>1
      <4>2. QED
        BY <3>1, <4>1
    <3>3. QED
      BY <3>1, <3>2
  <2>3. Complete
    <3>1. PICK n \in 0 .. 3 : ledger = 1 .. n
      BY <1>4 DEF Accepted
    <3>2. n = 3
      BY <2>2, <3>1
    <3>3. QED
      BY <1>4, <3>1, <3>2 DEF Complete, Migrations
  <2>4. Complete' /\ durable'
    BY <1>1, <2>1, <2>3 DEF Lasting
  <2>5. "authorise" \in Pcs
    BY DEF Pcs
  <2>6. PICK mode : mode = job[j].mode
    OBVIOUS
  <2>7. QED
    BY <1>1, <1>2, <1>4, <2>4, <2>5, <2>6, GoKeeps DEF Holding
<1>5. QED
  BY <1>3, <1>4 DEF MigrationsApplied

LEMMA AuthoriseKeeps ==
    ASSUME IInv, NEW j \in Jobs, Authorise(j) PROVE IInv'
<1>1. /\ Fits(job[j]) /\ Database /\ job[j].mode = "bootstrap" /\ job[j].pc = "authorise"
  BY JobNow DEF Authorise, At
<1>2. durable /\ Complete
  BY <1>1 DEF Fits
<1>3. UNCHANGED <<schema, ledger, durable, principal, members, left>>
  BY DEF Authorise
<1>4. CASE Raise(j) /\ UNCHANGED <<owner, privileges, faults>>
  <2>1. Lasting /\ Database'
    BY <1>3, <1>4, QuietLasts, QuietTypes DEF tables
  <2>2. QED
    BY <1>3, <1>4, <2>1, RaiseKeeps
<1>5. CASE /\ owner' = [owner EXCEPT ![3] = "durable"]
           /\ grants' = Required
           /\ public' = FALSE
           /\ Reply(j, "validate")
  <2>1. \A v \in Migrations : owner[v] = "durable" => owner'[v] = "durable"
    BY <1>1, <1>5 DEF Database
  <2>2. Lasting
    BY <1>1, <1>3, <1>5, <2>1, UnchangedLasts
  <2>3. faults' \in 0 .. MaxFaults
    BY <1>1, <1>5, FaultType DEF Reply
  <2>4. Database'
    <3>1. owner' \in [Migrations -> {"bootstrap", "durable"}]
      BY <1>1, <1>5 DEF Database
    <3>2. QED
      BY <1>1, <1>3, <1>5, <2>3, <3>1 DEF Database
  <2>5. CASE Raise(j)
    BY <1>3, <2>2, <2>4, <2>5, RaiseKeeps
  <2>6. CASE Go(j, "validate")
    <3>1. Complete' /\ durable' /\ ~public'
      BY <1>2, <1>5, <2>2 DEF Lasting
    <3>2. "validate" \in Pcs
      BY DEF Pcs
    <3>3. PICK mode : mode = job[j].mode
      OBVIOUS
    <3>4. QED
      BY <1>1, <1>3, <2>2, <2>4, <2>6, <3>1, <3>2, <3>3, GoKeeps DEF Holding
  <2>7. QED
    BY <1>5, <2>5, <2>6 DEF Reply
<1>6. QED
  BY <1>4, <1>5 DEF Authorise

LEMMA ValidateKeeps ==
    ASSUME IInv, NEW j \in Jobs, ValidatePrivileges(j) PROVE IInv'
<1>1. Lasting /\ Database' /\ UNCHANGED <<members, left>>
  BY QuietLasts, QuietTypes DEF ValidatePrivileges
<1>2. Fits(job[j]) /\ Database /\ job[j].mode = "bootstrap" /\ job[j].pc = "validate"
  BY JobNow DEF ValidatePrivileges, At
<1>3. CASE Raise(j)
  BY <1>1, <1>3, RaiseKeeps
<1>4. CASE grants = Required /\ Go(j, "revoke")
  <2>1. PICK mode : mode = job[j].mode
    OBVIOUS
  <2>2. durable /\ Complete /\ ~public
    BY <1>2 DEF Fits
  <2>3. Ready(mode)
    BY <1>2, <1>4, <2>1, <2>2, CompleteFacts DEF Ready
  <2>4. Ready(mode)'
    BY <1>1, <2>3 DEF Lasting
  <2>5. "revoke" \in Pcs
    BY DEF Pcs
  <2>6. QED
    BY <1>1, <1>2, <1>4, <2>1, <2>4, <2>5, GoKeeps DEF Holding
<1>5. QED
  BY <1>3, <1>4 DEF ValidatePrivileges

LEMMA RevokeKeeps ==
    ASSUME IInv, NEW j \in Jobs, RevokeMembership(j) PROVE IInv'
<1>1. Lasting
  BY QuietLasts DEF RevokeMembership
<1>2. /\ job \in [Jobs -> JobMemory] /\ job[j] \in JobMemory /\ Fits(job[j]) /\ Database
      /\ job[j].plan \in SUBSET Migrations /\ job[j].ok \in BOOLEAN /\ job[j].pc = "revoke"
  BY JobNow DEF RevokeMembership
<1>3. /\ members' = members \ {Identity(job[j].mode)}
      /\ left' = left \ {Identity(job[j].mode)}
  BY DEF RevokeMembership
<1>4. faults' \in 0 .. MaxFaults
  BY <1>2, FaultType DEF RevokeMembership
<1>5. Database'
  BY <1>2, <1>3, <1>4 DEF Database, RevokeMembership, tables, privileges
<1>6. /\ members' \ left' \subseteq members \ left
      /\ Identity(job[j].mode) \notin members' \ left'
  BY <1>3
<1>7. PICK mode : mode = job[j].mode
  OBVIOUS
<1>8. CASE End(j, "FAIL")
  BY <1>1, <1>5, <1>6, <1>7, <1>8, EndKeeps
<1>9. CASE job[j].ok /\ job' = [job EXCEPT ![j].pc = "audit", ![j].held = FALSE]
  <2>1. "audit" \in Pcs
    BY DEF Pcs
  <2>2. PICK h \in BOOLEAN : h = FALSE
    OBVIOUS
  <2>3. PICK r \in JobMemory : r = To(job[j], "audit", job[j].plan, h, job[j].ok)
    BY <1>2, <2>1, ToType
  <2>4. r.pc = "audit" /\ r.held = h /\ r.mode = job[j].mode /\ r.result = job[j].result
    BY <1>2, <2>1, <2>3, ToType
  <2>5. job' = [job EXCEPT ![j] = r]
    <3>1. job' = [job EXCEPT ![j] = [job[j] EXCEPT !.pc = "audit", !.held = FALSE]]
      BY <1>2, <1>9
    <3>2. [job[j] EXCEPT !.pc = "audit", !.held = FALSE] = r
      BY <1>2, <2>2, <2>3 DEF To, JobMemory
    <3>3. QED
      BY <3>1, <3>2
  <2>6. Ready(r.mode)
    BY <1>2, <1>9, <2>4 DEF Fits
  <2>7. Ready(r.mode)'
    BY <1>1, <2>6 DEF Lasting
  <2>8. r.mode \in {"bootstrap", "repair", "drift_repair"}
    BY <1>2, <2>4 DEF Fits, Holding
  <2>9. Fits(r)'
    BY <2>2, <2>4, <2>7, <2>8 DEF Fits, Holding
  <2>10. StillOwed(j, r)
    BY <1>6 DEF StillOwed
  <2>11. QED
    BY <1>1, <1>5, <2>5, <2>9, <2>10, JobMoves
<1>10. QED
  BY <1>8, <1>9 DEF RevokeMembership

LEMMA RevokeFailsKeeps ==
    ASSUME IInv, NEW j \in Jobs, RevokeFails(j) PROVE IInv'
<1>1. Lasting
  BY QuietLasts DEF RevokeFails
<1>2. Database
  BY JobNow
<1>3. members' = members /\ left' = left \cup (members \cap {Identity(job[j].mode)})
  BY DEF RevokeFails
<1>4. faults' \in 0 .. MaxFaults
  BY <1>2, FaultType DEF RevokeFails
<1>5. Database'
  BY <1>2, <1>3, <1>4 DEF Database, RevokeFails, tables, privileges
<1>6. PICK mode : mode = job[j].mode
  OBVIOUS
<1>7. End(j, "FAIL")
  BY DEF RevokeFails
<1>8. /\ members' \ left' \subseteq members \ left
      /\ Identity(job[j].mode) \notin members' \ left'
  BY <1>3
<1>9. QED
  BY <1>1, <1>5, <1>6, <1>7, <1>8, EndKeeps

LEMMA AuditKeeps ==
    ASSUME IInv, NEW j \in Jobs, Audit(j) PROVE IInv'
<1>1. Lasting /\ Database' /\ UNCHANGED <<members, left>>
  BY QuietLasts, QuietTypes DEF Audit
<1>2. Fits(job[j]) /\ job[j].pc = "audit"
  BY JobNow DEF Audit
<1>3. PICK mode : mode = job[j].mode
  OBVIOUS
<1>4. Ready(mode)
  BY <1>2, <1>3 DEF Fits
<1>5. Ready(mode)'
  BY <1>1, <1>4 DEF Lasting
<1>6. ~job[j].held
  BY <1>2 DEF Fits, Holding
<1>7. PICK result \in {"PASS", "FAIL", "DEAD"} : End(j, result)
  BY DEF Audit
<1>8. members' \ left' \subseteq members \ left
  BY <1>1
<1>9. QED
  BY <1>1, <1>3, <1>5, <1>6, <1>7, <1>8, EndKeeps


LEMMA DurableKeeps ==
    ASSUME IInv, NEW j \in Jobs, CreateDurableOwner(j) PROVE IInv'
<1>1. /\ Fits(job[j]) /\ Database /\ job[j].mode = "remediate" /\ job[j].pc = "durable"
  BY JobNow DEF CreateDurableOwner, At
<1>2. UNCHANGED <<schema, ledger, owner, principal, members, grants, public, left>>
  BY DEF CreateDurableOwner, tables, privileges
<1>3. durable' = durable \/ durable' = TRUE
  BY DEF CreateDurableOwner
<1>4. Lasting
  BY <1>1, <1>2, <1>3, UnchangedLasts
<1>5. faults' \in 0 .. MaxFaults
  BY <1>1, FaultType DEF CreateDurableOwner, Reply
<1>6. Database'
  BY <1>1, <1>2, <1>3, <1>5 DEF Database
<1>7. ~job[j].held
  BY <1>1 DEF Fits, Holding
<1>8. CASE Raise(j)
  BY <1>2, <1>4, <1>6, <1>8, RaiseKeeps
<1>9. CASE durable' = TRUE /\ Go(j, "reassign")
  <2>1. PICK mode : mode = job[j].mode
    OBVIOUS
  <2>2. "reassign" \in Pcs
    BY DEF Pcs
  <2>3. QED
    BY <1>2, <1>4, <1>6, <1>7, <1>9, <2>1, <2>2, GoKeeps DEF Holding
<1>10. QED
  BY <1>8, <1>9 DEF CreateDurableOwner, Reply

LEMMA ReassignKeeps ==
    ASSUME IInv, NEW j \in Jobs, ReassignOwned(j) PROVE IInv'
<1>1. /\ Fits(job[j]) /\ Database /\ job[j].mode = "remediate" /\ job[j].pc = "reassign"
  BY JobNow DEF ReassignOwned, At
<1>2. durable /\ ~job[j].held
  BY <1>1 DEF Fits, Holding
<1>3. UNCHANGED <<schema, ledger, durable, principal, members, grants, public, left>>
  BY DEF ReassignOwned, privileges
<1>4. faults' \in 0 .. MaxFaults
  BY <1>1, FaultType DEF ReassignOwned
<1>5. PICK mode : mode = job[j].mode
  OBVIOUS
<1>6. members' \ left' \subseteq members \ left
  BY <1>3
<1>7. CASE End(j, "FAIL") /\ owner' = owner
  <2>1. Lasting /\ Database'
    <3>1. Lasting
      BY <1>1, <1>3, <1>7, UnchangedLasts
    <3>2. QED
      BY <1>1, <1>3, <1>4, <1>7, <3>1 DEF Database
  <2>2. QED
    BY <1>2, <1>5, <1>6, <1>7, <2>1, EndKeeps
<1>8. ASSUME NEW result \in {"PASS", "FAIL"}, End(j, result), Complete,
             owner' = [v \in Migrations |-> "durable"]
      PROVE  IInv'
  <2>1. \A v \in Migrations : owner'[v] = "durable"
    BY <1>8
  <2>2. Lasting
    BY <1>1, <1>3, <2>1, UnchangedLasts
  <2>3. Database'
    <3>1. owner' \in [Migrations -> {"bootstrap", "durable"}]
      BY <1>8
    <3>2. QED
      BY <1>1, <1>3, <1>4, <3>1 DEF Database
  <2>4. Complete'
    BY <1>8, <2>2 DEF Lasting
  <2>5. Ready(mode)'
    BY <1>1, <1>2, <1>3, <1>5, <2>1, <2>4 DEF Ready
  <2>6. QED
    BY <1>2, <1>5, <1>6, <1>8, <2>2, <2>3, <2>5, EndKeeps
<1>9. QED
  BY <1>7, <1>8 DEF ReassignOwned

\* A repair that goes to its finally block, with a membership to take back.
LEMMA RepairHolds ==
    ASSUME IInv, Lasting, Database', NEW j \in Jobs, job[j].pc = "restore",
           NEW k \in BOOLEAN,
           job' = [job EXCEPT ![j] = [@ EXCEPT !.pc = "revoke", !.held = TRUE, !.ok = k]],
           UNCHANGED left, members' \subseteq members \cup {"repair"},
           NEW mode, mode = job[j].mode, k => Ready(mode)'
    PROVE  IInv'
<1>1. /\ job \in [Jobs -> JobMemory] /\ job[j] \in JobMemory /\ Fits(job[j])
      /\ job[j].plan \in SUBSET Migrations
  BY JobNow
<1>2. "revoke" \in Pcs
  BY DEF Pcs
<1>3. PICK h \in BOOLEAN : h = TRUE
  OBVIOUS
<1>4. PICK r \in JobMemory : r = To(job[j], "revoke", job[j].plan, h, k)
  BY <1>1, <1>2, ToType
<1>5. /\ r.pc = "revoke" /\ r.held = h /\ r.ok = k /\ r.mode = job[j].mode
      /\ r.result = job[j].result
  BY <1>1, <1>2, <1>4, ToType
<1>6. job' = [job EXCEPT ![j] = r]
  <2>1. job' = [job EXCEPT ![j] = [job[j] EXCEPT !.pc = "revoke", !.held = TRUE, !.ok = k]]
    BY <1>1
  <2>2. [job[j] EXCEPT !.pc = "revoke", !.held = TRUE, !.ok = k] = r
    BY <1>1, <1>3, <1>4 DEF To, JobMemory
  <2>3. QED
    BY <2>1, <2>2
<1>7. r.mode \in {"repair", "drift_repair"} /\ ~job[j].held
  BY <1>1, <1>5 DEF Fits, Holding
<1>8. r.result = "PASS" => Ready(r.mode)'
  <2>1. r.result = "PASS" => Ready(r.mode)
    BY <1>1, <1>5 DEF Fits
  <2>2. QED
    BY <2>1 DEF Lasting
<1>9. r.ok => Ready(r.mode)'
  BY <1>5
<1>10. Fits(r)'
  BY <1>3, <1>5, <1>7, <1>8, <1>9 DEF Fits, Holding
<1>11. StillOwed(j, r)
  <2>1. Identity(r.mode) = "repair"
    BY <1>7 DEF Identity
  <2>2. QED
    BY <1>3, <1>5, <1>7, <2>1 DEF StillOwed
<1>12. QED
  BY <1>6, <1>10, <1>11, JobMoves

LEMMA RestoreKeeps ==
    ASSUME IInv, NEW j \in Jobs, RestorePrivileges(j) PROVE IInv'
<1>1. /\ Fits(job[j]) /\ Database /\ job[j].pc = "restore" /\ job \in [Jobs -> JobMemory]
      /\ job[j] \in JobMemory /\ job[j].ok \in BOOLEAN
  BY JobNow DEF RestorePrivileges
<1>2. job[j].mode \in {"repair", "drift_repair"} /\ ~job[j].held
  BY <1>1 DEF Fits, Holding
<1>3. PICK mode : mode = job[j].mode
  OBVIOUS
<1>4. UNCHANGED <<schema, ledger, owner, durable, principal>>
  BY DEF RestorePrivileges, tables
<1>5. faults' \in 0 .. MaxFaults
  BY <1>1, FaultType DEF RestorePrivileges
<1>6. CASE End(j, "FAIL") /\ UNCHANGED <<privileges, members, left, faults>>
  <2>1. Lasting /\ Database'
    BY <1>4, <1>6, QuietLasts, QuietTypes DEF tables
  <2>2. members' \ left' \subseteq members \ left
    BY <1>6
  <2>3. QED
    BY <1>2, <1>3, <1>6, <2>1, <2>2, EndKeeps
<1>7. CASE /\ MayRepair(job[j].mode)
           /\ grants' = Required
           /\ public' = FALSE
           /\ members' = members \cup {"repair"}
  <2>1. Lasting
    BY <1>1, <1>4, <1>7, UnchangedLasts
  <2>2. left' = left \/ left' = left \cup {"repair"}
    BY <1>7 DEF RestorePrivileges
  <2>3. Database'
    BY <1>1, <1>4, <1>5, <1>7, <2>2 DEF Database
  <2>4. Ready(mode)'
    <3>1. durable /\ AllComplete
      BY <1>7 DEF MayRepair, AllComplete
    <3>2. durable' /\ AllComplete'
      BY <1>4, <3>1 DEF AllComplete
    <3>3. QED
      BY <1>2, <1>3, <1>7, <3>2 DEF Ready
  <2>5. CASE End(j, "FAIL") /\ left' = left \cup {"repair"}
    <3>1. members' \ left' \subseteq members \ left
      BY <1>7, <2>5
    <3>2. QED
      BY <1>2, <1>3, <2>1, <2>3, <2>5, <3>1, EndKeeps
  <2>6. CASE job' = [job EXCEPT ![j].pc = "revoke", ![j].held = TRUE] /\ UNCHANGED left
    <3>1. job' = [job EXCEPT ![j] = [@ EXCEPT !.pc = "revoke", !.held = TRUE, !.ok = job[j].ok]]
      <4>1. job' = [job EXCEPT ![j] = [job[j] EXCEPT !.pc = "revoke", !.held = TRUE]]
        BY <1>1, <2>6
      <4>2. [job[j] EXCEPT !.pc = "revoke", !.held = TRUE]
                = [job[j] EXCEPT !.pc = "revoke", !.held = TRUE, !.ok = job[j].ok]
        BY <1>1 DEF JobMemory
      <4>3. QED
        BY <1>1, <4>1, <4>2
    <3>2. QED
      BY <1>1, <1>3, <1>7, <2>1, <2>3, <2>4, <2>6, <3>1, RepairHolds
  <2>7. CASE /\ job' = [job EXCEPT ![j].pc = "revoke", ![j].held = TRUE, ![j].ok = FALSE]
             /\ UNCHANGED left
    <3>1. PICK k \in BOOLEAN : k = FALSE
      OBVIOUS
    <3>2. job' = [job EXCEPT ![j] = [@ EXCEPT !.pc = "revoke", !.held = TRUE, !.ok = k]]
      BY <1>1, <2>7, <3>1
    <3>3. QED
      BY <1>1, <1>3, <1>7, <2>1, <2>3, <2>4, <2>7, <3>2, RepairHolds
  <2>8. QED
    BY <1>7, <2>5, <2>6, <2>7 DEF RestorePrivileges
<1>8. QED
  BY <1>6, <1>7 DEF RestorePrivileges

LEMMA FailsKeeps ==
    ASSUME IInv, NEW j \in Jobs, StatementFails(j) PROVE IInv'
<1>1. Lasting /\ Database' /\ UNCHANGED <<members, left>>
  BY QuietLasts, QuietTypes DEF StatementFails
<1>2. CASE Raise(j)
  BY <1>1, <1>2, RaiseKeeps
<1>3. CASE /\ At(j, "drift_repair", "restore")
           /\ job' = [job EXCEPT ![j].pc = "revoke", ![j].held = TRUE, ![j].ok = FALSE]
  <2>1. job \in [Jobs -> JobMemory]
    BY JobNow
  <2>2. PICK k \in BOOLEAN : k = FALSE
    OBVIOUS
  <2>3. job' = [job EXCEPT ![j] = [@ EXCEPT !.pc = "revoke", !.held = TRUE, !.ok = k]]
    BY <1>3, <2>1, <2>2
  <2>4. PICK mode : mode = job[j].mode
    OBVIOUS
  <2>5. QED
    BY <1>1, <1>3, <2>2, <2>3, <2>4, RepairHolds DEF At
<1>4. QED
  BY <1>2, <1>3 DEF StatementFails

LEMMA DieKeeps ==
    ASSUME IInv, NEW j \in Jobs, Die(j) PROVE IInv'
<1>1. Lasting
  BY QuietLasts DEF Die
<1>2. Database
  BY JobNow
<1>3. /\ members' = members
      /\ left' = left \cup (IF job[j].held THEN members \cap {Identity(job[j].mode)} ELSE {})
  BY DEF Die
<1>4. faults' \in 0 .. MaxFaults
  BY <1>2, FaultType DEF Die
<1>5. left' \subseteq members'
  BY <1>2, <1>3 DEF Database
<1>6. Database'
  BY <1>2, <1>3, <1>4, <1>5 DEF Database, Die, tables, privileges
<1>7. PICK mode : mode = job[j].mode
  OBVIOUS
<1>8. End(j, "DEAD")
  BY DEF Die
<1>9. /\ members' \ left' \subseteq members \ left
      /\ job[j].held => Identity(job[j].mode) \notin members' \ left'
  BY <1>3
<1>10. QED
  BY <1>1, <1>6, <1>7, <1>8, <1>9, EndKeeps

-----------------------------------------------------------------------------
(* The invariant.                                                          *)

LEMMA InvariantAtStart == Init => IInv
<1> SUFFICES ASSUME Init PROVE IInv
  OBVIOUS
<1>1. Idle \in JobMemory
  BY DEF Idle, JobMemory, Pcs
<1>2. job \in [Jobs -> JobMemory]
  BY <1>1 DEF Init
<1>3. owner \in [Migrations -> {"bootstrap", "durable"}]
  BY DEF Init
<1>4. grants \subseteq Required /\ faults \in 0 .. MaxFaults
  BY BootstrapAssumption DEF Init
<1>5. Database
  BY <1>3, <1>4 DEF Init, Database
<1>6. TypeOK
  BY <1>2, <1>5, TypeParts
<1>7. \A j \in Jobs : Fits(job[j])
  BY DEF Init, Fits, Idle, Holding
<1>8. MembershipIsTakenBack
  BY DEF Init, MembershipIsTakenBack
<1>9. QED
  BY <1>6, <1>7, <1>8 DEF IInv

LEMMA InvariantKept == IInv /\ [Next]_vars => IInv'
<1> SUFFICES ASSUME IInv, [Next]_vars PROVE IInv'
  OBVIOUS
<1>1. ASSUME NEW j \in Jobs, JobSteps(j) PROVE IInv'
  BY <1>1, PrincipalKeeps, CheckKeeps, GrantKeeps, PlanKeeps, ApplyKeeps, AppliedKeeps,
     AuthoriseKeeps, ValidateKeeps, RevokeKeeps, AuditKeeps, DurableKeeps, ReassignKeeps,
     RestoreKeeps DEF JobSteps
<1>2. ASSUME NEW j \in Jobs, RevokeFails(j) \/ StatementFails(j) \/ Die(j) PROVE IInv'
  BY <1>2, RevokeFailsKeeps, FailsKeeps, DieKeeps
<1>3. ASSUME NEW j \in Jobs, NEW mode \in Modes, Start(j, mode) PROVE IInv'
  BY <1>3, StartKeeps
<1>4. CASE UNCHANGED vars
  <2>1. TypeOK'
    BY <1>4 DEF vars, tables, privileges, TypeOK, IInv
  <2>2. \A j \in Jobs : Fits(job[j])'
    BY <1>4 DEF vars, tables, privileges, IInv, Fits, Ready, Complete, Accepted,
                AllComplete, Continues
  <2>3. MembershipIsTakenBack'
    BY <1>4 DEF vars, IInv, MembershipIsTakenBack, Identity
  <2>4. QED
    BY <2>1, <2>2, <2>3 DEF IInv
<1>5. QED
  BY <1>1, <1>2, <1>3, <1>4 DEF Next

\* A migration is the only step that changes the tables, and applies the next one.
LEMMA MigrationStep ==
    ASSUME IInv, [Next]_vars, <<schema, ledger>>' # <<schema, ledger>>
    PROVE  Accepted /\ Accepted' /\ Cardinality(ledger') = Cardinality(ledger) + 1
<1>1. PICK j \in Jobs : ApplyMigration(j) /\ ~UNCHANGED <<schema, ledger>>
  <2>1. Next
    BY DEF vars, tables
  <2>2. PICK j \in Jobs :
            \/ \E mode \in Modes : Start(j, mode)
            \/ JobSteps(j) \/ RevokeFails(j) \/ StatementFails(j) \/ Die(j)
    BY <2>1 DEF Next
  <2>3. ~JobSteps(j) => UNCHANGED <<schema, ledger>>
    BY <2>2 DEF Start, RevokeFails, StatementFails, Die, tables
  <2>4. JobSteps(j) /\ ~ApplyMigration(j) => UNCHANGED <<schema, ledger>>
    BY DEF JobSteps, EnsureRuntimePrincipal, CheckMembership, GrantMembership,
           PlanMigrations, MigrationsApplied, Authorise, ValidatePrivileges,
           RevokeMembership, Audit, CreateDurableOwner, ReassignOwned,
           RestorePrivileges, tables
  <2>5. QED
    BY <2>3, <2>4
<1>2. /\ Fits(job[j]) /\ job[j].pc = "migrate" /\ job[j].plan # {}
      /\ job[j].plan \in SUBSET Migrations /\ ledger \subseteq Migrations
  BY <1>1, JobNow DEF ApplyMigration, At, Database
<1>3. Accepted /\ Continues(job[j].plan)
  BY <1>2 DEF Fits
<1>4. PICK v : v = CHOOSE x \in job[j].plan : \A y \in job[j].plan : x <= y
  OBVIOUS
<1> DEFINE First(x) == x \in job[j].plan /\ \A y \in job[j].plan : x <= y
<1>5. First(v)
  <2>1. PICK k \in 1 .. 4 : job[j].plan = k .. 3
    BY <1>3 DEF Continues
  <2>2. First(k)
    BY <1>2, <2>1
  <2>3. QED
    BY <1>4, <2>2
<1>6. /\ v \notin ledger
      /\ schema' = [schema EXCEPT ![v] = "COMPLETE"]
      /\ ledger' = ledger \cup {v}
  BY <1>1, <1>4 DEF ApplyMigration, tables
<1>7. /\ v \in Migrations
      /\ schema = [w \in Migrations |-> IF w <= v - 1 THEN "COMPLETE" ELSE "ABSENT"]
      /\ ledger = 1 .. v - 1
  BY <1>2, <1>3, <1>5, <1>6, NextMigration
<1>8. Accepted'
  BY <1>3, <1>6, <1>7, MigratedTables
<1>9. Cardinality(ledger') = Cardinality(ledger) + 1
  <2>1. IsFiniteSet(ledger)
    <3>1. v - 1 \in Int /\ 1 \in Int
      BY <1>7 DEF Migrations
    <3>2. QED
      BY <1>7, <3>1, FS_Interval
  <2>2. QED
    BY <1>6, <2>1, FS_AddElement
<1>10. QED
  BY <1>3, <1>8, <1>9

\* What the jobs know and hold, of the tables, the privileges and the memberships,
\* is so in every state that any number of overlapping executions can reach.
THEOREM InductiveInvariant == Spec => []IInv
<1>1. Init => IInv
  BY InvariantAtStart
<1>2. IInv /\ [Next]_vars => IInv'
  BY InvariantKept
<1>3. QED
  BY <1>1, <1>2, PTL DEF Spec

\* Tables, owners, privileges, memberships and memories keep their types.
THEOREM TypeCorrect == Spec => []TypeOK
<1>1. IInv => TypeOK
  BY DEF IInv
<1>2. QED
  BY <1>1, InductiveInvariant, PTL

\* What a job that passed reported is so and stays so, whatever other executions do.
THEOREM PassIsTrue == Spec => []PassMeansReady
<1>1. IInv => PassMeansReady
  BY DEF IInv, PassMeansReady, Fits, Ready
<1>2. QED
  BY <1>1, InductiveInvariant, PTL

\* Somebody is left to take back every temporary membership, unless a death or a
\* failed statement is to blame.
THEOREM MembershipsEnd == Spec => []MembershipIsTakenBack
<1>1. IInv => MembershipIsTakenBack
  BY DEF IInv
<1>2. QED
  BY <1>1, InductiveInvariant, PTL

\* The tables and their ledger change by one whole migration at a time.
THEOREM OneMigrationAtATime == Spec => SchemaIsOnlyMigrated
<1>1. IInv /\ [Next]_vars =>
          [<<schema, ledger>>' # <<schema, ledger>>
           => Accepted /\ Accepted' /\ Cardinality(ledger') = Cardinality(ledger) + 1]_vars
  BY MigrationStep
<1>2. QED
  BY <1>1, InductiveInvariant, PTL DEF Spec, SchemaIsOnlyMigrated
=============================================================================
