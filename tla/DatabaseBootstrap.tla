-------------------------- MODULE DatabaseBootstrap --------------------------
(***************************************************************************)
(* The administrative jobs of the execution database                       *)
(* (src/ig_trader/db_bootstrap.py): bootstrap-admin, ownership-remediate,  *)
(* privilege-repair and privilege-drift-repair.  Each is a finite job an   *)
(* operator starts by hand; two may overlap, one may die or lose the reply *)
(* of a statement.  The read-only modes change nothing and are left out.   *)
(*                                                                         *)
(* The objects, their ledger rows and their privileges are grouped by the  *)
(* migration that makes them.                                              *)
(***************************************************************************)
EXTENDS Integers, FiniteSets, FiniteSetsExt

CONSTANTS
    Jobs,       \* executions that may be under way together
    MaxFaults   \* bound: deaths, failed statements and lost replies

ASSUME BootstrapAssumption == MaxFaults \in Nat

VARIABLES
    schema,     \* per migration, what inspect_schema finds of its objects
    ledger,     \* versions in trading.schema_migrations, checksum included
    owner,      \* per migration, the role that owns its objects
    durable,    \* the role ig_trader_schema_owner exists
    principal,  \* the runtime identity has its database principal
    members,    \* temporary members of the durable owner role
    grants,     \* required privileges the runtime role has
    public,     \* PUBLIC may execute reject_append_only_mutation()
    job,        \* per execution, what its memory holds
    left,       \* identities whose membership no code is left to take back
    faults      \* faults so far

tables == <<schema, ledger, owner>>
privileges == <<grants, public>>
vars == <<tables, durable, principal, members, privileges, job, left, faults>>

Migrations == 1 .. 3
Connect == 4
Usage == 5
Required == Migrations \cup {Connect, Usage}

\* How many labels of missing_required each group of privileges stands for.
Weight == <<19, 8, 3, 1, 1>>
Missing == MapThenSumSet(LAMBDA g : Weight[g], Required \ grants)

Modes == {"bootstrap", "remediate", "repair", "drift_repair"}
Identity(mode) == CASE mode = "bootstrap" -> "bootstrap"
                    [] mode = "remediate" -> "remediation"
                    [] OTHER -> "repair"

\* plan_migrations: what is there is an unbroken, recorded prefix.
Accepted == \E n \in 0 .. 3 : /\ schema = [v \in Migrations |-> IF v <= n THEN "COMPLETE"
                                                               ELSE "ABSENT"]
                              /\ ledger = 1 .. n
Complete == Accepted /\ ledger = Migrations

Idle == [mode |-> "none", pc |-> "off", plan |-> {}, held |-> FALSE, ok |-> TRUE,
         result |-> "none"]
Ended(mode, result) == [Idle EXCEPT !.mode = mode, !.pc = "ended", !.result = result]

TypeOK ==
    /\ schema \in [Migrations -> {"ABSENT", "COMPLETE", "PARTIAL"}]
    /\ ledger \subseteq Migrations
    /\ owner \in [Migrations -> {"bootstrap", "durable"}]
    /\ durable \in BOOLEAN /\ principal \in BOOLEAN /\ public \in BOOLEAN
    /\ members \subseteq {"bootstrap", "repair"}
    /\ grants \subseteq Required
    /\ job \in [Jobs -> [mode : Modes \cup {"none"}, pc : {"off", "principal", "member",
                  "grant", "plan", "migrate", "authorise", "validate", "revoke", "durable",
                  "reassign", "restore", "audit", "ended"},
                  plan : SUBSET Migrations, held : BOOLEAN, ok : BOOLEAN,
                  result : {"none", "PASS", "FAIL", "DEAD"}]]
    /\ left \subseteq members
    /\ faults \in 0 .. MaxFaults

(* A database as people left it: migrated as far as any version, drifted   *)
(* or complete with any privileges taken away.                             *)
Init ==
    /\ schema \in [Migrations -> {"ABSENT", "COMPLETE", "PARTIAL"}]
    /\ ledger \in SUBSET Migrations
    /\ (schema[1] = "ABSENT") => (ledger = {})
    /\ durable \in BOOLEAN /\ principal \in BOOLEAN
    /\ \E n \in 0 .. 3 : owner = [v \in Migrations |-> IF v <= n THEN "durable" ELSE "bootstrap"]
    /\ (~durable \/ ~Accepted) => owner = [v \in Migrations |-> "bootstrap"]
    /\ \A v \in Migrations : schema[v] = "ABSENT" => owner[v] = "bootstrap"
    /\ grants \in SUBSET Required /\ (~Complete \/ ~principal => grants = {})
    /\ public \in BOOLEAN /\ (schema[1] = "ABSENT" => ~public)
    /\ members = {} /\ left = {} /\ faults = 0
    /\ job = [j \in Jobs |-> Idle]

At(j, mode, pc) == job[j].mode = mode /\ job[j].pc = pc
Go(j, pc) == job' = [job EXCEPT ![j].pc = pc]
End(j, result) == job' = [job EXCEPT ![j] = Ended(@.mode, result)]

\* Mutant of Raise: the error leaves past the finally block.
RaisePastFinally(j) == End(j, "FAIL")

\* An exception: through the finally block when membership_granted is set.
Raise(j) ==
    IF job[j].held THEN job' = [job EXCEPT ![j].pc = "revoke", ![j].ok = FALSE]
    ELSE End(j, "FAIL")

Fault == faults < MaxFaults /\ faults' = faults + 1

\* The reply of a statement or commit that took effect comes or is lost.
Reply(j, pc) == \/ Go(j, pc) /\ UNCHANGED faults
                \/ Fault /\ Raise(j)

\* The operator starts a job.
Start(j, mode) ==
    /\ job[j].pc \in {"off", "ended"}
    /\ job' = [job EXCEPT ![j] = [Idle EXCEPT !.mode = mode,
                 !.pc = CASE mode = "bootstrap" -> "principal"
                          [] mode = "remediate" -> "durable"
                          [] OTHER -> "restore"]]
    /\ UNCHANGED <<tables, durable, principal, members, privileges, left, faults>>

(* bootstrap-admin                                                         *)

EnsureRuntimePrincipal(j) ==
    /\ At(j, "bootstrap", "principal")
    /\ IF durable
       THEN principal' = TRUE /\ Reply(j, "member")
       ELSE Raise(j) /\ UNCHANGED <<principal, faults>>
    /\ UNCHANGED <<tables, durable, members, privileges, left>>

\* membership_granted is set before the GRANT is sent.
CheckMembership(j) ==
    /\ At(j, "bootstrap", "member")
    /\ IF "bootstrap" \in members THEN Raise(j)
       ELSE job' = [job EXCEPT ![j].pc = "grant", ![j].held = TRUE]
    /\ UNCHANGED <<tables, durable, principal, members, privileges, left, faults>>

GrantMembership(j) ==
    /\ At(j, "bootstrap", "grant")
    /\ members' = members \cup {"bootstrap"}
    /\ Reply(j, "plan")
    /\ UNCHANGED <<tables, durable, principal, privileges, left>>

\* Mutant of PlanMigrations: what is not complete is applied.
PlanWhatIsMissing(j) ==
    /\ At(j, "bootstrap", "plan")
    /\ job' = [job EXCEPT ![j].plan = {v \in Migrations : schema[v] # "COMPLETE"},
                          ![j].pc = "migrate"]
    /\ UNCHANGED <<tables, durable, principal, members, privileges, left, faults>>

PlanMigrations(j) ==
    /\ At(j, "bootstrap", "plan")
    /\ IF Accepted
       THEN job' = [job EXCEPT ![j].plan = Migrations \ ledger, ![j].pc = "migrate"]
       ELSE Raise(j)
    /\ UNCHANGED <<tables, durable, principal, members, privileges, left, faults>>

\* The bootstrap identity may change the objects of migration v.
MayChange(v) == owner[v] = "bootstrap" \/ "bootstrap" \in members

\* One migration: its body and its ledger row commit together.  The row's
\* primary key and the rights of the identity stop what another job did.
ApplyMigration(j) ==
    /\ At(j, "bootstrap", "migrate") /\ job[j].plan # {}
    /\ LET v == CHOOSE x \in job[j].plan : \A y \in job[j].plan : x <= y IN
       IF v \notin ledger /\ \A w \in 1 .. v - 1 : MayChange(w)
       THEN /\ schema' = [schema EXCEPT ![v] = "COMPLETE"]
            /\ ledger' = ledger \cup {v}
            /\ owner' = [owner EXCEPT ![v] = "bootstrap"]
            /\ public' = (public \/ v = 1)
            /\ \/ /\ job' = [job EXCEPT ![j].plan = @ \ {v}]
                  /\ UNCHANGED faults
               \/ Fault /\ Raise(j)
       ELSE Raise(j) /\ UNCHANGED <<tables, public, faults>>
    /\ UNCHANGED <<durable, principal, members, grants, left>>

MigrationsApplied(j) ==
    /\ At(j, "bootstrap", "migrate") /\ job[j].plan = {}
    /\ IF Accepted THEN Go(j, "authorise") ELSE Raise(j)
    /\ UNCHANGED <<tables, durable, principal, members, privileges, left, faults>>

\* Mutant of Authorise: the REVOKE from PUBLIC is not among the statements.
AuthoriseForPublic(j) ==
    /\ At(j, "bootstrap", "authorise")
    /\ owner[3] = "bootstrap" => "bootstrap" \in members
    /\ \A v \in Migrations : MayChange(v)
    /\ owner' = [owner EXCEPT ![3] = "durable"]
    /\ grants' = Required
    /\ Reply(j, "validate")
    /\ UNCHANGED <<schema, ledger, durable, principal, members, public, left>>

\* The shadow table's owner and every grant change in one transaction.
Authorise(j) ==
    /\ At(j, "bootstrap", "authorise")
    /\ IF /\ owner[3] = "bootstrap" => "bootstrap" \in members
          /\ \A v \in Migrations : MayChange(v)
       THEN /\ owner' = [owner EXCEPT ![3] = "durable"]
            /\ grants' = Required
            /\ public' = FALSE
            /\ Reply(j, "validate")
       ELSE Raise(j) /\ UNCHANGED <<owner, privileges, faults>>
    /\ UNCHANGED <<schema, ledger, durable, principal, members, left>>

\* read_runtime_privileges does not look at what PUBLIC may execute.
ValidatePrivileges(j) ==
    /\ At(j, "bootstrap", "validate")
    /\ IF grants = Required THEN Go(j, "revoke") ELSE Raise(j)
    /\ UNCHANGED <<tables, durable, principal, members, privileges, left, faults>>

(* The end of a membership                                                 *)

RevokeMembership(j) ==
    /\ job[j].pc = "revoke"
    /\ LET mode == job[j].mode
           id == Identity(mode) IN
       /\ members' = members \ {id}
       /\ left' = left \ {id}
       /\ \/ /\ IF ~job[j].ok THEN End(j, "FAIL")
                ELSE job' = [job EXCEPT ![j].pc = "audit", ![j].held = FALSE]
             /\ UNCHANGED faults
          \/ Fault /\ End(j, "FAIL")
    /\ UNCHANGED <<tables, durable, principal, privileges>>

\* The REVOKE itself fails: nothing tries again.
RevokeFails(j) ==
    /\ job[j].pc = "revoke"
    /\ left' = left \cup (members \cap {Identity(job[j].mode)})
    /\ Fault /\ End(j, "FAIL")
    /\ UNCHANGED <<tables, durable, principal, members, privileges>>

\* The membership is gone; a repair also reads its privileges again.
Audit(j) ==
    /\ job[j].pc = "audit"
    /\ IF /\ Identity(job[j].mode) \notin members
          /\ job[j].mode # "bootstrap" => grants = Required /\ ~public
       THEN End(j, "PASS") ELSE End(j, "FAIL")
    /\ UNCHANGED <<tables, durable, principal, members, privileges, left, faults>>

(* ownership-remediate                                                     *)

CreateDurableOwner(j) ==
    /\ At(j, "remediate", "durable")
    /\ IF principal
       THEN durable' = TRUE /\ Reply(j, "reassign")
       ELSE Raise(j) /\ UNCHANGED <<durable, faults>>
    /\ UNCHANGED <<tables, principal, members, privileges, left>>

ReassignOwned(j) ==
    /\ At(j, "remediate", "reassign")
    /\ IF Complete /\ "bootstrap" \notin members
       THEN /\ owner' = [v \in Migrations |-> "durable"]
            /\ \/ End(j, "PASS") /\ UNCHANGED faults
               \/ Fault /\ End(j, "FAIL")
       ELSE End(j, "FAIL") /\ UNCHANGED <<owner, faults>>
    /\ UNCHANGED <<schema, ledger, durable, principal, members, privileges, left>>

(* privilege-repair and privilege-drift-repair                             *)

MayRepair(mode) ==
    /\ durable /\ principal
    /\ \A v \in Migrations : schema[v] = "COMPLETE"
    /\ IF mode = "repair" THEN ~public ELSE public /\ Missing = 28
    /\ public => owner[1] = "durable"
    /\ Usage \notin grants => owner[1] = "durable"
    /\ \A v \in Migrations \ grants : owner[v] = "durable"

\* privilege-repair learns of its membership from the reply of the commit,
\* privilege-drift-repair before it sends it.
RestorePrivileges(j) ==
    /\ job[j].pc = "restore"
    /\ IF MayRepair(job[j].mode)
       THEN /\ grants' = Required
            /\ public' = FALSE
            /\ members' = members \cup {"repair"}
            /\ \/ /\ job' = [job EXCEPT ![j].pc = "revoke", ![j].held = TRUE]
                  /\ UNCHANGED <<left, faults>>
               \/ /\ Fault
                  /\ IF job[j].mode = "repair"
                     THEN End(j, "FAIL") /\ left' = left \cup {"repair"}
                     ELSE /\ job' = [job EXCEPT ![j].pc = "revoke", ![j].held = TRUE,
                                                ![j].ok = FALSE]
                          /\ UNCHANGED left
       ELSE End(j, "FAIL") /\ UNCHANGED <<privileges, members, left, faults>>
    /\ UNCHANGED <<tables, durable, principal>>

(* What stops a job                                                        *)

\* A statement fails and changes nothing; privilege-drift-repair takes back the
\* membership its transaction did not give, which may be another job's.
StatementFails(j) ==
    /\ job[j].pc \notin {"off", "ended", "revoke"}
    /\ Fault
    /\ \/ Raise(j)
       \/ /\ At(j, "drift_repair", "restore") /\ MayRepair("drift_repair")
          /\ job' = [job EXCEPT ![j].pc = "revoke", ![j].held = TRUE, ![j].ok = FALSE]
    /\ UNCHANGED <<tables, durable, principal, members, privileges, left>>

Die(j) ==
    /\ job[j].pc \notin {"off", "ended"}
    /\ Fault /\ End(j, "DEAD")
    /\ left' = left \cup (IF job[j].held THEN members \cap {Identity(job[j].mode)} ELSE {})
    /\ UNCHANGED <<tables, durable, principal, members, privileges>>

JobSteps(j) ==
    \/ EnsureRuntimePrincipal(j) \/ CheckMembership(j) \/ GrantMembership(j)
    \/ PlanMigrations(j) \/ ApplyMigration(j) \/ MigrationsApplied(j)
    \/ Authorise(j) \/ ValidatePrivileges(j) \/ RevokeMembership(j) \/ Audit(j)
    \/ CreateDurableOwner(j) \/ ReassignOwned(j) \/ RestorePrivileges(j)

Next == \E j \in Jobs :
    \/ \E mode \in Modes : Start(j, mode)
    \/ JobSteps(j) \/ RevokeFails(j) \/ StatementFails(j) \/ Die(j)

Spec == Init /\ [][Next]_vars

-----------------------------------------------------------------------------
(* Properties                                                              *)

(* The tables and their ledger change only together, from a state the plan *)
(* accepts to the next one, whatever dies between two statements and       *)
(* however two jobs overlap (apply_required_migrations).                   *)
SchemaIsOnlyMigrated ==
    [][<<schema, ledger>>' # <<schema, ledger>>
       => Accepted /\ Accepted' /\ Cardinality(ledger') = Cardinality(ledger) + 1]_vars

(* What a job that passed reported is so, and stays so: the runtime role   *)
(* has exactly its privileges, PUBLIC none; a remediated database is       *)
(* complete and durably owned (the PASS classifications).                  *)
PassMeansReady ==
    \A j \in Jobs : job[j].result = "PASS" =>
        /\ durable
        /\ job[j].mode \in {"bootstrap", "remediate"} => Complete
        /\ job[j].mode = "remediate" => \A v \in Migrations : owner[v] = "durable"
        /\ job[j].mode # "remediate" => grants = Required /\ ~public

(* A temporary membership in the durable owner is always one that a job in *)
(* its finally block will take back, or one whose job died or lost the     *)
(* statement that nothing repeats (membership_granted).                    *)
MembershipIsTakenBack ==
    \A id \in members \ left : \E j \in Jobs : job[j].held /\ Identity(job[j].mode) = id
=============================================================================
