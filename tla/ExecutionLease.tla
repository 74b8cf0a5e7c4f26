--------------------------- MODULE ExecutionLease ---------------------------
(***************************************************************************)
(* The execution lease of execution_lease.py and the SQL functions of      *)
(* migration 002 it calls.                                                 *)
(*                                                                         *)
(* Replicas (Process) run concurrently, each with a coordinator that       *)
(* believes or does not believe it holds the lease.  The authority is one  *)
(* PostgreSQL row.  A fenced transaction locks that row from its fence     *)
(* check to its end, so every other statement on the row waits for it; it  *)
(* lives in the server and may outlive the client that opened it.  Replies *)
(* get lost, clients crash, and the lease expires by the server's clock.   *)
(*                                                                         *)
(* The three single-statement calls (acquire's upsert, renew, release)     *)
(* take effect in one step: each is a transaction of its own, its row lock *)
(* hides it until it commits.  Drawing a fencing token is NOT part of that *)
(* step: nextval runs before the conflicting row is locked.                *)
(***************************************************************************)
EXTENDS Naturals, Sequences

CONSTANTS
    Process,        \* replicas that may run the execution worker
    Enabled,        \* those configured with execution_enabled = True
    ReplicaName,    \* Process -> holder instance id; two may share a hostname
    NoProcess,
    NoName,
    TTL,            \* clock ticks a granted or renewed lease lives
    MaxToken,       \* bound: fencing tokens the sequence hands out
    MaxWrites       \* bound: fenced writes committed

ASSUME ProcessAssumption ==
    /\ Enabled \subseteq Process
    /\ NoProcess \notin Process
    /\ NoName \notin {ReplicaName[p] : p \in Process}
ASSUME BoundAssumption ==
    /\ TTL \in Nat \ {0}
    /\ MaxToken \in Nat
    /\ MaxWrites \in Nat

VARIABLES
    row,        \* trading.worker_leases: the one lease row
    seq,        \* last value of worker_lease_fencing_token_seq
    txn,        \* the fenced transaction that holds the row lock
    log,        \* fencing tokens of the committed fenced writes, in order
    grantee,    \* history: the process each token was granted to
    lease,      \* fencing token of coordinator.lease, 0 for None
    leaseState, \* coordinator.lease_state
    call,       \* the store call a process is inside
    drawn       \* the token an acquisition in progress has drawn

dbVars == <<row, seq, txn, log, grantee>>
procVars == <<lease, leaseState, call, drawn>>
vars == <<row, seq, txn, log, grantee, lease, leaseState, call, drawn>>

Token == 1..MaxToken
Name == {ReplicaName[p] : p \in Process}
LeaseState == {"DISABLED", "STANDBY", "ACQUIRED", "LOST",
               "DATABASE_UNAVAILABLE", "RELEASED"}
Call == {"idle", "acquiring", "asserting", "fenced"}

\* Phases of the fenced transaction as the server sees it: its client is
\* attached; its client vanished before sending COMMIT; COMMIT was sent and
\* the connection broke.
Phase == {"open", "abandoned", "commit_sent"}
NoTxn == [proc |-> NoProcess, token |-> 0, staged |-> FALSE, phase |-> "none"]
Txn == [proc : Process, token : Token, staged : BOOLEAN, phase : Phase]

NoRow == [owner |-> NoName, token |-> 0, ttl |-> 0]
Row == [owner : Name, token : Token, ttl : 0..TTL]

TypeOK ==
    /\ row \in Row \union {NoRow}
    /\ seq \in 0..MaxToken
    /\ txn \in Txn \union {NoTxn}
    /\ log \in Seq(Token)
    /\ grantee \in [Token -> Process \union {NoProcess}]
    /\ lease \in [Process -> 0..MaxToken]
    /\ leaseState \in [Process -> LeaseState]
    /\ call \in [Process -> Call]
    /\ drawn \in [Process -> 0..MaxToken]

StartState(p) == IF p \in Enabled THEN "STANDBY" ELSE "DISABLED"

Init ==
    /\ row = NoRow
    /\ seq = 0
    /\ txn = NoTxn
    /\ log = <<>>
    /\ grantee = [t \in Token |-> NoProcess]
    /\ lease = [p \in Process |-> 0]
    /\ leaseState = [p \in Process |-> StartState(p)]
    /\ call = [p \in Process |-> "idle"]
    /\ drawn = [p \in Process |-> 0]

-----------------------------------------------------------------------------
(* The coordinator's own state. *)

Authorized(p) == lease[p] # 0

\* The call of p ends and its coordinator gives up its authority.
Demote(p, state) ==
    /\ lease' = [lease EXCEPT ![p] = 0]
    /\ leaseState' = [leaseState EXCEPT ![p] =
                        IF p \in Enabled THEN state ELSE "DISABLED"]
    /\ call' = [call EXCEPT ![p] = "idle"]
    /\ drawn' = [drawn EXCEPT ![p] = 0]

BecomeLeader(p, t) ==
    /\ lease' = [lease EXCEPT ![p] = t]
    /\ leaseState' = [leaseState EXCEPT ![p] = "ACQUIRED"]
    /\ call' = [call EXCEPT ![p] = "idle"]
    /\ drawn' = [drawn EXCEPT ![p] = 0]

-----------------------------------------------------------------------------
(* Guards of the SQL statements. *)

RowFree == txn = NoTxn
Live == row.ttl > 0

\* Mutant: the holder's name alone identifies the lease.
MatchesOwner(p, t) == row.owner = ReplicaName[p] /\ row.token # 0

Matches(p, t) == row.owner = ReplicaName[p] /\ row.token = t
Current(p, t) == Matches(p, t) /\ Live

-----------------------------------------------------------------------------
(* try_acquire: draw a token, then insert or take over the expired row. *)

\* Mutant: the token is computed from the row instead of a sequence.
DrawTokenFromRow(p) ==
    /\ p \in Enabled
    /\ call[p] = "idle"
    /\ row.token < MaxToken
    /\ seq' = row.token + 1
    /\ drawn' = [drawn EXCEPT ![p] = row.token + 1]
    /\ call' = [call EXCEPT ![p] = "acquiring"]
    /\ UNCHANGED <<row, txn, log, grantee, lease, leaseState>>

DrawToken(p) ==
    /\ p \in Enabled
    /\ call[p] = "idle"
    /\ seq < MaxToken
    /\ seq' = seq + 1
    /\ drawn' = [drawn EXCEPT ![p] = seq + 1]
    /\ call' = [call EXCEPT ![p] = "acquiring"]
    /\ UNCHANGED <<row, txn, log, grantee, lease, leaseState>>

\* Mutant: a takeover does not wait for the fenced transaction's row lock.
InstallUnlocked(p) ==
    /\ ~Live
    /\ row' = [owner |-> ReplicaName[p], token |-> drawn[p], ttl |-> TTL]
    /\ grantee' = [grantee EXCEPT ![drawn[p]] = p]
    /\ UNCHANGED <<seq, txn, log>>

InstallGeneration(p) ==
    /\ RowFree
    /\ ~Live
    /\ row' = [owner |-> ReplicaName[p], token |-> drawn[p], ttl |-> TTL]
    /\ grantee' = [grantee EXCEPT ![drawn[p]] = p]
    /\ UNCHANGED <<seq, txn, log>>

\* The upsert wins.  The reply may be lost after the commit: the row then
\* names a holder that does not know it.
AcquireGranted(p) ==
    /\ call[p] = "acquiring"
    /\ InstallGeneration(p)
    /\ \/ BecomeLeader(p, drawn[p])
       \/ Demote(p, "DATABASE_UNAVAILABLE")

\* Mutant: the upsert returns the live row it did not update.
AcquireReturnsLiveRow(p) ==
    /\ call[p] = "acquiring"
    /\ RowFree
    /\ Live
    /\ BecomeLeader(p, row.token)
    /\ UNCHANGED dbVars

AcquireRefused(p) ==
    /\ call[p] = "acquiring"
    /\ RowFree
    /\ Live
    /\ Demote(p, "STANDBY")
    /\ UNCHANGED dbVars

\* No row came back and none was written; a token already drawn is spent.
AcquireUnavailable(p) ==
    /\ p \in Enabled
    /\ call[p] \in {"idle", "acquiring"}
    /\ Demote(p, "DATABASE_UNAVAILABLE")
    /\ UNCHANGED dbVars

-----------------------------------------------------------------------------
(* renew and release. *)

RenewWithoutLease(p) ==
    /\ call[p] = "idle"
    /\ ~Authorized(p)
    /\ Demote(p, "LOST")
    /\ UNCHANGED dbVars

RenewGranted(p) ==
    /\ call[p] = "idle"
    /\ Authorized(p)
    /\ RowFree
    /\ Current(p, lease[p])
    /\ row' = [row EXCEPT !.ttl = TTL]
    /\ \/ UNCHANGED procVars
       \/ Demote(p, "DATABASE_UNAVAILABLE")
    /\ UNCHANGED <<seq, txn, log, grantee>>

RenewRefused(p) ==
    /\ call[p] = "idle"
    /\ Authorized(p)
    /\ RowFree
    /\ ~Current(p, lease[p])
    /\ Demote(p, "LOST")
    /\ UNCHANGED dbVars

\* The renewal or the release fails without reaching the row.
LeaseCallUnavailable(p) ==
    /\ call[p] = "idle"
    /\ Authorized(p)
    /\ Demote(p, "DATABASE_UNAVAILABLE")
    /\ UNCHANGED dbVars

ReleaseWithoutLease(p) ==
    /\ call[p] = "idle"
    /\ ~Authorized(p)
    /\ Demote(p, "RELEASED")
    /\ UNCHANGED dbVars

\* The row expires at once but keeps its owner and token.  An expired lease
\* can still be released, one that was taken over cannot.
Release(p) ==
    /\ call[p] = "idle"
    /\ Authorized(p)
    /\ RowFree
    /\ row' = IF Matches(p, lease[p]) THEN [row EXCEPT !.ttl = 0] ELSE row
    /\ \E state \in {"RELEASED", "DATABASE_UNAVAILABLE"} : Demote(p, state)
    /\ UNCHANGED <<seq, txn, log, grantee>>

-----------------------------------------------------------------------------
(* run_state_change: assert the fence, run the callback, commit. *)

\* SELECT ... FOR UPDATE first reads the row, and only then waits for its
\* lock; without a lease the call is refused before it reaches the database.
BeginFenced(p) ==
    /\ call[p] = "idle"
    /\ Authorized(p)
    /\ IF Current(p, lease[p])
       THEN /\ call' = [call EXCEPT ![p] = "asserting"]
            /\ UNCHANGED <<lease, leaseState, drawn>>
       ELSE Demote(p, "LOST")
    /\ UNCHANGED dbVars

\* Mutant: the condition is not evaluated again once the lock is granted.
LockFenceStale(p) ==
    /\ call[p] = "asserting"
    /\ RowFree
    /\ txn' = [proc |-> p, token |-> lease[p], staged |-> FALSE,
               phase |-> "open"]
    /\ call' = [call EXCEPT ![p] = "fenced"]
    /\ UNCHANGED <<row, seq, log, grantee, lease, leaseState, drawn>>

\* Once the lock is granted PostgreSQL evaluates the condition again only if
\* the row was changed meanwhile: a lease that has just expired still passes.
LockFence(p) ==
    /\ call[p] = "asserting"
    /\ RowFree
    /\ Matches(p, lease[p])
    /\ txn' = [proc |-> p, token |-> lease[p], staged |-> FALSE,
               phase |-> "open"]
    /\ call' = [call EXCEPT ![p] = "fenced"]
    /\ UNCHANGED <<row, seq, log, grantee, lease, leaseState, drawn>>

FenceRejected(p) ==
    /\ call[p] = "asserting"
    /\ RowFree
    /\ ~Matches(p, lease[p])
    /\ Demote(p, "LOST")
    /\ UNCHANGED dbVars

FenceUnavailable(p) ==
    /\ call[p] = "asserting"
    /\ Demote(p, "LOST")
    /\ UNCHANGED dbVars

\* One statement of the callback writes a protected table: its trigger
\* checks the fence again, expiry included.
StageWrite(p) ==
    /\ call[p] = "fenced"
    /\ Len(log) < MaxWrites
    /\ Current(p, txn.token)
    /\ txn' = [txn EXCEPT !.staged = TRUE]
    /\ UNCHANGED <<row, seq, log, grantee, procVars>>

CommitTxn ==
    /\ log' = IF txn.staged THEN Append(log, txn.token) ELSE log
    /\ txn' = NoTxn
    /\ UNCHANGED <<row, seq, grantee>>

RollBackTxn ==
    /\ txn' = NoTxn
    /\ UNCHANGED <<row, seq, log, grantee>>

Commit(p) ==
    /\ call[p] = "fenced"
    /\ CommitTxn
    /\ call' = [call EXCEPT ![p] = "idle"]
    /\ UNCHANGED <<lease, leaseState, drawn>>

\* A FencedCallbackRejected rolls back and is passed on; the lease is kept.
RejectCallback(p) ==
    /\ call[p] = "fenced"
    /\ RollBackTxn
    /\ call' = [call EXCEPT ![p] = "idle"]
    /\ UNCHANGED <<lease, leaseState, drawn>>

\* Mutant: the failing call leaves its transaction open.
FailCallbackInTransaction(p) ==
    /\ call[p] = "fenced"
    /\ Demote(p, "LOST")
    /\ UNCHANGED dbVars

\* Any other failure, the trigger's included, rolls back and demotes.
FailCallback(p) ==
    /\ call[p] = "fenced"
    /\ RollBackTxn
    /\ Demote(p, "LOST")

\* The connection breaks with the transaction open, or with its COMMIT sent.
LoseConnection(p) ==
    /\ call[p] = "fenced"
    /\ \E phase \in {"abandoned", "commit_sent"} :
           txn' = [txn EXCEPT !.phase = phase]
    /\ Demote(p, "LOST")
    /\ UNCHANGED <<row, seq, log, grantee>>

-----------------------------------------------------------------------------
(* The environment: crashes, the server's end of broken sessions, time. *)

Crash(p) ==
    /\ Demote(p, "STANDBY")
    /\ txn' = IF call[p] = "fenced" THEN [txn EXCEPT !.phase = "abandoned"]
                                    ELSE txn
    /\ UNCHANGED <<row, seq, log, grantee>>

\* Mutant: the server never notices that an idle session's client is gone.
ServerKeepsIdleSession ==
    /\ txn.phase = "commit_sent"
    /\ RollBackTxn
    /\ UNCHANGED procVars

ServerRollsBack ==
    /\ txn.phase \in {"abandoned", "commit_sent"}
    /\ RollBackTxn
    /\ UNCHANGED procVars

ServerCommits ==
    /\ txn.phase = "commit_sent"
    /\ CommitTxn
    /\ UNCHANGED procVars

Tick ==
    /\ Live
    /\ row' = [row EXCEPT !.ttl = @ - 1]
    /\ UNCHANGED <<seq, txn, log, grantee, procVars>>

-----------------------------------------------------------------------------

AcquireStep(p) == AcquireGranted(p) \/ AcquireRefused(p)
AssertStep(p) == LockFence(p) \/ FenceRejected(p)
EndFenced(p) == Commit(p) \/ RejectCallback(p) \/ FailCallback(p)

Next ==
    \/ \E p \in Process :
        \/ DrawToken(p) \/ AcquireStep(p) \/ AcquireUnavailable(p)
        \/ RenewWithoutLease(p) \/ RenewGranted(p) \/ RenewRefused(p)
        \/ LeaseCallUnavailable(p) \/ ReleaseWithoutLease(p) \/ Release(p)
        \/ BeginFenced(p) \/ AssertStep(p) \/ FenceUnavailable(p)
        \/ StageWrite(p) \/ EndFenced(p) \/ LoseConnection(p)
        \/ Crash(p)
    \/ ServerRollsBack \/ ServerCommits
    \/ Tick

Spec == Init /\ [][Next]_vars

\* Time passes; the server ends every session whose client is gone; a
\* callback is straight-line code and ends; the queue for a row lock is
\* served in order, so a waiting statement is not passed over for ever.
Fairness ==
    /\ WF_vars(Tick)
    /\ WF_vars(ServerRollsBack \/ ServerCommits)
    /\ \A p \in Process :
        /\ WF_vars(EndFenced(p))
        /\ SF_vars(AcquireStep(p))
        /\ SF_vars(AssertStep(p))

FairSpec == Spec /\ Fairness

-----------------------------------------------------------------------------
(* Safety. *)

\* The transaction that holds the row lock always writes under the
\* generation in the row: no takeover, renewal or release slips in between
\* the fence check and the commit, whoever crashed meanwhile.
FencedTransactionIsCurrent ==
    txn # NoTxn => /\ row.token = txn.token
                   /\ row.owner = ReplicaName[txn.proc]
                   /\ grantee[txn.token] = txn.proc

\* The token a coordinator works under was granted to that very process,
\* although two processes may present the same replica name: no two
\* coordinators ever hold one generation.
AuthorityWasGranted ==
    \A p \in Process : Authorized(p) =>
        grantee[lease[p]] = p /\ leaseState[p] = "ACQUIRED"

\* Committed writes form one block per generation: a leader that was
\* superseded while it slept never writes again, nor does a COMMIT it left
\* on the wire overtake its successor.
GenerationsDoNotInterleave ==
    \A i, j, k \in 1..Len(log) :
        i < j /\ j < k /\ log[i] = log[k] => log[j] = log[i]

\* Tokens in flight were drawn from the sequence, belong to one acquisition
\* each and were never granted before: this is all that nextval gives, since
\* it runs before the row is locked.
TokensAreFresh ==
    /\ \A t \in Token : grantee[t] # NoProcess => t <= seq
    /\ \A p \in Process : call[p] = "acquiring" =>
        /\ drawn[p] \in 1..seq
        /\ grantee[drawn[p]] = NoProcess
    /\ \A p, q \in Process :
        call[p] = "acquiring" /\ call[q] = "acquiring" /\ drawn[p] = drawn[q]
            => p = q

\* The row names the process its token was granted to, and the server-side
\* transaction and the client that opened it agree on whose it is, on its
\* token, and on whether the client is still there.
RowAndSessionsAgree ==
    /\ row # NoRow => /\ grantee[row.token] \in Process
                      /\ row.owner = ReplicaName[grantee[row.token]]
    /\ \A p \in Process : call[p] = "fenced" =>
        txn.proc = p /\ txn.phase = "open" /\ txn.token = lease[p]
    /\ \A p \in Process : call[p] \in {"asserting", "fenced"} => Authorized(p)
    /\ txn.phase = "open" => call[txn.proc] = "fenced"

\* Inductive: the four together with TypeOK are preserved by every step.
IInv ==
    /\ TypeOK
    /\ TokensAreFresh
    /\ RowAndSessionsAgree
    /\ FencedTransactionIsCurrent
    /\ AuthorityWasGranted

\* The lease is a fenced ledger: every step installs a fresh generation,
\* appends a write of the current one, or changes nothing the ledger sees.
Granted == {t \in Token : grantee[t] # NoProcess}
Ledger == INSTANCE FencedLedger WITH
    Generation <- Token, NoGeneration <- 0,
    current <- row.token, installed <- Granted, ledger <- log
ImplementsFencedLedger == Ledger!LedgerSpec

-----------------------------------------------------------------------------
(* Liveness. *)

\* A row that names a holder nobody believes to be (its grant was never
\* heard of, or its process crashed, perhaps inside a fenced transaction)
\* does not keep the lease from the others for ever.
Forsaken == row.token # 0 /\ \A p \in Process : lease[p] # row.token
ForsakenLeaseFrees ==
    Forsaken ~> (RowFree /\ ~Live) \/ ~Forsaken

\* A contender that has reached the database is answered.
AcquisitionIsAnswered ==
    \A p \in Process : call[p] = "acquiring" ~> call[p] # "acquiring"
=============================================================================
