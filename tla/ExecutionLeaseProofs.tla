------------------------ MODULE ExecutionLeaseProofs ------------------------
(***************************************************************************)
(* Proofs about ExecutionLease for any number of replicas, tokens and      *)
(* writes and any lease duration.  The order of the argument:              *)
(*                                                                         *)
(*   1. Init establishes IInv.                                             *)
(*   2. Most failures change nothing in the database and end the call of   *)
(*      one process (Quiet); they are dealt with once.                     *)
(*   3. Each conjunct of IInv is preserved by every step, one lemma each.  *)
(*   4. A fenced ledger never mixes generations, for any set of            *)
(*      generations and a ledger of any length.                            *)
(*   5. Under IInv every step is a step of FencedLedger or leaves what the *)
(*      ledger sees alone, and no superseded generation writes again.      *)
(***************************************************************************)
EXTENDS ExecutionLease, FencedLedger, TLAPS

\* What a failure outside a fenced transaction does.
Quiet(p) ==
    /\ call[p] # "fenced"
    /\ UNCHANGED dbVars
    /\ \E state \in LeaseState : Demote(p, state)

QuietAction(p) ==
    \/ AcquireRefused(p) \/ AcquireUnavailable(p)
    \/ RenewWithoutLease(p) \/ RenewRefused(p)
    \/ LeaseCallUnavailable(p) \/ ReleaseWithoutLease(p)
    \/ (BeginFenced(p) /\ ~Current(p, lease[p]))
    \/ FenceRejected(p) \/ FenceUnavailable(p)
    \/ (Crash(p) /\ call[p] # "fenced")

\* A refused, failed or crashed call that holds no fenced transaction only
\* ends the call and takes the authority away.
LEMMA QuietActions ==
    ASSUME NEW p \in Process, QuietAction(p)
    PROVE  Quiet(p)
<1> USE DEF LeaseState, Quiet
<1>1. CASE AcquireRefused(p)
  BY <1>1 DEF AcquireRefused
<1>2. CASE AcquireUnavailable(p)
  BY <1>2 DEF AcquireUnavailable
<1>3. CASE RenewWithoutLease(p)
  BY <1>3 DEF RenewWithoutLease
<1>4. CASE RenewRefused(p)
  BY <1>4 DEF RenewRefused
<1>5. CASE LeaseCallUnavailable(p)
  BY <1>5 DEF LeaseCallUnavailable
<1>6. CASE ReleaseWithoutLease(p)
  BY <1>6 DEF ReleaseWithoutLease
<1>7. CASE BeginFenced(p) /\ ~Current(p, lease[p])
  BY <1>7 DEF BeginFenced
<1>8. CASE FenceRejected(p)
  BY <1>8 DEF FenceRejected
<1>9. CASE FenceUnavailable(p)
  BY <1>9 DEF FenceUnavailable
<1>10. CASE Crash(p) /\ call[p] # "fenced"
  BY <1>10 DEF Crash, dbVars
<1>11. QED
  BY <1>1, <1>2, <1>3, <1>4, <1>5, <1>6, <1>7, <1>8, <1>9, <1>10
  DEF QuietAction

\* The steps that are not quiet.
LEMMA StepKinds ==
    ASSUME Next
    PROVE  \/ \E p \in Process :
                \/ Quiet(p) \/ DrawToken(p) \/ AcquireGranted(p)
                \/ RenewGranted(p) \/ Release(p)
                \/ (BeginFenced(p) /\ Current(p, lease[p]))
                \/ LockFence(p) \/ StageWrite(p)
                \/ EndFenced(p) \/ LoseConnection(p)
                \/ (Crash(p) /\ call[p] = "fenced")
           \/ ServerRollsBack \/ ServerCommits \/ Tick
<1>1. ASSUME NEW p \in Process, QuietAction(p)
      PROVE  Quiet(p)
  BY <1>1, QuietActions
<1>2. QED
  BY <1>1 DEF Next, QuietAction, AcquireStep, AssertStep

-----------------------------------------------------------------------------

\* A fresh database with only standby and disabled replicas satisfies IInv.
LEMMA InitIInv == Init => IInv
<1> SUFFICES ASSUME Init PROVE IInv
  OBVIOUS
<1> USE ProcessAssumption, BoundAssumption DEF Init, NoRow, NoTxn
<1>1. TypeOK
  BY DEF TypeOK, StartState, LeaseState, Call
<1>2. TokensAreFresh
  BY DEF TokensAreFresh
<1>3. RowAndSessionsAgree
  BY DEF RowAndSessionsAgree
<1>4. FencedTransactionIsCurrent /\ AuthorityWasGranted
  BY DEF FencedTransactionIsCurrent, AuthorityWasGranted, Authorized
<1>5. QED
  BY <1>1, <1>2, <1>3, <1>4 DEF IInv

\* Renewal, release and the clock only move the expiry of an existing row.
LEMMA ExpiryMove ==
    ASSUME row \in Row, NEW t \in 0..TTL, row' = [row EXCEPT !.ttl = t]
    PROVE  /\ row' \in Row
           /\ row'.owner = row.owner
           /\ row'.token = row.token
  BY DEF Row

\* Once a token is installed, or while a lease is live, there is a row.
LEMMA RowExists ==
    ASSUME TypeOK, row.token # 0 \/ Live
    PROVE  row \in Row /\ row # NoRow
  BY BoundAssumption DEF TypeOK, Live, NoRow, Row, Token

\* Renewal, release and the clock leave the generation in the row alone.
LEMMA RowKept ==
    ASSUME IInv,
           \/ \E p \in Process : RenewGranted(p) \/ Release(p)
           \/ Tick
    PROVE  /\ row' \in Row \union {NoRow}
           /\ row'.owner = row.owner
           /\ row'.token = row.token
           /\ row' = NoRow <=> row = NoRow
<1>1. ASSUME NEW p \in Process, RenewGranted(p) PROVE row \in Row /\ row' = [row EXCEPT !.ttl = TTL]
  BY <1>1, RowExists DEF RenewGranted, Current, IInv
<1>2. ASSUME NEW p \in Process, Release(p), Matches(p, lease[p])
      PROVE row \in Row /\ row' = [row EXCEPT !.ttl = 0]
  BY <1>2, RowExists DEF Release, Matches, Authorized, IInv
<1>3. ASSUME NEW p \in Process, Release(p), ~Matches(p, lease[p])
      PROVE row' = row
  BY <1>3 DEF Release
<1>4. ASSUME Tick
      PROVE row \in Row /\ row' = [row EXCEPT !.ttl = row.ttl - 1] /\ row.ttl - 1 \in 0..TTL
  BY <1>4, RowExists, BoundAssumption DEF Tick, IInv, Live, Row
<1>5. NoRow \notin Row
  BY DEF NoRow, Row, Token
<1>6. TTL \in 0..TTL /\ 0 \in 0..TTL
  BY BoundAssumption
<1>7. row \in Row \union {NoRow}
  BY DEF IInv, TypeOK
<1>8. QED
  BY <1>1, <1>2, <1>3, <1>4, <1>5, <1>6, <1>7, ExpiryMove

\* Every step keeps every variable in its declared set.
LEMMA TypeStep == IInv /\ [Next]_vars => TypeOK'
<1> SUFFICES ASSUME IInv, [Next]_vars PROVE TypeOK'
  OBVIOUS
<1> USE ProcessAssumption, BoundAssumption DEF IInv, TypeOK
<1>1. ASSUME NEW p \in Process, NEW state \in LeaseState, Demote(p, state)
      PROVE  (/\ lease \in [Process -> 0..MaxToken]
              /\ leaseState \in [Process -> LeaseState]
              /\ call \in [Process -> Call]
              /\ drawn \in [Process -> 0..MaxToken])'
  BY <1>1 DEF Demote, LeaseState, Call
<1>2. ASSUME NEW p \in Process, Quiet(p) PROVE TypeOK'
  BY <1>1, <1>2 DEF Quiet, dbVars
<1>3. ASSUME NEW p \in Process, DrawToken(p) PROVE TypeOK'
  BY <1>3 DEF DrawToken, Call
<1>4. ASSUME NEW p \in Process, AcquireGranted(p) PROVE TypeOK'
  <2>1. drawn[p] \in Token
    BY <1>4 DEF AcquireGranted, TokensAreFresh, Token
  <2>2. row' \in Row /\ grantee' \in [Token -> Process \union {NoProcess}]
    BY <1>4, <2>1 DEF AcquireGranted, InstallGeneration, Row, Name
  <2>3. CASE BecomeLeader(p, drawn[p])
    BY <1>4, <2>1, <2>2, <2>3
    DEF AcquireGranted, InstallGeneration, BecomeLeader, LeaseState, Call, Token
  <2>4. CASE Demote(p, "DATABASE_UNAVAILABLE")
    BY <1>1, <1>4, <2>2, <2>4
    DEF AcquireGranted, InstallGeneration, LeaseState
  <2>5. QED
    BY <1>4, <2>3, <2>4 DEF AcquireGranted
<1>5. ASSUME NEW p \in Process, RenewGranted(p) PROVE TypeOK'
  <2>1. row' \in Row \union {NoRow}
    BY <1>5, RowKept
  <2>2. QED
    BY <1>1, <1>5, <2>1 DEF RenewGranted, procVars, LeaseState
<1>6. ASSUME NEW p \in Process, Release(p) PROVE TypeOK'
  <2>1. row' \in Row \union {NoRow}
    BY <1>6, RowKept
  <2>2. QED
    BY <1>1, <1>6, <2>1 DEF Release, LeaseState
<1>7. ASSUME NEW p \in Process, BeginFenced(p), Current(p, lease[p])
      PROVE TypeOK'
  BY <1>7 DEF BeginFenced, Call, dbVars
<1>8. ASSUME NEW p \in Process, LockFence(p) PROVE TypeOK'
  <2>1. lease[p] \in Token
    BY <1>8 DEF LockFence, RowAndSessionsAgree, Authorized, Token
  <2>2. QED
    BY <1>8, <2>1 DEF LockFence, Call, Txn, Phase
<1>9. ASSUME NEW p \in Process, StageWrite(p) PROVE TypeOK'
  <2>1. txn \in Txn
    BY <1>9 DEF StageWrite, RowAndSessionsAgree, NoTxn
  <2>2. QED
    BY <1>9, <2>1 DEF StageWrite, procVars, Txn
<1>10. ASSUME CommitTxn PROVE log' \in Seq(Token) /\ txn' = NoTxn
  BY <1>10 DEF CommitTxn, Txn, NoTxn
<1>11. ASSUME NEW p \in Process, EndFenced(p) PROVE TypeOK'
  BY <1>1, <1>10, <1>11
  DEF EndFenced, Commit, RejectCallback, FailCallback, CommitTxn, RollBackTxn,
      Call, LeaseState
<1>12. ASSUME NEW p \in Process,
              LoseConnection(p) \/ (Crash(p) /\ call[p] = "fenced")
       PROVE TypeOK'
  <2>1. txn \in Txn
    BY <1>12 DEF LoseConnection, RowAndSessionsAgree, NoTxn
  <2>2. txn' \in Txn
    BY <1>12, <2>1 DEF LoseConnection, Crash, Txn, Phase
  <2>3. QED
    BY <1>1, <1>12, <2>2 DEF LoseConnection, Crash, LeaseState
<1>13. ASSUME ServerRollsBack \/ ServerCommits PROVE TypeOK'
  BY <1>10, <1>13 DEF ServerRollsBack, ServerCommits, CommitTxn, RollBackTxn,
     procVars
<1>14. ASSUME Tick PROVE TypeOK'
  <2>1. row' \in Row \union {NoRow}
    BY <1>14, RowKept
  <2>2. QED
    BY <1>14, <2>1 DEF Tick, procVars
<1>15. CASE UNCHANGED vars
  BY <1>15 DEF vars
<1>16. QED
  BY <1>2, <1>3, <1>4, <1>5, <1>6, <1>7, <1>8, <1>9, <1>11, <1>12, <1>13,
     <1>14, <1>15, StepKinds

\* Every step leaves tokens in flight distinct and ungranted.
LEMMA FreshStep == IInv /\ [Next]_vars => TokensAreFresh'
<1> SUFFICES ASSUME IInv, [Next]_vars PROVE TokensAreFresh'
  OBVIOUS
<1> USE ProcessAssumption, BoundAssumption DEF IInv, TypeOK, TokensAreFresh
<1>1. ASSUME NEW p \in Process, NEW state, Demote(p, state),
             UNCHANGED <<seq, grantee>>
      PROVE  TokensAreFresh'
  BY <1>1 DEF Demote, Call
<1>2. ASSUME NEW p \in Process, Quiet(p) PROVE TokensAreFresh'
  BY <1>1, <1>2 DEF Quiet, dbVars
<1>3. ASSUME NEW p \in Process, DrawToken(p) PROVE TokensAreFresh'
  <2>1. seq + 1 \in Token /\ grantee[seq + 1] = NoProcess
    BY <1>3 DEF DrawToken, Token
  <2>2. QED
    BY <1>3, <2>1 DEF DrawToken, Token
<1>4. ASSUME NEW p \in Process, AcquireGranted(p) PROVE TokensAreFresh'
  BY <1>4 DEF AcquireGranted, InstallGeneration, BecomeLeader, Demote, Token
<1>5. ASSUME NEW p \in Process,
             \/ RenewGranted(p) \/ Release(p) \/ EndFenced(p)
             \/ LoseConnection(p) \/ (Crash(p) /\ call[p] = "fenced")
      PROVE TokensAreFresh'
  <2>1. UNCHANGED <<seq, grantee>>
    BY <1>5 DEF RenewGranted, Release, EndFenced, Commit, RejectCallback,
       FailCallback, CommitTxn, RollBackTxn, LoseConnection, Crash
  <2>2. \/ \E state : Demote(p, state)
        \/ UNCHANGED <<call, drawn>>
        \/ call' = [call EXCEPT ![p] = "idle"] /\ UNCHANGED drawn
    BY <1>5 DEF RenewGranted, Release, EndFenced, Commit, RejectCallback,
       FailCallback, LoseConnection, Crash, procVars
  <2>3. QED
    BY <1>1, <2>1, <2>2
<1>6. ASSUME NEW p \in Process,
             \/ (BeginFenced(p) /\ Current(p, lease[p]))
             \/ LockFence(p) \/ StageWrite(p)
      PROVE TokensAreFresh'
  <2>1. UNCHANGED <<seq, grantee, drawn>>
    BY <1>6 DEF BeginFenced, LockFence, StageWrite, procVars, dbVars
  <2>2. \A q \in Process : call'[q] = "acquiring" => call[q] = "acquiring"
    BY <1>6 DEF BeginFenced, LockFence, StageWrite, procVars
  <2>3. QED
    BY <2>1, <2>2
<1>7. ASSUME ServerRollsBack \/ ServerCommits \/ Tick PROVE TokensAreFresh'
  BY <1>7 DEF ServerRollsBack, ServerCommits, CommitTxn, RollBackTxn, Tick,
     procVars
<1>8. CASE UNCHANGED vars
  BY <1>8 DEF vars
<1>9. QED
  BY <1>2, <1>3, <1>4, <1>5, <1>6, <1>7, <1>8, StepKinds

\* Every step leaves the open fenced transaction under the generation in
\* the row: a takeover waits for the row lock.
LEMMA FencedStep == IInv /\ [Next]_vars => FencedTransactionIsCurrent'
<1> SUFFICES ASSUME IInv, [Next]_vars PROVE FencedTransactionIsCurrent'
  OBVIOUS
<1> USE ProcessAssumption, BoundAssumption
    DEF IInv, TypeOK, FencedTransactionIsCurrent
<1>1. ASSUME NEW p \in Process, Quiet(p) \/ DrawToken(p)
      PROVE FencedTransactionIsCurrent'
  BY <1>1 DEF Quiet, DrawToken, dbVars
<1>2. ASSUME NEW p \in Process, AcquireGranted(p)
      PROVE FencedTransactionIsCurrent'
  BY <1>2 DEF AcquireGranted, InstallGeneration, RowFree
<1>3. ASSUME NEW p \in Process, RenewGranted(p) \/ Release(p)
      PROVE FencedTransactionIsCurrent'
  BY <1>3, RowKept DEF RenewGranted, Release
<1>4. ASSUME NEW p \in Process, LockFence(p)
      PROVE FencedTransactionIsCurrent'
  BY <1>4 DEF LockFence, Matches, AuthorityWasGranted, RowAndSessionsAgree
<1>5. ASSUME NEW p \in Process,
             \/ (BeginFenced(p) /\ Current(p, lease[p]))
             \/ StageWrite(p) \/ LoseConnection(p)
             \/ (Crash(p) /\ call[p] = "fenced")
      PROVE FencedTransactionIsCurrent'
  <2>1. /\ UNCHANGED <<row, grantee>>
        /\ \/ UNCHANGED txn
           \/ txn' = [txn EXCEPT !.staged = TRUE]
           \/ \E phase \in Phase : txn' = [txn EXCEPT !.phase = phase]
    BY <1>5 DEF BeginFenced, StageWrite, LoseConnection, Crash, Phase, dbVars
  <2>2. CASE UNCHANGED txn
    BY <2>1, <2>2
  <2>3. txn # NoTxn \/ UNCHANGED txn
    BY <1>5 DEF BeginFenced, StageWrite, LoseConnection, Crash, dbVars,
       RowAndSessionsAgree, NoTxn
  <2>4. CASE txn \in Txn
    BY <2>1, <2>3, <2>4 DEF Txn
  <2>5. QED
    BY <2>2, <2>3, <2>4
<1>6. ASSUME \/ \E p \in Process : EndFenced(p)
             \/ ServerRollsBack \/ ServerCommits
      PROVE FencedTransactionIsCurrent'
  BY <1>6 DEF EndFenced, Commit, RejectCallback, FailCallback, ServerRollsBack,
     ServerCommits, CommitTxn, RollBackTxn
<1>7. ASSUME Tick PROVE FencedTransactionIsCurrent'
  BY <1>7, RowKept DEF Tick
<1>8. CASE UNCHANGED vars
  BY <1>8 DEF vars
<1>9. QED
  BY <1>1, <1>2, <1>3, <1>4, <1>5, <1>6, <1>7, <1>8, StepKinds

\* Every step leaves each coordinator with the token it was granted, or none.
LEMMA AuthorityStep == IInv /\ [Next]_vars => AuthorityWasGranted'
<1> SUFFICES ASSUME IInv, [Next]_vars PROVE AuthorityWasGranted'
  OBVIOUS
<1> USE ProcessAssumption, BoundAssumption
    DEF IInv, TypeOK, AuthorityWasGranted, Authorized
<1>1. ASSUME NEW p \in Process, NEW state, Demote(p, state), UNCHANGED grantee
      PROVE  AuthorityWasGranted'
  BY <1>1 DEF Demote
<1>2. ASSUME NEW p \in Process, Quiet(p) PROVE AuthorityWasGranted'
  BY <1>1, <1>2 DEF Quiet, dbVars
<1>3. ASSUME NEW p \in Process, AcquireGranted(p) PROVE AuthorityWasGranted'
  <2>1. drawn[p] \in Token /\ grantee[drawn[p]] = NoProcess
    BY <1>3 DEF AcquireGranted, TokensAreFresh, Token
  <2>2. \A q \in Process : Authorized(q) => lease[q] # drawn[p] /\ lease[q] \in Token
    BY <2>1 DEF Token
  <2>3. grantee' = [grantee EXCEPT ![drawn[p]] = p]
    BY <1>3 DEF AcquireGranted, InstallGeneration
  <2>4. CASE BecomeLeader(p, drawn[p])
    BY <2>1, <2>2, <2>3, <2>4 DEF BecomeLeader
  <2>5. CASE Demote(p, "DATABASE_UNAVAILABLE")
    BY <2>2, <2>3, <2>5 DEF Demote
  <2>6. QED
    BY <1>3, <2>4, <2>5 DEF AcquireGranted
<1>4. ASSUME NEW p \in Process,
             \/ RenewGranted(p) \/ Release(p) \/ EndFenced(p)
             \/ LoseConnection(p) \/ (Crash(p) /\ call[p] = "fenced")
      PROVE AuthorityWasGranted'
  <2>1. UNCHANGED grantee
    BY <1>4 DEF RenewGranted, Release, EndFenced, Commit, RejectCallback,
       FailCallback, CommitTxn, RollBackTxn, LoseConnection, Crash
  <2>2. (\E state : Demote(p, state)) \/ UNCHANGED <<lease, leaseState>>
    BY <1>4 DEF RenewGranted, Release, EndFenced, Commit, RejectCallback,
       FailCallback, LoseConnection, Crash, procVars
  <2>3. QED
    BY <1>1, <2>1, <2>2
<1>5. ASSUME \/ \E p \in Process :
                \/ DrawToken(p) \/ (BeginFenced(p) /\ Current(p, lease[p]))
                \/ LockFence(p) \/ StageWrite(p)
             \/ ServerRollsBack \/ ServerCommits \/ Tick
      PROVE AuthorityWasGranted'
  BY <1>5 DEF DrawToken, BeginFenced, LockFence, StageWrite, ServerRollsBack,
     ServerCommits, CommitTxn, RollBackTxn, Tick, procVars, dbVars
<1>6. CASE UNCHANGED vars
  BY <1>6 DEF vars
<1>7. QED
  BY <1>2, <1>3, <1>4, <1>5, <1>6, StepKinds

\* Every step keeps the row, its grantee, and the two ends of the fenced
\* session in agreement.
LEMMA SessionsStep == IInv /\ [Next]_vars => RowAndSessionsAgree'
<1> SUFFICES ASSUME IInv, [Next]_vars PROVE RowAndSessionsAgree'
  OBVIOUS
<1> USE ProcessAssumption, BoundAssumption
    DEF IInv, TypeOK, RowAndSessionsAgree, Authorized
<1> DEFINE
      RowPart == row # NoRow => /\ grantee[row.token] \in Process
                                /\ row.owner = ReplicaName[grantee[row.token]]
      SessionPart ==
        /\ \A q \in Process : call[q] = "fenced" =>
            txn.proc = q /\ txn.phase = "open" /\ txn.token = lease[q]
        /\ \A q \in Process : call[q] \in {"asserting", "fenced"} => lease[q] # 0
        /\ txn.phase = "open" => call[txn.proc] = "fenced"
<1>1. ASSUME UNCHANGED <<row, grantee>> PROVE RowPart'
  BY <1>1
<1>2. ASSUME NEW p \in Process, NEW state, Demote(p, state), UNCHANGED txn,
             call[p] # "fenced"
      PROVE  SessionPart'
  <2>1. txn.phase = "open" => txn.proc # p /\ txn.proc \in Process
    BY <1>2 DEF Txn, NoTxn
  <2>2. QED
    BY <1>2, <2>1 DEF Demote
<1>3. ASSUME NEW p \in Process, Quiet(p) PROVE RowAndSessionsAgree'
  BY <1>1, <1>2, <1>3 DEF Quiet, dbVars
<1>4. ASSUME NEW p \in Process, DrawToken(p) PROVE RowAndSessionsAgree'
  <2>1. txn.phase = "open" => txn.proc # p /\ txn.proc \in Process
    BY <1>4 DEF DrawToken, Txn, NoTxn
  <2>2. SessionPart'
    BY <1>4, <2>1 DEF DrawToken
  <2>3. QED
    BY <1>1, <1>4, <2>2 DEF DrawToken
<1>5. ASSUME NEW p \in Process, AcquireGranted(p) PROVE RowAndSessionsAgree'
  <2>1. drawn[p] \in Token
    BY <1>5 DEF AcquireGranted, TokensAreFresh, Token
  <2>2. RowPart'
    BY <1>5, <2>1 DEF AcquireGranted, InstallGeneration
  <2>3. txn = NoTxn /\ txn' = NoTxn
    BY <1>5 DEF AcquireGranted, InstallGeneration, RowFree
  <2>4. \A q \in Process : call[q] # "fenced"
    BY <2>3 DEF NoTxn
  <2>5. /\ call' = [call EXCEPT ![p] = "idle"]
        /\ \E t : lease' = [lease EXCEPT ![p] = t]
    BY <1>5 DEF AcquireGranted, BecomeLeader, Demote
  <2>6. \A q \in Process : call'[q] # "fenced"
    BY <2>4, <2>5
  <2>7. \A q \in Process : call'[q] = "asserting" => lease'[q] = lease[q] /\ call[q] = "asserting"
    BY <2>5
  <2>8. SessionPart'
    BY <2>3, <2>6, <2>7 DEF NoTxn
  <2>9. QED
    BY <2>2, <2>8
<1>6. ASSUME NEW p \in Process, RenewGranted(p) \/ Release(p)
      PROVE RowAndSessionsAgree'
  <2>1. RowPart'
    BY <1>6, RowKept DEF RenewGranted, Release
  <2>2. SessionPart'
    BY <1>2, <1>6 DEF RenewGranted, Release, procVars
  <2>3. QED
    BY <2>1, <2>2
<1>7. ASSUME NEW p \in Process, BeginFenced(p), Current(p, lease[p])
      PROVE RowAndSessionsAgree'
  <2>1. txn.phase = "open" => txn.proc # p /\ txn.proc \in Process
    BY <1>7 DEF BeginFenced, Txn, NoTxn
  <2>2. SessionPart'
    BY <1>7, <2>1 DEF BeginFenced, dbVars
  <2>3. QED
    BY <1>1, <1>7, <2>2 DEF BeginFenced, dbVars
<1>8. ASSUME NEW p \in Process, LockFence(p) PROVE RowAndSessionsAgree'
  <2>1. \A q \in Process : call[q] # "fenced"
    BY <1>8 DEF LockFence, RowFree, NoTxn
  <2>2. SessionPart'
    BY <1>8, <2>1 DEF LockFence
  <2>3. QED
    BY <1>1, <1>8, <2>2 DEF LockFence
<1>9. ASSUME NEW p \in Process, StageWrite(p) PROVE RowAndSessionsAgree'
  <2>1. txn \in Txn
    BY <1>9 DEF StageWrite, NoTxn
  <2>2. SessionPart'
    BY <1>9, <2>1 DEF StageWrite, procVars, Txn
  <2>3. QED
    BY <1>1, <1>9, <2>2 DEF StageWrite
<1>10. ASSUME NEW p \in Process,
              \/ EndFenced(p) \/ LoseConnection(p)
              \/ (Crash(p) /\ call[p] = "fenced")
       PROVE RowAndSessionsAgree'
  <2>1. call[p] = "fenced" /\ txn.proc = p /\ txn \in Txn
    BY <1>10 DEF EndFenced, Commit, RejectCallback, FailCallback,
       LoseConnection, NoTxn
  <2>2. \A q \in Process : q # p => call[q] # "fenced"
    BY <2>1
  <2>3. UNCHANGED <<row, grantee>>
    BY <1>10 DEF EndFenced, Commit, RejectCallback, FailCallback, CommitTxn,
       RollBackTxn, LoseConnection, Crash
  <2>4. txn'.phase # "open"
    BY <1>10, <2>1 DEF EndFenced, Commit, RejectCallback, FailCallback,
       CommitTxn, RollBackTxn, LoseConnection, Crash, NoTxn, Txn
  <2>5. /\ call' = [call EXCEPT ![p] = "idle"]
        /\ lease' = lease \/ lease' = [lease EXCEPT ![p] = 0]
    BY <1>10 DEF EndFenced, Commit, RejectCallback, FailCallback,
       LoseConnection, Crash, Demote
  <2>6. SessionPart'
    BY <2>2, <2>4, <2>5
  <2>7. QED
    BY <1>1, <2>3, <2>6
<1>11. ASSUME ServerRollsBack \/ ServerCommits PROVE RowAndSessionsAgree'
  <2>1. txn.phase # "open" /\ txn' = NoTxn /\ UNCHANGED <<row, grantee, procVars>>
    BY <1>11 DEF ServerRollsBack, ServerCommits, CommitTxn, RollBackTxn
  <2>2. SessionPart'
    BY <2>1 DEF procVars, NoTxn
  <2>3. QED
    BY <1>1, <2>1, <2>2
<1>12. ASSUME Tick PROVE RowAndSessionsAgree'
  BY <1>12, RowKept DEF Tick, procVars
<1>13. CASE UNCHANGED vars
  BY <1>13 DEF vars
<1>14. QED
  BY <1>3, <1>4, <1>5, <1>6, <1>7, <1>8, <1>9, <1>10, <1>11, <1>12, <1>13,
     StepKinds

-----------------------------------------------------------------------------

\* The inductive invariant: types, fresh tokens, row and sessions in
\* agreement, the fenced transaction under the current generation, and
\* authority only where it was granted.
THEOREM InductiveInvariant == Spec => []IInv
<1>1. IInv /\ [Next]_vars => IInv'
  BY TypeStep, FreshStep, SessionsStep, FencedStep, AuthorityStep DEF IInv
<1>2. QED
  BY InitIInv, <1>1, PTL DEF Spec

\* Every variable stays within its declared set.
THEOREM TypeCorrect == Spec => []TypeOK
<1>1. IInv => TypeOK
  BY DEF IInv
<1>2. QED
  BY InductiveInvariant, <1>1, PTL

\* A token in flight was drawn for that acquisition alone and never granted
\* before, for any number of processes and tokens.
THEOREM TokenFreshness == Spec => []TokensAreFresh
<1>1. IInv => TokensAreFresh
  BY DEF IInv
<1>2. QED
  BY <1>1, InductiveInvariant, PTL

\* No takeover, renewal or release slips in between a fence check and the
\* commit it protects.
THEOREM FencingHolds == Spec => []FencedTransactionIsCurrent
<1>1. IInv => FencedTransactionIsCurrent
  BY DEF IInv
<1>2. QED
  BY InductiveInvariant, <1>1, PTL

\* A coordinator acts only under a token that was granted to its process.
THEOREM AuthorityIsGenuine == Spec => []AuthorityWasGranted
<1>1. IInv => AuthorityWasGranted
  BY DEF IInv
<1>2. QED
  BY InductiveInvariant, <1>1, PTL

-----------------------------------------------------------------------------
(* The abstract ledger.  Its two steps are lemmas about values, so that they *)
(* serve the ledger's own variables and what the lease shows it.             *)

\* Why NoResurrection is inductive: only installed generations have written,
\* and once the current one has written everything after it is its own.
LedgerIsCoherent(none, generation, generations, writes) ==
    /\ writes \in Seq(generations)
    /\ generation # none => generation \in generations
    /\ \A i, j \in 1..Len(writes) :
        i < j /\ writes[i] = generation => writes[j] = generation
    /\ \A i, j, k \in 1..Len(writes) :
        i < j /\ j < k /\ writes[i] = writes[k] => writes[j] = writes[i]

\* A fresh generation has written nothing yet.
LEMMA InstallKeepsCoherence ==
    ASSUME NEW none, NEW c, NEW S, NEW w, LedgerIsCoherent(none, c, S, w), NEW g, g \notin S
    PROVE  LedgerIsCoherent(none, g, S \union {g}, w)
<1>1. \A i \in 1..Len(w) : w[i] \in S /\ w[i] # g
  BY DEF LedgerIsCoherent
<1>2. w \in Seq(S \union {g})
  <2>1. w \in Seq(S) /\ S \subseteq S \union {g}
    BY DEF LedgerIsCoherent
  <2>2. QED
    BY <2>1
<1>3. QED
  BY <1>1, <1>2 DEF LedgerIsCoherent

\* A write of the current generation joins the block at the end.
LEMMA AppendKeepsCoherence ==
    ASSUME NEW none, NEW c, NEW S, NEW w, LedgerIsCoherent(none, c, S, w), c # none
    PROVE  LedgerIsCoherent(none, c, S, Append(w, c))
<1> DEFINE v == Append(w, c)
<1>1. /\ v \in Seq(S)
      /\ Len(w) \in Nat /\ Len(v) = Len(w) + 1
      /\ \A i \in 1..Len(w) : v[i] = w[i]
      /\ v[Len(w) + 1] = c
  BY DEF LedgerIsCoherent
<1> HIDE DEF v
<1>2. \A i, j \in 1..Len(v) : i < j /\ v[i] = c => v[j] = c
  BY <1>1 DEF LedgerIsCoherent
<1>3. ASSUME NEW i \in 1..Len(v), NEW j \in 1..Len(v), NEW k \in 1..Len(v),
             i < j, j < k, v[i] = v[k]
      PROVE  v[j] = v[i]
  <2>1. CASE k = Len(w) + 1
    BY <1>1, <1>2, <1>3, <2>1
  <2>2. CASE k \in 1..Len(w)
    BY <1>1, <1>3, <2>2 DEF LedgerIsCoherent
  <2>3. QED
    BY <1>1, <2>1, <2>2
<1>4. LedgerIsCoherent(none, c, S, v)
  BY <1>1, <1>2, <1>3 DEF LedgerIsCoherent
<1>5. QED
  BY <1>4 DEF v

\* A superseded generation never writes again, whatever the number of
\* generations and writes.
THEOREM NoResurrectionHolds == LedgerSpec => []NoResurrection
<1> DEFINE Coherent == LedgerIsCoherent(NoGeneration, current, installed, ledger)
<1>1. LedgerInit => Coherent
  BY DEF LedgerInit, LedgerIsCoherent
<1>2. Coherent /\ [LedgerNext]_ledgerVars => Coherent'
  <2>1. ASSUME Coherent, NEW g \in Generation, Install(g) PROVE Coherent'
    BY <2>1, InstallKeepsCoherence DEF Install
  <2>2. ASSUME Coherent, AppendWrite PROVE Coherent'
    BY <2>2, AppendKeepsCoherence DEF AppendWrite
  <2>3. ASSUME Coherent, UNCHANGED ledgerVars PROVE Coherent'
    BY <2>3 DEF ledgerVars, LedgerIsCoherent
  <2>4. QED
    BY <2>1, <2>2, <2>3 DEF LedgerNext
<1>3. Coherent => NoResurrection
  BY DEF LedgerIsCoherent, NoResurrection
<1> HIDE DEF Coherent
<1>4. QED
  BY <1>1, <1>2, <1>3, PTL DEF LedgerSpec

-----------------------------------------------------------------------------

\* Before the first acquisition the ledger is empty and has no generation.
LEMMA LeaseInitIsLedgerInit == Init => Ledger!LedgerInit
  BY DEF Init, NoRow, Granted, Ledger!LedgerInit

\* Every step of the lease is a step of the ledger or changes nothing it sees.
LEMMA LeaseStepIsLedgerStep ==
    IInv /\ [Next]_vars => [Ledger!LedgerNext]_(Ledger!ledgerVars)
<1> SUFFICES ASSUME IInv, [Next]_vars
             PROVE  [Ledger!LedgerNext]_(Ledger!ledgerVars)
  OBVIOUS
<1> USE ProcessAssumption, BoundAssumption DEF IInv, TypeOK, Ledger!ledgerVars
<1>1. ASSUME UNCHANGED <<grantee, log>>, row'.token = row.token
      PROVE  UNCHANGED Ledger!ledgerVars
  BY <1>1 DEF Granted
<1>2. ASSUME NEW p \in Process, AcquireGranted(p)
      PROVE  Ledger!LedgerNext
  <2>1. /\ drawn[p] \in Token
        /\ grantee[drawn[p]] = NoProcess
    BY <1>2 DEF AcquireGranted, TokensAreFresh, Token
  <2>2. /\ row'.token = drawn[p]
        /\ grantee' = [grantee EXCEPT ![drawn[p]] = p]
        /\ log' = log
    BY <1>2 DEF AcquireGranted, InstallGeneration
  <2>3. Granted' = Granted \union {drawn[p]}
    BY <2>1, <2>2 DEF Granted
  <2>4. Ledger!Install(drawn[p])
    BY <2>1, <2>2, <2>3 DEF Ledger!Install, Granted
  <2>5. QED
    BY <2>1, <2>4 DEF Ledger!LedgerNext
<1>3. ASSUME CommitTxn, txn # NoTxn
      PROVE  [Ledger!LedgerNext]_(Ledger!ledgerVars)
  <2>1. CASE txn.staged
    <3>1. /\ log' = Append(log, row.token)
          /\ row.token # 0
          /\ UNCHANGED <<row, grantee>>
      BY <1>3, <2>1 DEF CommitTxn, FencedTransactionIsCurrent, Txn, Token
    <3>2. Ledger!AppendWrite
      BY <3>1 DEF Ledger!AppendWrite, Granted
    <3>3. QED
      BY <3>2 DEF Ledger!LedgerNext
  <2>2. CASE ~txn.staged
    BY <1>1, <1>3, <2>2 DEF CommitTxn
  <2>3. QED
    BY <2>1, <2>2
<1>4. ASSUME NEW p \in Process, EndFenced(p)
      PROVE  [Ledger!LedgerNext]_(Ledger!ledgerVars)
  <2>1. call[p] = "fenced" /\ txn # NoTxn
    BY <1>4 DEF EndFenced, Commit, RejectCallback, FailCallback,
       RowAndSessionsAgree, NoTxn
  <2>2. CASE CommitTxn
    BY <1>3, <2>1, <2>2
  <2>3. CASE RollBackTxn
    BY <1>1, <2>3 DEF RollBackTxn
  <2>4. QED
    BY <1>4, <2>2, <2>3 DEF EndFenced, Commit, RejectCallback, FailCallback
<1>5. ASSUME ServerRollsBack \/ ServerCommits
      PROVE  [Ledger!LedgerNext]_(Ledger!ledgerVars)
  <2>1. txn # NoTxn
    BY <1>5 DEF ServerRollsBack, ServerCommits, NoTxn
  <2>2. CASE CommitTxn
    BY <1>3, <2>1, <2>2
  <2>3. CASE RollBackTxn
    BY <1>1, <2>3 DEF RollBackTxn
  <2>4. QED
    BY <1>5, <2>2, <2>3 DEF ServerRollsBack, ServerCommits
<1>6. ASSUME \/ \E p \in Process : RenewGranted(p) \/ Release(p)
             \/ Tick
      PROVE  UNCHANGED Ledger!ledgerVars
  <2>1. UNCHANGED <<grantee, log>>
    BY <1>6 DEF RenewGranted, Release, Tick
  <2>2. QED
    BY <1>1, <1>6, <2>1, RowKept
<1>7. ASSUME NEW p \in Process,
             \/ Quiet(p) \/ DrawToken(p)
             \/ (BeginFenced(p) /\ Current(p, lease[p]))
             \/ LockFence(p) \/ StageWrite(p) \/ LoseConnection(p)
             \/ (Crash(p) /\ call[p] = "fenced")
      PROVE  UNCHANGED Ledger!ledgerVars
  <2>1. UNCHANGED <<row, grantee, log>>
    BY <1>7 DEF Quiet, DrawToken, BeginFenced, LockFence, StageWrite,
       LoseConnection, Crash, dbVars
  <2>2. QED
    BY <1>1, <2>1
<1>8. CASE UNCHANGED vars
  BY <1>1, <1>8 DEF vars
<1>9. QED
  BY <1>2, <1>4, <1>5, <1>6, <1>7, <1>8, StepKinds

\* The lease implements the fenced ledger: whatever processes, sessions and
\* replies do, each step installs a fresh generation, appends a write of the
\* current one, or leaves the ledger alone.
THEOREM LeaseImplementsFencedLedger == Spec => ImplementsFencedLedger
  BY InductiveInvariant, LeaseInitIsLedgerInit, LeaseStepIsLedgerStep, PTL
  DEF Spec, ImplementsFencedLedger, Ledger!LedgerSpec

\* So no superseded leader ever writes again: the committed writes of one
\* generation are never interrupted by those of another.
THEOREM NoInterleaving == Spec => []GenerationsDoNotInterleave
<1> DEFINE Coherent == LedgerIsCoherent(0, row.token, Granted, log)
<1>1. Ledger!LedgerInit => Coherent
  BY DEF Ledger!LedgerInit, LedgerIsCoherent
<1>2. Coherent /\ [Ledger!LedgerNext]_(Ledger!ledgerVars) => Coherent'
  <2>1. ASSUME Coherent, NEW g \in Token, Ledger!Install(g) PROVE Coherent'
    BY <2>1, InstallKeepsCoherence DEF Ledger!Install
  <2>2. ASSUME Coherent, Ledger!AppendWrite PROVE Coherent'
    BY <2>2, AppendKeepsCoherence DEF Ledger!AppendWrite
  <2>3. ASSUME Coherent, UNCHANGED Ledger!ledgerVars PROVE Coherent'
    BY <2>3 DEF Ledger!ledgerVars, LedgerIsCoherent
  <2>4. QED
    BY <2>1, <2>2, <2>3 DEF Ledger!LedgerNext
<1>3. Coherent => GenerationsDoNotInterleave
  BY DEF LedgerIsCoherent, GenerationsDoNotInterleave
<1> HIDE DEF Coherent
<1>4. QED
  BY LeaseImplementsFencedLedger, <1>1, <1>2, <1>3, PTL
  DEF ImplementsFencedLedger, Ledger!LedgerSpec
=============================================================================
