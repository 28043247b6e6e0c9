---------------------- MODULE PostgresRepositoryProofs ----------------------
(***************************************************************************)
(* Facts about the table and its transactions that the proofs of all       *)
(* deployments use.                                                        *)
(***************************************************************************)
EXTENDS PostgresRepository, TLAPS

(***************************************************************************)
(* Rows: what the transactions write is a row.                             *)
(***************************************************************************)
\* What create inserts is a row.
LEMMA NewRowType == NoRow \in Row /\ NewRow \in Row
  BY DEF NewRow, NoRow, Row, JobStatus, ErrorMessages

\* claim_next_queued writes a row.
LEMMA ClaimedType ==
  ASSUME NEW row \in Row
  PROVE  Claimed(row) \in Row
<1>1. /\ row.attempt_count + 1 \in Nat
      /\ row.result \in Nat
      /\ row.error_message \in ErrorMessages
  BY DEF Row
<1>2. "running" \in JobStatus
  BY DEF JobStatus
<1> QED BY <1>1, <1>2 DEF Claimed, Row

\* recover_stale_running writes rows.
LEMMA RecoveredType ==
  ASSUME NEW row \in Row
  PROVE  Recovered(row) \in Row
  BY DEF Recovered, Row, JobStatus, ErrorMessages

\* set_running writes a row.
LEMMA StartedType ==
  ASSUME NEW row \in Row
  PROVE  Started(row) \in Row
  BY DEF Started, Row, JobStatus, ErrorMessages

\* set_succeeded writes a row.
LEMMA SucceededType ==
  ASSUME NEW row \in Row, NEW result \in Nat
  PROVE  Succeeded(row, result) \in Row
  BY DEF Succeeded, Row, JobStatus, ErrorMessages

\* set_failed writes a row.
LEMMA FailedType ==
  ASSUME NEW row \in Row
  PROVE  Failed(row) \in Row
  BY DEF Failed, Row, JobStatus, ErrorMessages

\* Time keeps a row a row.
LEMMA AgedType ==
  ASSUME NEW row \in Row
  PROVE  Aged(row) \in Row
  BY DEF Aged, Row, JobStatus, ErrorMessages

(***************************************************************************)
(* The repository's steps keep the table and the transactions well typed.  *)
(***************************************************************************)
\* A commit of well-typed rows.
LEMMA CommitType ==
  ASSUME RepositoryTypeOK, NEW p \in Processes, NEW changed \in [Jobs -> Row],
         Commit(p, changed)
  PROVE  RepositoryTypeOK'
<1>1. jobs' \in [Jobs -> Row]
  BY DEF RepositoryTypeOK, Commit
<1>2. tx' \in [Processes -> [Jobs -> Row]]
  BY NewRowType DEF RepositoryTypeOK, Commit, Release
<1> QED BY <1>1, <1>2 DEF RepositoryTypeOK

\* The commits.
LEMMA CommitsType ==
  ASSUME RepositoryTypeOK, NEW p \in Processes, NEW result \in Nat
  PROVE  /\ CommitClaim(p) => RepositoryTypeOK'
         /\ CommitRecovery(p) => RepositoryTypeOK'
         /\ CommitStarted(p) => RepositoryTypeOK'
         /\ CommitSucceeded(p, result) => RepositoryTypeOK'
         /\ CommitFailed(p) => RepositoryTypeOK'
<1>0. \A j \in Jobs : tx[p][j] \in Row
  BY DEF RepositoryTypeOK
<1>1. [j \in Jobs |-> Claimed(tx[p][j])] \in [Jobs -> Row]
  BY <1>0, ClaimedType
<1>2. [j \in Jobs |-> Recovered(tx[p][j])] \in [Jobs -> Row]
  BY <1>0, RecoveredType
<1>3. [j \in Jobs |-> Succeeded(tx[p][j], result)] \in [Jobs -> Row]
  BY <1>0, SucceededType
<1>4. [j \in Jobs |-> Failed(tx[p][j])] \in [Jobs -> Row]
  BY <1>0, FailedType
<1>5. [j \in Jobs |-> Started(tx[p][j])] \in [Jobs -> Row]
  BY <1>0, StartedType
<1> QED
  BY <1>1, <1>2, <1>3, <1>4, <1>5, CommitType
  DEF CommitClaim, CommitRecovery, CommitStarted, CommitSucceeded, CommitFailed

\* Loading rows, and releasing them.
LEMMA LocksType ==
  ASSUME RepositoryTypeOK, NEW p \in Processes
  PROVE  /\ \A S : Load(p, S) /\ UNCHANGED jobs => RepositoryTypeOK'
         /\ Rollback(p) => RepositoryTypeOK'
<1>1. ASSUME NEW S, Load(p, S), UNCHANGED jobs
      PROVE  RepositoryTypeOK'
  BY <1>1, NewRowType DEF RepositoryTypeOK, Load
<1>2. Rollback(p) => RepositoryTypeOK'
  BY NewRowType DEF RepositoryTypeOK, Rollback, Release
<1> QED BY <1>1, <1>2

\* Inserting a row, and the passing of time.
LEMMA RowStepsType ==
  ASSUME RepositoryTypeOK, NEW j \in Jobs
  PROVE  /\ Insert(j) => RepositoryTypeOK'
         /\ GrowOld(j) => RepositoryTypeOK'
<1>1. Insert(j) => RepositoryTypeOK'
  BY NewRowType DEF RepositoryTypeOK, Insert
<1>2. GrowOld(j) => RepositoryTypeOK'
  BY AgedType DEF RepositoryTypeOK, GrowOld
<1> QED BY <1>1, <1>2

(***************************************************************************)
(* The steps row by row.                                                   *)
(***************************************************************************)
\* p has no lock any more, the locks of the others stay.
Released(p) ==
  /\ \A j \in Jobs : tx'[p][j] = NoRow
  /\ \A v \in Processes \ {p} : tx'[v] = tx[v]

\* What a commit and a rollback do, row by row.
LEMMA CommitPointwise ==
  ASSUME RepositoryTypeOK, NEW w \in Processes, NEW changed
  PROVE  /\ Commit(w, changed) =>
              /\ \A j \in Jobs : jobs'[j] = IF Holds(w, j) THEN changed[j] ELSE jobs[j]
              /\ Released(w)
         /\ Rollback(w) => Released(w) /\ jobs' = jobs
<1>1. Release(w) => Released(w)
  BY DEF RepositoryTypeOK, Release, Released
<1>2. Commit(w, changed) =>
        \A j \in Jobs : jobs'[j] = IF Holds(w, j) THEN changed[j] ELSE jobs[j]
  BY DEF Commit
<1> QED BY <1>1, <1>2 DEF Commit, Rollback

\* What a SELECT FOR UPDATE does, row by row.
LEMMA LoadPointwise ==
  ASSUME RepositoryTypeOK, NEW w \in Processes, NEW S, Load(w, S)
  PROVE  /\ \A j \in Jobs : tx'[w][j] = IF j \in S THEN jobs[j] ELSE NoRow
         /\ \A v \in Processes \ {w} : tx'[v] = tx[v]
  BY DEF RepositoryTypeOK, Load
=============================================================================
