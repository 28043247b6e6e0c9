------------------------ MODULE PostgresRepository ------------------------
(***************************************************************************)
(* The evaluation_jobs table and the transactions PostgresJobRepository    *)
(* runs on it (app/storage/postgres.py).                                   *)
(*                                                                         *)
(* A repository call that changes a row is one transaction of two steps:   *)
(* a SELECT ... FOR UPDATE that locks and loads the rows, and a COMMIT     *)
(* that writes them back and releases the locks.  Between the two the      *)
(* process that made the call can fail, which rolls back, and other        *)
(* processes run.  The operators below are these steps; the modules that   *)
(* EXTEND this one say which process takes which step when.                *)
(***************************************************************************)
EXTENDS Naturals

CONSTANTS
  Jobs,         \* the job ids that may be submitted
  CreatedAt,    \* created_at of each job, stamped before its row is inserted
  MaxAttempts,  \* max_attempts, the same for every job (domain/models.py:122)
  Processes     \* the processes that run transactions on the table

ASSUME JobsAssumption == CreatedAt \in [Jobs -> Nat]
ASSUME AttemptsAssumption == MaxAttempts \in Nat \ {0}

VARIABLES
  jobs,   \* the committed rows
  tx      \* tx[p][j]: the row of j that p's open transaction locked and loaded

repositoryVars == <<jobs, tx>>
-----------------------------------------------------------------------------
(***************************************************************************)
(* Rows.  claimed_at is kept to what recover_stale_running tells apart:    *)
(* NULL, not older than the cutoff, older than the cutoff.  A result is    *)
(* the attempt whose evaluation produced it, 0 for NULL.  The columns that *)
(* are written once and never read by a transition (tenant, project,       *)
(* request, created_at) are not part of the row.                           *)
(***************************************************************************)
JobStatus == {"queued", "running", "succeeded", "failed"}

Terminal == {"succeeded", "failed"}

ErrorMessages == {"null", "stopped before completing", "timed out", "evaluation failed"}

Row == [status        : JobStatus \cup {"absent"},
        attempt_count : Nat,
        claimed_at    : {"null", "recent", "old"},
        result        : Nat,
        error_message : ErrorMessages]

\* No row with this id: never inserted, or (in tx) not loaded.
NoRow == [status |-> "absent", attempt_count |-> 0, claimed_at |-> "null",
          result |-> 0, error_message |-> "null"]

\* Mutant of NewRow: a status that JobStatus does not know.
NewRowPending == [NoRow EXCEPT !.status = "pending"]

\* The row that create inserts for a new EvaluationJob.
NewRow == [NoRow EXCEPT !.status = "queued"]
-----------------------------------------------------------------------------
(***************************************************************************)
(* What each transaction assigns to a row it has loaded.                   *)
(***************************************************************************)
\* Mutant of Claimed: the claim is not counted.
ClaimedUncounted(row) ==
  [row EXCEPT !.status = "running", !.claimed_at = "recent"]

\* Mutant of Claimed: the claim leaves no time stamp.
ClaimedUntimed(row) ==
  [row EXCEPT !.status = "running", !.attempt_count = @ + 1]

Claimed(row) ==
  [status        |-> "running",
   attempt_count |-> row.attempt_count + 1,
   claimed_at    |-> "recent",
   result        |-> row.result,
   error_message |-> row.error_message]

\* Mutant of Recovered: > for >=, one attempt too many.
RecoveredOneMore(row) ==
  [row EXCEPT !.status = IF row.attempt_count > MaxAttempts THEN "failed" ELSE "queued",
              !.claimed_at = "null"]

Recovered(row) ==
  LET exhausted == row.attempt_count >= MaxAttempts IN
  [status        |-> IF exhausted THEN "failed" ELSE "queued",
   attempt_count |-> row.attempt_count,
   claimed_at    |-> "null",
   result        |-> row.result,
   error_message |-> IF exhausted THEN "timed out" ELSE "stopped before completing"]

Started(row) ==
  [status        |-> "running",
   attempt_count |-> row.attempt_count,
   claimed_at    |-> row.claimed_at,
   result        |-> row.result,
   error_message |-> row.error_message]

Succeeded(row, result) ==
  [status        |-> "succeeded",
   attempt_count |-> row.attempt_count,
   claimed_at    |-> "null",
   result        |-> result,
   error_message |-> row.error_message]

Failed(row) ==
  [status        |-> "failed",
   attempt_count |-> row.attempt_count,
   claimed_at    |-> "null",
   result        |-> row.result,
   error_message |-> "evaluation failed"]

\* No assignment of the code: the row when enough time has passed.
Aged(row) ==
  [status        |-> row.status,
   attempt_count |-> row.attempt_count,
   claimed_at    |-> "old",
   result        |-> row.result,
   error_message |-> row.error_message]
-----------------------------------------------------------------------------
(***************************************************************************)
(* Locks and transactions.                                                 *)
(***************************************************************************)
Holds(p, j) == tx[p][j] # NoRow

Locked(j) == \E p \in Processes : Holds(p, j)

\* SELECT ... FOR UPDATE of the rows in S, all of them unlocked.
Load(p, S) ==
  tx' = [tx EXCEPT ![p] = [j \in Jobs |-> IF j \in S THEN jobs[j] ELSE NoRow]]

\* The end of p's transaction, by COMMIT or by ROLLBACK: its locks are free.
Release(p) == tx' = [tx EXCEPT ![p] = [j \in Jobs |-> NoRow]]

\* COMMIT of the rows that p has loaded, as p has changed them.
Commit(p, changed) ==
  /\ jobs' = [j \in Jobs |-> IF Holds(p, j) THEN changed[j] ELSE jobs[j]]
  /\ Release(p)

(***************************************************************************)
(* create: one INSERT, committed on its own.  The primary key refuses an   *)
(* id that has a row (IntegrityError); a submitted job has a new uuid4.    *)
(***************************************************************************)
Insert(j) ==
  /\ jobs[j] = NoRow
  /\ jobs' = [jobs EXCEPT ![j] = NewRow]
  /\ UNCHANGED tx

InsertRefused(j) ==
  /\ jobs[j] # NoRow
  /\ UNCHANGED repositoryVars

(***************************************************************************)
(* claim_next_queued: the oldest queued row with attempts left that no     *)
(* other transaction has locked (SKIP LOCKED); rows created at the same    *)
(* instant come in any order.                                              *)
(***************************************************************************)
\* Mutant of Claimable: the SELECT is not FOR UPDATE SKIP LOCKED.
ClaimableOrLocked ==
  {j \in Jobs : jobs[j].status = "queued" /\ jobs[j].attempt_count < MaxAttempts}

\* Mutant of Claimable: off by one, the last attempt is never given out.
ClaimableButLast ==
  {j \in Jobs : jobs[j].status = "queued" /\ jobs[j].attempt_count + 1 < MaxAttempts
               /\ ~Locked(j)}

Claimable ==
  {j \in Jobs : /\ jobs[j].status = "queued"
                /\ jobs[j].attempt_count < MaxAttempts
                /\ ~Locked(j)}

OldestClaimable ==
  {j \in Claimable : \A k \in Claimable : CreatedAt[j] <= CreatedAt[k]}

SelectOldestClaimable(p, j) ==
  /\ j \in OldestClaimable
  /\ Load(p, {j})
  /\ UNCHANGED jobs

CommitClaim(p) == Commit(p, [j \in Jobs |-> Claimed(tx[p][j])])

(***************************************************************************)
(* recover_stale_running: every unlocked running row whose claimed_at is   *)
(* set and older than the cutoff, in one transaction.                      *)
(***************************************************************************)
\* Mutant of Stale: the rows are read without regard to their locks.
StaleOrLocked ==
  {j \in Jobs : jobs[j].status = "running" /\ jobs[j].claimed_at = "old"}

\* Mutant of Stale: a row without claimed_at counts as older than any cutoff.
StaleOrUnclaimed ==
  {j \in Jobs : jobs[j].status = "running" /\ jobs[j].claimed_at # "recent" /\ ~Locked(j)}

Stale ==
  {j \in Jobs : /\ jobs[j].status = "running"
                /\ jobs[j].claimed_at = "old"
                /\ ~Locked(j)}

SelectStale(p) == Load(p, Stale) /\ UNCHANGED jobs

CommitRecovery(p) == Commit(p, [j \in Jobs |-> Recovered(tx[p][j])])

(***************************************************************************)
(* set_running, set_succeeded and set_failed wait for the row's lock, then *)
(* check the status they find (_validate_transition); a status that is not *)
(* allowed raises and leaves no transaction open.                          *)
(***************************************************************************)
FromQueued == {"queued"}

\* Mutant of FromRunning: a retried job may also succeed after it has failed.
FromRunningOrFailed == {"running", "failed"}

FromRunning == {"running"}

\* Mutant of FromQueuedOrRunning: any job may be failed.
FromAnyStatus == JobStatus

FromQueuedOrRunning == {"queued", "running"}

SelectForTransition(p, j, allowed) ==
  /\ ~Locked(j)
  /\ jobs[j].status \in allowed
  /\ Load(p, {j})
  /\ UNCHANGED jobs

TransitionRejected(j, allowed) ==
  /\ ~Locked(j)
  /\ jobs[j].status \notin allowed
  /\ UNCHANGED repositoryVars

CommitStarted(p) == Commit(p, [j \in Jobs |-> Started(tx[p][j])])

CommitSucceeded(p, result) ==
  Commit(p, [j \in Jobs |-> Succeeded(tx[p][j], result)])

CommitFailed(p) == Commit(p, [j \in Jobs |-> Failed(tx[p][j])])

Rollback(p) == Release(p) /\ UNCHANGED jobs

(***************************************************************************)
(* stale_job_seconds pass after j was claimed: its claimed_at is now older *)
(* than the cutoff of the next recover_stale_running.                      *)
(***************************************************************************)
GrowOld(j) ==
  /\ jobs[j].claimed_at = "recent"
  /\ jobs' = [jobs EXCEPT ![j] = Aged(jobs[j])]
  /\ UNCHANGED tx

RepositoryInit ==
  /\ jobs = [j \in Jobs |-> NoRow]
  /\ tx = [p \in Processes |-> [j \in Jobs |-> NoRow]]

RepositoryTypeOK ==
  /\ jobs \in [Jobs -> Row]
  /\ tx \in [Processes -> [Jobs -> Row]]
=============================================================================
