--------------------------- MODULE SplitService ---------------------------
(***************************************************************************)
(* The service in its split deployment: one API process that creates jobs  *)
(* and any number of worker processes that recover, claim and evaluate     *)
(* them, all of them over one PostgreSQL table                             *)
(* (app/worker.py, app/services/worker.py, app/services/job_service.py).   *)
(*                                                                         *)
(* A worker's pc names the statement of EvaluationWorker.run and           *)
(* process_claimed that it is about to execute:                            *)
(*                                                                         *)
(*   poll        the loop test, then recover_stale_running                 *)
(*   recovering  the commit of recover_stale_running                       *)
(*   claim       claim_next_queued                                         *)
(*   claiming    the commit of claim_next_queued                           *)
(*   scoring     evaluator.score                                           *)
(*   succeed     set_succeeded          succeeding   its commit            *)
(*   succeeded   the refresh in set_succeeded, then the audit event        *)
(*   fail        set_failed             failing      its commit            *)
(*   failed      the refresh in set_failed, then the audit event           *)
(*   dead        run raised: the task is over, the process still waits     *)
(*               for a signal                                              *)
(*   down        there is no process                                       *)
(***************************************************************************)
EXTENDS PostgresRepository

CONSTANTS
  NoJob,      \* a worker that has claimed nothing
  Outcomes,   \* what evaluator.score may do: "scored", "error" (it raised)
  Stoppable,  \* the workers the deployment may send SIGTERM or SIGINT
  MaxFaults   \* bound: how many faults the environment may inject

ASSUME NoJobAssumption == NoJob \notin Jobs
ASSUME OutcomesAssumption == Outcomes \subseteq {"scored", "error"}
ASSUME StoppableAssumption == Stoppable \subseteq Processes
ASSUME FaultsAssumption == MaxFaults \in Nat

VARIABLES
  pc,        \* where each worker is
  claimed,   \* the job process_claimed works on
  attempt,   \* the attempt_count that the worker's claim of it committed
  stopping,  \* whether the process has been signalled
  faults,    \* how many faults there have been
  audit,     \* audit[j][e]: how often event e of job j was recorded
  depth      \* the length of the API process's in-memory queue

workerVars == <<pc, claimed, attempt, stopping>>

apiVars == <<audit, depth>>

vars == <<repositoryVars, workerVars, apiVars, faults>>

PcValues ==
  {"poll", "recovering", "claim", "claiming", "scoring",
   "succeed", "succeeding", "succeeded", "fail", "failing", "failed",
   "dead", "down"}

AuditEvents == {"queued", "running", "succeeded", "failed"}

\* The worker is inside process_claimed.
Processing(w) ==
  pc[w] \in {"scoring", "succeed", "succeeding", "succeeded", "fail", "failing", "failed"}

\* w has committed the outcome of j and is still inside set_succeeded or
\* set_failed: everyone sees the outcome, its event is yet to be recorded.
Refreshing(w, j) == pc[w] \in Terminal /\ claimed[w] = j

(***************************************************************************)
(* The worker has made a call that has opened a transaction.               *)
(***************************************************************************)
InTransaction(w) == pc[w] \in {"recovering", "claiming", "succeeding", "failing"}

Goto(w, label) == pc' = [pc EXCEPT ![w] = label]

Record(j, event) == audit' = [audit EXCEPT ![j][event] = @ + 1]

Fault ==
  /\ faults < MaxFaults
  /\ faults' = faults + 1

TypeOK ==
  /\ RepositoryTypeOK
  /\ pc \in [Processes -> PcValues]
  /\ claimed \in [Processes -> Jobs \cup {NoJob}]
  /\ attempt \in [Processes -> Nat]
  /\ stopping \in [Processes -> BOOLEAN]
  /\ faults \in 0..MaxFaults
  /\ audit \in [Jobs -> [AuditEvents -> Nat]]
  /\ depth \in Nat

Init ==
  /\ RepositoryInit
  /\ pc = [w \in Processes |-> "poll"]
  /\ claimed = [w \in Processes |-> NoJob]
  /\ attempt = [w \in Processes |-> 0]
  /\ stopping = [w \in Processes |-> FALSE]
  /\ faults = 0
  /\ audit = [j \in Jobs |-> [e \in AuditEvents |-> 0]]
  /\ depth = 0
-----------------------------------------------------------------------------
(***************************************************************************)
(* The API process.  submit inserts the row, puts the id on the in-memory  *)
(* queue, which nothing consumes in this role, and records the event.      *)
(***************************************************************************)
Submit(j) ==
  /\ Insert(j)
  /\ depth' = depth + 1
  /\ Record(j, "queued")
  /\ UNCHANGED <<workerVars, faults>>

\* The row is committed but the caller never gets past create: the commit's
\* answer was lost, or the API process crashed right after it.
SubmitLost(j) ==
  /\ Fault
  /\ Insert(j)
  /\ UNCHANGED <<workerVars, apiVars>>
-----------------------------------------------------------------------------
(***************************************************************************)
(* EvaluationWorker.run: one pass of the loop recovers stale jobs, then    *)
(* claims a job, then processes it.                                        *)
(***************************************************************************)
RecoverSelect(w) ==
  /\ pc[w] = "poll"
  /\ ~stopping[w]
  /\ SelectStale(w)
  /\ Goto(w, "recovering")
  /\ UNCHANGED <<claimed, attempt, stopping, apiVars, faults>>

RecoverCommit(w) ==
  /\ pc[w] = "recovering"
  /\ CommitRecovery(w)
  /\ Goto(w, "claim")
  /\ UNCHANGED <<claimed, attempt, stopping, apiVars, faults>>

ClaimNone(w) ==
  /\ pc[w] = "claim"
  /\ Claimable = {}
  /\ Goto(w, "poll")
  /\ UNCHANGED <<repositoryVars, claimed, attempt, stopping, apiVars, faults>>

ClaimSelect(w) ==
  /\ pc[w] = "claim"
  /\ \E j \in Jobs : /\ SelectOldestClaimable(w, j)
                     /\ claimed' = [claimed EXCEPT ![w] = j]
                     /\ attempt' = [attempt EXCEPT ![w] = jobs[j].attempt_count + 1]
  /\ Goto(w, "claiming")
  /\ UNCHANGED <<stopping, apiVars, faults>>

\* claim_next_queued commits, refreshes the row and returns; process_claimed
\* records the running event before anything that can wait.  The refresh is no
\* step of its own here, which records the event early: what is stated of
\* running events bounds them from above.
ClaimCommit(w) ==
  /\ pc[w] = "claiming"
  /\ CommitClaim(w)
  /\ Record(claimed[w], "running")
  /\ Goto(w, "scoring")
  /\ UNCHANGED <<claimed, attempt, stopping, depth, faults>>
-----------------------------------------------------------------------------
(***************************************************************************)
(* process_claimed.  A worker that is no longer processing has no claim.   *)
(***************************************************************************)
Leave(w, label) ==
  /\ Goto(w, label)
  /\ claimed' = [claimed EXCEPT ![w] = NoJob]
  /\ attempt' = [attempt EXCEPT ![w] = 0]

Score(w) ==
  /\ pc[w] = "scoring"
  /\ \E outcome \in Outcomes :
        Goto(w, IF outcome = "scored" THEN "succeed" ELSE "fail")
  /\ UNCHANGED <<repositoryVars, claimed, attempt, stopping, apiVars, faults>>

SucceedSelect(w) ==
  /\ pc[w] = "succeed"
  /\ SelectForTransition(w, claimed[w], FromRunning)
  /\ Goto(w, "succeeding")
  /\ UNCHANGED <<claimed, attempt, stopping, apiVars, faults>>

\* InvalidStateTransitionError is an error like any other: record a failure.
SucceedRejected(w) ==
  /\ pc[w] = "succeed"
  /\ TransitionRejected(claimed[w], FromRunning)
  /\ Goto(w, "fail")
  /\ UNCHANGED <<claimed, attempt, stopping, apiVars, faults>>

SucceedCommit(w) ==
  /\ pc[w] = "succeeding"
  /\ CommitSucceeded(w, attempt[w])
  /\ Goto(w, "succeeded")
  /\ UNCHANGED <<claimed, attempt, stopping, apiVars, faults>>

\* set_succeeded awaits the refresh of the committed row, which takes no lock,
\* and returns; process_claimed records the event.
SucceedRefresh(w) ==
  /\ pc[w] = "succeeded"
  /\ Record(claimed[w], "succeeded")
  /\ Leave(w, "poll")
  /\ UNCHANGED <<repositoryVars, stopping, depth, faults>>

(***************************************************************************)
(* _record_failure.  Whether or not the failure could be stored, the       *)
(* original error is raised again, and nothing in run catches it.          *)
(***************************************************************************)
FailSelect(w) ==
  /\ pc[w] = "fail"
  /\ SelectForTransition(w, claimed[w], FromQueuedOrRunning)
  /\ Goto(w, "failing")
  /\ UNCHANGED <<claimed, attempt, stopping, apiVars, faults>>

\* Mutant of FailRejected: the event is recorded before set_failed is known
\* to have succeeded.
FailRejectedRecorded(w) ==
  /\ pc[w] = "fail"
  /\ TransitionRejected(claimed[w], FromQueuedOrRunning)
  /\ Record(claimed[w], "failed")
  /\ Leave(w, "dead")
  /\ UNCHANGED <<stopping, depth, faults>>

FailRejected(w) ==
  /\ pc[w] = "fail"
  /\ TransitionRejected(claimed[w], FromQueuedOrRunning)
  /\ Leave(w, "dead")
  /\ UNCHANGED <<stopping, apiVars, faults>>

FailCommit(w) ==
  /\ pc[w] = "failing"
  /\ CommitFailed(w)
  /\ Goto(w, "failed")
  /\ UNCHANGED <<claimed, attempt, stopping, apiVars, faults>>

\* Mutant of FailRefresh: a failure is stored but not recorded.
FailRefreshSilently(w) ==
  /\ pc[w] = "failed"
  /\ Leave(w, "dead")
  /\ UNCHANGED <<repositoryVars, stopping, apiVars, faults>>

FailRefresh(w) ==
  /\ pc[w] = "failed"
  /\ Record(claimed[w], "failed")
  /\ Leave(w, "dead")
  /\ UNCHANGED <<repositoryVars, stopping, depth, faults>>
-----------------------------------------------------------------------------
(***************************************************************************)
(* Faults.  An error inside set_succeeded is handled by process_claimed;   *)
(* an error inside any other repository call ends run.                     *)
(***************************************************************************)
Raise(w) ==
  IF pc[w] \in {"succeed", "succeeding", "succeeded"}
  THEN Goto(w, "fail") /\ UNCHANGED <<claimed, attempt>>
  ELSE Leave(w, "dead")

\* A database call of w raises and its transaction, if any, is rolled back.
DatabaseError(w) ==
  /\ Fault
  /\ \/ pc[w] = "poll" /\ ~stopping[w]
     \/ pc[w] \in {"claim", "succeed", "succeeded", "fail", "failed"}
     \/ InTransaction(w)
  /\ Rollback(w)
  /\ Raise(w)
  /\ UNCHANGED <<stopping, apiVars>>

\* The commit takes effect, but its answer is lost, so that the call raises
\* (for claim_next_queued, also when its refresh fails).
AnswerLost(w) ==
  /\ Fault
  /\ \/ pc[w] = "recovering" /\ CommitRecovery(w)
     \/ pc[w] = "claiming" /\ CommitClaim(w)
     \/ pc[w] = "succeeding" /\ CommitSucceeded(w, attempt[w])
     \/ pc[w] = "failing" /\ CommitFailed(w)
  /\ Raise(w)
  /\ UNCHANGED <<stopping, apiVars>>

\* The process is killed; the database rolls its transaction back.
Crash(w) ==
  /\ Fault
  /\ pc[w] # "down"
  /\ Rollback(w)
  /\ Leave(w, "down")
  /\ stopping' = [stopping EXCEPT ![w] = FALSE]
  /\ UNCHANGED apiVars
-----------------------------------------------------------------------------
(***************************************************************************)
(* run_worker: a signal makes the process leave when the loop next tests   *)
(* _stopping, or at once when the task is already over.                    *)
(***************************************************************************)
Signal(w) ==
  /\ w \in Stoppable
  /\ pc[w] # "down"
  /\ ~stopping[w]
  /\ stopping' = [stopping EXCEPT ![w] = TRUE]
  /\ UNCHANGED <<repositoryVars, pc, claimed, attempt, apiVars, faults>>

\* Mutant of Exit: stop cancels the task instead of waiting for it.
ExitCancelling(w) ==
  /\ pc[w] \in {"poll", "scoring", "dead"}
  /\ stopping[w]
  /\ Leave(w, "down")
  /\ stopping' = [stopping EXCEPT ![w] = FALSE]
  /\ UNCHANGED <<repositoryVars, apiVars, faults>>

Exit(w) ==
  /\ pc[w] \in {"poll", "dead"}
  /\ stopping[w]
  /\ Goto(w, "down")
  /\ stopping' = [stopping EXCEPT ![w] = FALSE]
  /\ UNCHANGED <<repositoryVars, claimed, attempt, apiVars, faults>>

Start(w) ==
  /\ pc[w] = "down"
  /\ Goto(w, "poll")
  /\ UNCHANGED <<repositoryVars, claimed, attempt, stopping, apiVars, faults>>

\* stale_job_seconds pass after j was claimed.
Age(j) ==
  /\ GrowOld(j)
  /\ UNCHANGED <<workerVars, apiVars, faults>>
-----------------------------------------------------------------------------
WorkerStep(w) ==
  \/ RecoverSelect(w) \/ RecoverCommit(w)
  \/ ClaimNone(w) \/ ClaimSelect(w) \/ ClaimCommit(w)
  \/ Score(w)
  \/ SucceedSelect(w) \/ SucceedRejected(w)
  \/ SucceedCommit(w) \/ SucceedRefresh(w)
  \/ FailSelect(w) \/ FailRejected(w)
  \/ FailCommit(w) \/ FailRefresh(w)
  \/ Exit(w)

Environment(w) ==
  \/ DatabaseError(w) \/ AnswerLost(w) \/ Crash(w) \/ Signal(w) \/ Start(w)

Next ==
  \/ \E j \in Jobs : Submit(j) \/ SubmitLost(j) \/ Age(j)
  \/ \E w \in Processes : WorkerStep(w) \/ Environment(w)

Spec == Init /\ [][Next]_vars

(***************************************************************************)
(* A worker's event loop keeps running its task (evaluator.score is bound  *)
(* by a timeout, the database answers or raises) and time passes.  Nobody  *)
(* has to submit a job, to send a signal or to restart a process.          *)
(***************************************************************************)
Fairness ==
  /\ \A w \in Processes : WF_vars(WorkerStep(w))
  /\ \A j \in Jobs : WF_vars(Age(j))

FairSpec == Spec /\ Fairness
-----------------------------------------------------------------------------
(***************************************************************************)
(* Safety.                                                                 *)
(***************************************************************************)

\* Two workers never work on the same attempt of a job: FOR UPDATE SKIP LOCKED
\* in claim_next_queued gives every claim, also one made after a recovery, an
\* attempt_count of its own.
OneWorkerPerAttempt ==
  \A v, w \in Processes :
    (v # w /\ Processing(v) /\ Processing(w) /\ claimed[v] = claimed[w])
      => attempt[v] # attempt[w]

\* process_claimed never starts more evaluations of a job than the claims its
\* row counts, and claims, recoveries, crashes and restarts together never
\* take attempt_count beyond max_attempts.
StartsWithinBudget ==
  \A j \in Jobs : /\ audit[j]["running"] <= jobs[j].attempt_count
                  /\ jobs[j].attempt_count <= MaxAttempts

\* recover_stale_running finds a row by its claimed_at: a running row has one,
\* whatever its worker went through, and no other row keeps one.
RunningIsRecoverable ==
  \A j \in Jobs : jobs[j].status = "running" <=> jobs[j].claimed_at # "null"

\* A stored result and the status succeeded go together, also after a late
\* set_failed, a second attempt or a commit whose answer was lost.
ResultIffSucceeded ==
  \A j \in Jobs : jobs[j].result # 0 <=> jobs[j].status = "succeeded"

\* As long as nothing crashes and the database answers, a running row has a
\* worker on its current attempt: signals, slow workers and recoveries leave no
\* orphan behind.
NoOrphanWithoutFault ==
  faults = 0 =>
    \A j \in Jobs :
      jobs[j].status = "running" =>
        \E w \in Processes : /\ Processing(w)
                              /\ claimed[w] = j
                              /\ attempt[w] = jobs[j].attempt_count

\* The audit log has at most one terminal event per job and it is the status
\* the row has: a worker whose set_succeeded or set_failed was refused records
\* none.
TerminalEventsMatchRow ==
  \A j \in Jobs :
    /\ audit[j]["succeeded"] + audit[j]["failed"] <= 1
    /\ \A s \in Terminal : audit[j][s] = 1 => jobs[j].status = s

\* As long as nothing crashes and the database answers, the audit log and
\* evaluation_jobs_total have every outcome but one kind, a job that
\* recover_stale_running failed, whose row alone tells of it, once the worker
\* that committed the outcome is out of the repository call: while it awaits the
\* refresh, and no longer, a client may see an outcome the audit log lacks.
OnlyRecoveryIsUnaudited ==
  faults = 0 =>
    \A j \in Jobs :
      jobs[j].status \in Terminal =>
        \/ audit[j][jobs[j].status] = 1
        \/ jobs[j].status = "failed" /\ jobs[j].error_message = "timed out"
        \/ \E w \in Processes : Refreshing(w, j) /\ pc[w] = jobs[j].status

\* The row as the transaction that locked it sees it, when only time passed.
SameButOlder(loaded, row) ==
  /\ row.status = loaded.status
  /\ row.attempt_count = loaded.attempt_count
  /\ row.result = loaded.result
  /\ row.error_message = loaded.error_message
  /\ \/ row.claimed_at = loaded.claimed_at
     \/ loaded.claimed_at = "recent" /\ row.claimed_at = "old"

\* What a transaction writes back is computed from the row as it still is when
\* it commits, no two transactions hold a row, and a worker outside a
\* repository call (also a dead one) holds none.
NoLostUpdate ==
  \A w \in Processes, j \in Jobs :
    Holds(w, j) => /\ InTransaction(w)
                   /\ SameButOlder(tx[w][j], jobs[j])
                   /\ \A v \in Processes : Holds(v, j) => v = w

\* A client that has seen succeeded or failed sees the same outcome ever after:
\* no step of any worker, however late, changes a finished row.
TerminalIsFinal ==
  [][\A j \in Jobs : jobs[j].status \in Terminal => jobs'[j] = jobs[j]]_vars

\* The table, seen as the abstract lifecycle: the variables of JobLifecycle are
\* columns of the committed rows.
Lifecycle ==
  INSTANCE JobLifecycle
    WITH status   <- [j \in Jobs |-> jobs[j].status],
         attempts <- [j \in Jobs |-> jobs[j].attempt_count],
         result   <- [j \in Jobs |-> jobs[j].result]

\* The split service implements the lifecycle: interleaved two-step
\* transactions with faults change a client's view as atomic steps would.
ImplementsLifecycle == Lifecycle!Spec
-----------------------------------------------------------------------------
(***************************************************************************)
(* Liveness.                                                               *)
(***************************************************************************)
Created(j) == jobs[j].status # "absent"

Finished(j) == jobs[j].status \in Terminal

\* Some worker's run loop keeps coming back to claim_next_queued.
SomeWorkerPolls == []<>(\E w \in Processes : pc[w] = "claim")

\* As long as some worker keeps polling, every created job reaches an outcome,
\* whatever happened to the workers that had claimed it: no job gets stuck
\* running, and none is queued that claim_next_queued would not take.
JobsFinish == SomeWorkerPolls => \A j \in Jobs : Created(j) ~> Finished(j)

\* A worker claims a created job and marks it succeeded or failed, with no
\* crash, no database error and no signal (README.md:97).
EveryJobFinishes == \A j \in Jobs : Created(j) ~> Finished(j)

\* A job whose evaluation never fails is retried until its attempt budget is
\* exhausted (README.md:106): it fails with no attempt left, or not at all.
RetriedUntilExhausted ==
  \A j \in Jobs : jobs[j].status = "failed" => jobs[j].attempt_count = MaxAttempts
=============================================================================
