------------------------ MODULE SplitServiceProofs ------------------------
(***************************************************************************)
(* Proofs about the split service, for every set of jobs and workers and   *)
(* every bound.                                                            *)
(***************************************************************************)
EXTENDS SplitService, PostgresRepositoryProofs, TLAPS

(***************************************************************************)
(* Type correctness.                                                       *)
(***************************************************************************)
\* Recording an event counts it.
LEMMA RecordType ==
  ASSUME audit \in [Jobs -> [AuditEvents -> Nat]], NEW j, NEW e, Record(j, e)
  PROVE  audit' \in [Jobs -> [AuditEvents -> Nat]]
<1>1. audit' = [audit EXCEPT ![j] = [audit[j] EXCEPT ![e] = audit[j][e] + 1]]
  BY DEF Record
<1>2. ASSUME j \in Jobs
      PROVE  [audit[j] EXCEPT ![e] = audit[j][e] + 1] \in [AuditEvents -> Nat]
  <2>1. audit[j] \in [AuditEvents -> Nat]
    BY <1>2
  <2>2. e \in AuditEvents => audit[j][e] + 1 \in Nat
    BY <2>1
  <2> QED BY <2>1, <2>2
<1> QED BY <1>1, <1>2

\* The assignments that actions share.
LEMMA AssignmentsType ==
  ASSUME TypeOK, NEW w \in Processes
  PROVE  /\ \A label \in PcValues : Goto(w, label) => pc' \in [Processes -> PcValues]
         /\ \A label \in PcValues :
              Leave(w, label) => /\ pc' \in [Processes -> PcValues]
                                 /\ claimed' \in [Processes -> Jobs \cup {NoJob}]
                                 /\ attempt' \in [Processes -> Nat]
         /\ \A j, e : Record(j, e) => audit' \in [Jobs -> [AuditEvents -> Nat]]
         /\ Fault => faults' \in 0..MaxFaults
<1>1. ASSUME NEW label \in PcValues
      PROVE  Goto(w, label) => pc' \in [Processes -> PcValues]
  BY DEF TypeOK, Goto
<1>2. ASSUME NEW label \in PcValues, Leave(w, label)
      PROVE  /\ pc' \in [Processes -> PcValues]
             /\ claimed' \in [Processes -> Jobs \cup {NoJob}]
             /\ attempt' \in [Processes -> Nat]
  BY <1>1, <1>2 DEF TypeOK, Leave
<1>3. ASSUME NEW j, NEW e, Record(j, e)
      PROVE  audit' \in [Jobs -> [AuditEvents -> Nat]]
  BY <1>3, RecordType DEF TypeOK
<1>4. Fault => faults' \in 0..MaxFaults
  BY FaultsAssumption DEF TypeOK, Fault
<1> QED BY <1>1, <1>2, <1>3, <1>4

\* The control points the actions name are control points.
LEMMA Labels ==
  /\ "poll" \in PcValues /\ "recovering" \in PcValues /\ "claim" \in PcValues
  /\ "claiming" \in PcValues /\ "scoring" \in PcValues /\ "succeed" \in PcValues
  /\ "succeeding" \in PcValues /\ "fail" \in PcValues /\ "failing" \in PcValues
  /\ "succeeded" \in PcValues /\ "failed" \in PcValues
  /\ "dead" \in PcValues /\ "down" \in PcValues
  BY DEF PcValues

\* A worker's own steps keep the types.
LEMMA WorkerStepType ==
  ASSUME TypeOK, NEW w \in Processes, WorkerStep(w)
  PROVE  TypeOK'
<1> USE Labels
<1>0. RepositoryTypeOK /\ attempt[w] \in Nat
  BY DEF TypeOK
<1>1. CASE RecoverSelect(w)
  <2>1. RepositoryTypeOK'
    BY <1>0, <1>1, LocksType DEF RecoverSelect, SelectStale
  <2> QED BY <1>1, <2>1, AssignmentsType DEF TypeOK, RecoverSelect, apiVars
<1>2. CASE RecoverCommit(w)
  <2>1. RepositoryTypeOK'
    BY <1>0, <1>2, CommitsType DEF RecoverCommit
  <2> QED BY <1>2, <2>1, AssignmentsType DEF TypeOK, RecoverCommit, apiVars
<1>3. CASE ClaimNone(w)
  <2>1. RepositoryTypeOK'
    BY <1>0, <1>3 DEF ClaimNone, repositoryVars, RepositoryTypeOK
  <2> QED BY <1>3, <2>1, AssignmentsType DEF TypeOK, ClaimNone, apiVars
<1>4. CASE ClaimSelect(w)
  <2>1. PICK j \in Jobs : /\ SelectOldestClaimable(w, j)
                          /\ claimed' = [claimed EXCEPT ![w] = j]
                          /\ attempt' = [attempt EXCEPT ![w] = jobs[j].attempt_count + 1]
    BY <1>4 DEF ClaimSelect
  <2>2. RepositoryTypeOK'
    BY <1>0, <2>1, LocksType DEF SelectOldestClaimable
  <2>3. jobs[j].attempt_count + 1 \in Nat
    BY <1>0 DEF RepositoryTypeOK, Row
  <2>4. claimed' \in [Processes -> Jobs \cup {NoJob}] /\ attempt' \in [Processes -> Nat]
    BY <2>1, <2>3 DEF TypeOK
  <2> QED BY <1>4, <2>2, <2>4, AssignmentsType DEF TypeOK, ClaimSelect, apiVars
<1>5. CASE ClaimCommit(w)
  <2>1. RepositoryTypeOK'
    BY <1>0, <1>5, CommitsType DEF ClaimCommit
  <2> QED BY <1>5, <2>1, AssignmentsType DEF TypeOK, ClaimCommit
<1>6. CASE Score(w)
  <2>1. RepositoryTypeOK'
    BY <1>0, <1>6 DEF Score, repositoryVars, RepositoryTypeOK
  <2>2. pc' \in [Processes -> PcValues]
    BY <1>6, AssignmentsType DEF Score
  <2> QED BY <1>6, <2>1, <2>2 DEF TypeOK, Score, apiVars
<1>7. CASE SucceedSelect(w)
  <2>1. RepositoryTypeOK'
    BY <1>0, <1>7, LocksType DEF SucceedSelect, SelectForTransition
  <2> QED BY <1>7, <2>1, AssignmentsType DEF TypeOK, SucceedSelect, apiVars
<1>8. CASE SucceedRejected(w)
  <2>1. RepositoryTypeOK'
    BY <1>0, <1>8 DEF SucceedRejected, TransitionRejected, repositoryVars, RepositoryTypeOK
  <2> QED BY <1>8, <2>1, AssignmentsType DEF TypeOK, SucceedRejected, apiVars
<1>9. CASE SucceedCommit(w)
  <2>1. RepositoryTypeOK'
    BY <1>0, <1>9, CommitsType DEF SucceedCommit
  <2> QED BY <1>9, <2>1, AssignmentsType DEF TypeOK, SucceedCommit, apiVars
<1>10. CASE FailSelect(w)
  <2>1. RepositoryTypeOK'
    BY <1>0, <1>10, LocksType DEF FailSelect, SelectForTransition
  <2> QED BY <1>10, <2>1, AssignmentsType DEF TypeOK, FailSelect, apiVars
<1>11. CASE FailRejected(w)
  <2>1. RepositoryTypeOK'
    BY <1>0, <1>11 DEF FailRejected, TransitionRejected, repositoryVars, RepositoryTypeOK
  <2> QED BY <1>11, <2>1, AssignmentsType DEF TypeOK, FailRejected, apiVars
<1>12. CASE FailCommit(w)
  <2>1. RepositoryTypeOK'
    BY <1>0, <1>12, CommitsType DEF FailCommit
  <2> QED BY <1>12, <2>1, AssignmentsType DEF TypeOK, FailCommit, apiVars
<1>13. CASE Exit(w)
  <2>1. RepositoryTypeOK'
    BY <1>0, <1>13 DEF Exit, repositoryVars, RepositoryTypeOK
  <2> QED BY <1>13, <2>1, AssignmentsType DEF TypeOK, Exit, apiVars
<1>14. CASE SucceedRefresh(w) \/ FailRefresh(w)
  <2>1. RepositoryTypeOK'
    BY <1>0, <1>14 DEF SucceedRefresh, FailRefresh, repositoryVars, RepositoryTypeOK
  <2> QED BY <1>14, <2>1, AssignmentsType DEF TypeOK, SucceedRefresh, FailRefresh
<1> QED
  BY <1>1, <1>2, <1>3, <1>4, <1>5, <1>6, <1>7, <1>8, <1>9, <1>10, <1>11, <1>12, <1>13, <1>14
  DEF WorkerStep

\* Faults, signals and restarts keep the types.
LEMMA EnvironmentType ==
  ASSUME TypeOK, NEW w \in Processes, Environment(w)
  PROVE  TypeOK'
<1> USE Labels
<1>0. RepositoryTypeOK /\ attempt[w] \in Nat
  BY DEF TypeOK
<1>r. Rollback(w) => RepositoryTypeOK'
  BY <1>0, LocksType
<1>a. Raise(w) => /\ pc' \in [Processes -> PcValues]
                  /\ claimed' \in [Processes -> Jobs \cup {NoJob}]
                  /\ attempt' \in [Processes -> Nat]
  BY AssignmentsType DEF Raise, TypeOK
<1>1. CASE DatabaseError(w)
  BY <1>1, <1>r, <1>a, AssignmentsType DEF TypeOK, DatabaseError, apiVars
<1>2. CASE AnswerLost(w)
  <2>1. RepositoryTypeOK'
    BY <1>0, <1>2, CommitsType DEF AnswerLost
  <2> QED BY <1>2, <2>1, <1>a, AssignmentsType DEF TypeOK, AnswerLost, apiVars
<1>3. CASE Crash(w)
  BY <1>3, <1>r, AssignmentsType DEF TypeOK, Crash, apiVars
<1>4. CASE Signal(w)
  <2>1. RepositoryTypeOK'
    BY <1>0, <1>4 DEF Signal, repositoryVars, RepositoryTypeOK
  <2> QED BY <1>4, <2>1 DEF TypeOK, Signal, apiVars
<1>5. CASE Start(w)
  <2>1. RepositoryTypeOK'
    BY <1>0, <1>5 DEF Start, repositoryVars, RepositoryTypeOK
  <2> QED BY <1>5, <2>1, AssignmentsType DEF TypeOK, Start, apiVars
<1> QED BY <1>1, <1>2, <1>3, <1>4, <1>5 DEF Environment

\* Every step of the split service keeps the types.
LEMMA TypeStep ==
  ASSUME TypeOK, [Next]_vars
  PROVE  TypeOK'
<1>1. ASSUME NEW j \in Jobs, Submit(j) \/ SubmitLost(j) \/ Age(j)
      PROVE  TypeOK'
  <2>0. RepositoryTypeOK
    BY DEF TypeOK
  <2>1. Insert(j) => RepositoryTypeOK'
    BY <2>0, RowStepsType
  <2>2. GrowOld(j) => RepositoryTypeOK'
    BY <2>0, RowStepsType
  <2>3. CASE Submit(j)
    <3>1. audit' \in [Jobs -> [AuditEvents -> Nat]]
      BY <2>3, RecordType DEF TypeOK, Submit
    <3> QED BY <2>3, <2>1, <3>1 DEF TypeOK, Submit, workerVars
  <2>4. CASE SubmitLost(j)
    <3>1. faults' \in 0..MaxFaults
      BY <2>4, FaultsAssumption DEF TypeOK, SubmitLost, Fault
    <3> QED BY <2>4, <2>1, <3>1 DEF TypeOK, SubmitLost, workerVars, apiVars
  <2>5. CASE Age(j)
    BY <2>5, <2>2 DEF TypeOK, Age, workerVars, apiVars
  <2> QED BY <1>1, <2>3, <2>4, <2>5
<1>2. CASE UNCHANGED vars
  BY <1>2 DEF TypeOK, RepositoryTypeOK, vars, repositoryVars, workerVars, apiVars
<1> QED BY <1>1, <1>2, WorkerStepType, EnvironmentType DEF Next

\* Type correctness of the split service: whatever the workers and the
\* environment do, rows, locks, control points and counters stay in their
\* domains (JobStatus in app/domain/models.py, the columns of EvaluationJobRow).
THEOREM TypeCorrect == Spec => []TypeOK
<1>1. Init => TypeOK
  BY NewRowType, Labels, FaultsAssumption DEF Init, RepositoryInit, TypeOK, RepositoryTypeOK
<1> QED BY <1>1, TypeStep, PTL DEF Spec
-----------------------------------------------------------------------------
(***************************************************************************)
(* The inductive invariant.                                                *)
(*                                                                         *)
(* What the rows say about themselves holds only because a transaction     *)
(* computes what it writes from a row that is still in the table when it   *)
(* commits; that, because locks are exclusive; and a worker's locks follow *)
(* from where it is.  A claim stays below its row's attempt_count because  *)
(* attempt_count never decreases.                                          *)
(***************************************************************************)
\* The columns of one row fit together.
RowOK(row) ==
  /\ row.attempt_count <= MaxAttempts
  /\ row.status = "queued" => row.attempt_count < MaxAttempts
  /\ row.status = "running" => row.attempt_count > 0
  /\ row.status = "running" <=> row.claimed_at # "null"
  /\ row.result # 0 <=> row.status = "succeeded"

RowsOK == \A j \in Jobs : RowOK(jobs[j])

\* The lock that w has on j is its own, and fits the call that w is making.
LockOK(w, j) ==
  /\ SameButOlder(tx[w][j], jobs[j])
  /\ \A v \in Processes : Holds(v, j) => v = w
  /\ \/ pc[w] = "recovering" /\ tx[w][j].status = "running"
     \/ /\ pc[w] = "claiming" /\ claimed[w] = j
        /\ tx[w][j].status = "queued"
        /\ attempt[w] = tx[w][j].attempt_count + 1
     \/ pc[w] = "succeeding" /\ claimed[w] = j /\ tx[w][j].status = "running"
     \/ pc[w] = "failing" /\ claimed[w] = j /\ tx[w][j].status \in FromQueuedOrRunning

LocksOK == \A w \in Processes, j \in Jobs : Holds(w, j) => LockOK(w, j)

\* A worker in the middle of a single-row transaction has locked that row.
HoldsClaim ==
  \A w \in Processes :
    pc[w] \in {"claiming", "succeeding", "failing"} =>
      claimed[w] \in Jobs /\ Holds(w, claimed[w])

\* The attempt a worker works on was counted.
ClaimsCounted ==
  \A w \in Processes :
    Processing(w) => /\ claimed[w] \in Jobs
                     /\ attempt[w] > 0
                     /\ attempt[w] <= jobs[claimed[w]].attempt_count

\* The audit log agrees with the row.
AuditOK(j) ==
  /\ audit[j]["running"] <= jobs[j].attempt_count
  /\ jobs[j].status \notin Terminal => audit[j]["succeeded"] = 0 /\ audit[j]["failed"] = 0
  /\ audit[j]["succeeded"] + audit[j]["failed"] <= 1
  /\ \A s \in Terminal : audit[j][s] = 1 => jobs[j].status = s

\* A worker that is still inside the call that gave a row its outcome is the
\* only one, and the event of the outcome is not recorded yet.
RefreshOK(w) ==
  pc[w] \in Terminal =>
    /\ claimed[w] \in Jobs
    /\ jobs[claimed[w]].status = pc[w]
    /\ audit[claimed[w]]["succeeded"] = 0 /\ audit[claimed[w]]["failed"] = 0
    /\ \A v \in Processes : Refreshing(v, claimed[w]) => v = w

RefreshesOK == \A w \in Processes : RefreshOK(w)

Inv ==
  /\ TypeOK
  /\ RowsOK
  /\ LocksOK
  /\ HoldsClaim
  /\ ClaimsCounted
  /\ OneWorkerPerAttempt
  /\ \A j \in Jobs : AuditOK(j)
  /\ RefreshesOK

(***************************************************************************)
(* How a row may change in one step.                                       *)
(***************************************************************************)
Changes(old, new) ==
  \/ new = old
  \/ old = NoRow /\ new = NewRow
  \/ /\ old.status = "queued" /\ new.status = "running"
     /\ new.attempt_count = old.attempt_count + 1
     /\ new.claimed_at # "null" /\ new.result = old.result
  \/ /\ old.status = "running"
     /\ new.status = IF old.attempt_count >= MaxAttempts THEN "failed" ELSE "queued"
     /\ new.attempt_count = old.attempt_count
     /\ new.claimed_at = "null" /\ new.result = old.result
  \/ /\ old.status = "running" /\ new.status = "succeeded"
     /\ new.attempt_count = old.attempt_count
     /\ new.claimed_at = "null" /\ new.result \in 1..old.attempt_count
  \/ /\ old.status \in {"queued", "running"} /\ old.attempt_count > 0
     /\ new.status = "failed"
     /\ new.attempt_count = old.attempt_count
     /\ new.claimed_at = "null" /\ new.result = old.result
  \/ /\ old.claimed_at # "null" /\ new.claimed_at # "null"
     /\ new.status = old.status /\ new.attempt_count = old.attempt_count
     /\ new.result = old.result

\* These changes keep a row's columns consistent, and never take back an attempt.
LEMMA ChangesKeepRow ==
  ASSUME NEW old \in Row, NEW new \in Row, RowOK(old), Changes(old, new)
  PROVE  RowOK(new) /\ old.attempt_count <= new.attempt_count
<1>0. /\ old.attempt_count \in Nat /\ new.attempt_count \in Nat
      /\ old.result \in Nat /\ new.result \in Nat
      /\ MaxAttempts \in Nat \ {0}
  BY AttemptsAssumption DEF Row
<1>1. CASE new = old
  BY <1>0, <1>1
<1>2. CASE old = NoRow /\ new = NewRow
  BY <1>0, <1>2 DEF NoRow, NewRow, RowOK
<1>3. CASE /\ old.status = "queued" /\ new.status = "running"
           /\ new.attempt_count = old.attempt_count + 1
           /\ new.claimed_at # "null" /\ new.result = old.result
  BY <1>0, <1>3 DEF RowOK
<1>4. CASE /\ old.status = "running"
           /\ new.status = IF old.attempt_count >= MaxAttempts THEN "failed" ELSE "queued"
           /\ new.attempt_count = old.attempt_count
           /\ new.claimed_at = "null" /\ new.result = old.result
  BY <1>0, <1>4 DEF RowOK
<1>5. CASE /\ old.status = "running" /\ new.status = "succeeded"
           /\ new.attempt_count = old.attempt_count
           /\ new.claimed_at = "null" /\ new.result \in 1..old.attempt_count
  BY <1>0, <1>5 DEF RowOK
<1>6. CASE /\ old.status \in {"queued", "running"} /\ old.attempt_count > 0
           /\ new.status = "failed"
           /\ new.attempt_count = old.attempt_count
           /\ new.claimed_at = "null" /\ new.result = old.result
  BY <1>0, <1>6 DEF RowOK
<1>7. CASE /\ old.claimed_at # "null" /\ new.claimed_at # "null"
           /\ new.status = old.status /\ new.attempt_count = old.attempt_count
           /\ new.result = old.result
  BY <1>0, <1>7 DEF RowOK
<1> QED BY <1>1, <1>2, <1>3, <1>4, <1>5, <1>6, <1>7 DEF Changes

\* A row that has an outcome does not change.
LEMMA ChangesKeepOutcome ==
  ASSUME NEW old, NEW new, RowOK(old), Changes(old, new), old.status \in Terminal
  PROVE  new = old
  BY DEF Changes, RowOK, Terminal, NoRow

(***************************************************************************)
(* Transactions.                                                           *)
(***************************************************************************)
\* A locked row has the columns its transaction has loaded.
LEMMA LoadedRow ==
  ASSUME Inv, NEW w \in Processes, NEW j \in Jobs, Holds(w, j)
  PROVE  /\ tx[w][j] \in Row /\ jobs[j] \in Row
         /\ RowOK(jobs[j])
         /\ LockOK(w, j)
         /\ tx[w][j].status = jobs[j].status
         /\ tx[w][j].attempt_count = jobs[j].attempt_count
         /\ tx[w][j].result = jobs[j].result
  BY DEF Inv, TypeOK, RepositoryTypeOK, RowsOK, LocksOK, LockOK, SameButOlder

\* The other workers do not move.
OthersStay(w) ==
  \A v \in Processes \ {w} :
    pc'[v] = pc[v] /\ claimed'[v] = claimed[v] /\ attempt'[v] = attempt[v]

\* The end of a transaction keeps the locks consistent.
LEMMA LocksAfterRelease ==
  ASSUME Inv, NEW w \in Processes, Released(w), OthersStay(w),
         \A j \in Jobs : ~Holds(w, j) => jobs'[j] = jobs[j]
  PROVE  LocksOK'
<1> SUFFICES ASSUME NEW v \in Processes, NEW j \in Jobs, Holds(v, j)'
             PROVE  LockOK(v, j)'
  BY DEF LocksOK
<1>1. v # w /\ tx'[v] = tx[v] /\ Holds(v, j)
  BY DEF Released, Holds
<1>2. LockOK(v, j)
  BY <1>1 DEF Inv, LocksOK
<1>3. jobs'[j] = jobs[j]
  BY <1>1, <1>2 DEF LockOK
<1>4. \A u \in Processes : Holds(u, j)' => Holds(u, j)
  BY DEF Released, Holds
<1>5. pc'[v] = pc[v] /\ claimed'[v] = claimed[v] /\ attempt'[v] = attempt[v]
  BY <1>1 DEF OthersStay
<1> QED BY <1>1, <1>2, <1>3, <1>4, <1>5 DEF LockOK, SameButOlder

\* The lock that a call of w takes on a row fits the call.
Fits(w, j) ==
  \/ pc'[w] = "recovering" /\ jobs[j].status = "running"
  \/ /\ pc'[w] = "claiming" /\ claimed'[w] = j
     /\ jobs[j].status = "queued"
     /\ attempt'[w] = jobs[j].attempt_count + 1
  \/ pc'[w] = "succeeding" /\ claimed'[w] = j /\ jobs[j].status = "running"
  \/ pc'[w] = "failing" /\ claimed'[w] = j /\ jobs[j].status \in FromQueuedOrRunning

\* Loading unlocked rows keeps the locks consistent.
LEMMA LocksAfterLoad ==
  ASSUME Inv, NEW w \in Processes, NEW S \in SUBSET Jobs, Load(w, S), jobs' = jobs,
         OthersStay(w), \A j \in S : ~Locked(j) /\ Fits(w, j)
  PROVE  LocksOK'
<1>0. RepositoryTypeOK
  BY DEF Inv, TypeOK
<1>1. /\ \A j \in Jobs : tx'[w][j] = IF j \in S THEN jobs[j] ELSE NoRow
      /\ \A v \in Processes \ {w} : tx'[v] = tx[v]
  BY <1>0, LoadPointwise
<1> SUFFICES ASSUME NEW v \in Processes, NEW j \in Jobs, Holds(v, j)'
             PROVE  LockOK(v, j)'
  BY DEF LocksOK
<1>2. CASE v = w
  <2>1. j \in S /\ tx'[v][j] = jobs[j]
    BY <1>1, <1>2 DEF Holds
  <2>2. \A u \in Processes : Holds(u, j)' => u = v
    BY <1>1, <1>2, <2>1 DEF Holds, Locked
  <2>3. Fits(w, j)
    BY <2>1
  <2> QED BY <1>2, <2>1, <2>2, <2>3 DEF LockOK, SameButOlder, Fits
<1>3. CASE v # w
  <2>1. Holds(v, j) /\ tx'[v] = tx[v]
    BY <1>1, <1>3 DEF Holds
  <2>2. LockOK(v, j)
    BY <2>1 DEF Inv, LocksOK
  <2>3. j \notin S
    BY <2>1 DEF Locked
  <2>4. \A u \in Processes : Holds(u, j)' => Holds(u, j)
    BY <1>1, <2>3 DEF Holds
  <2>5. pc'[v] = pc[v] /\ claimed'[v] = claimed[v] /\ attempt'[v] = attempt[v]
    BY <1>3 DEF OthersStay
  <2> QED BY <2>1, <2>2, <2>4, <2>5 DEF LockOK, SameButOlder
<1> QED BY <1>2, <1>3

\* A worker outside a transaction has no locks: what it does to its own state
\* does not matter to them.
LEMMA LocksUntouched ==
  ASSUME Inv, NEW w \in Processes, ~InTransaction(w), UNCHANGED repositoryVars,
         OthersStay(w)
  PROVE  LocksOK'
<1> SUFFICES ASSUME NEW v \in Processes, NEW j \in Jobs, Holds(v, j)'
             PROVE  LockOK(v, j)'
  BY DEF LocksOK
<1>1. Holds(v, j) /\ tx' = tx /\ jobs' = jobs
  BY DEF Holds, repositoryVars
<1>2. LockOK(v, j)
  BY <1>1 DEF Inv, LocksOK
<1>3. v # w
  BY <1>2 DEF LockOK, InTransaction
<1>4. pc'[v] = pc[v] /\ claimed'[v] = claimed[v] /\ attempt'[v] = attempt[v]
  BY <1>3 DEF OthersStay
<1> QED BY <1>1, <1>2, <1>4 DEF LockOK, SameButOlder, Holds

\* A step of w is no step of another worker.
LEMMA OneWorkerSteps ==
  ASSUME TypeOK, NEW w \in Processes, WorkerStep(w) \/ Environment(w)
  PROVE  OthersStay(w)
<1>1. \A l : Goto(w, l) => \A v \in Processes \ {w} : pc'[v] = pc[v]
  BY DEF TypeOK, Goto
<1>2. \A l : Leave(w, l) => OthersStay(w)
  BY <1>1 DEF TypeOK, Leave, OthersStay
<1>3. \A l : Goto(w, l) /\ UNCHANGED <<claimed, attempt>> => OthersStay(w)
  BY <1>1 DEF OthersStay
<1>4. Raise(w) => OthersStay(w)
  BY <1>2, <1>3 DEF Raise
<1>5. CASE RecoverSelect(w) \/ RecoverCommit(w) \/ ClaimNone(w) \/ ClaimCommit(w)
  BY <1>3, <1>5 DEF RecoverSelect, RecoverCommit, ClaimNone, ClaimCommit
<1>6. CASE ClaimSelect(w)
  <2>1. \A v \in Processes \ {w} : claimed'[v] = claimed[v] /\ attempt'[v] = attempt[v]
    BY <1>6 DEF TypeOK, ClaimSelect
  <2> QED BY <1>1, <1>6, <2>1 DEF ClaimSelect, OthersStay
<1>7. CASE Score(w)
  BY <1>3, <1>7 DEF Score
<1>8. CASE \/ SucceedSelect(w) \/ SucceedRejected(w) \/ SucceedCommit(w)
           \/ FailSelect(w) \/ FailCommit(w) \/ Exit(w) \/ Start(w)
  BY <1>3, <1>8
  DEF SucceedSelect, SucceedRejected, SucceedCommit, FailSelect, FailCommit, Exit, Start
<1>9. CASE SucceedRefresh(w) \/ FailRejected(w) \/ FailRefresh(w) \/ Crash(w)
  BY <1>2, <1>9 DEF SucceedRefresh, FailRejected, FailRefresh, Crash
<1>10. CASE DatabaseError(w) \/ AnswerLost(w)
  BY <1>4, <1>10 DEF DatabaseError, AnswerLost
<1>11. CASE Signal(w)
  BY <1>11 DEF Signal, OthersStay
<1> QED
  BY <1>5, <1>6, <1>7, <1>8, <1>9, <1>10, <1>11 DEF WorkerStep, Environment

\* A commit changes rows in the permitted ways only, because what it computed
\* from the loaded row holds of the row in the table.
LEMMA CommitChanges ==
  ASSUME Inv, NEW w \in Processes,
         \/ pc[w] = "recovering" /\ CommitRecovery(w)
         \/ pc[w] = "claiming" /\ CommitClaim(w)
         \/ pc[w] = "succeeding" /\ CommitSucceeded(w, attempt[w])
         \/ pc[w] = "failing" /\ CommitFailed(w)
  PROVE  /\ \A j \in Jobs : Changes(jobs[j], jobs'[j])
         /\ \A j \in Jobs : ~Holds(w, j) => jobs'[j] = jobs[j]
         /\ Released(w)
<1>0. RepositoryTypeOK
  BY DEF Inv, TypeOK
<1>1. CASE pc[w] = "recovering" /\ CommitRecovery(w)
  <2>1. /\ \A j \in Jobs : jobs'[j] = IF Holds(w, j) THEN Recovered(tx[w][j]) ELSE jobs[j]
        /\ Released(w)
    BY <1>0, <1>1, CommitPointwise DEF CommitRecovery
  <2>2. ASSUME NEW j \in Jobs, Holds(w, j)
        PROVE  Changes(jobs[j], Recovered(tx[w][j]))
    <3>1. jobs[j].status = "running"
      BY <1>1, <2>2, LoadedRow DEF LockOK
    <3> QED BY <2>2, <3>1, LoadedRow DEF Changes, Recovered
  <2> QED BY <2>1, <2>2 DEF Changes
<1>2. CASE pc[w] = "claiming" /\ CommitClaim(w)
  <2>1. /\ \A j \in Jobs : jobs'[j] = IF Holds(w, j) THEN Claimed(tx[w][j]) ELSE jobs[j]
        /\ Released(w)
    BY <1>0, <1>2, CommitPointwise DEF CommitClaim
  <2>2. ASSUME NEW j \in Jobs, Holds(w, j)
        PROVE  Changes(jobs[j], Claimed(tx[w][j]))
    <3>1. jobs[j].status = "queued"
      BY <1>2, <2>2, LoadedRow DEF LockOK
    <3> QED BY <2>2, <3>1, LoadedRow DEF Changes, Claimed
  <2> QED BY <2>1, <2>2 DEF Changes
<1>3. CASE pc[w] = "succeeding" /\ CommitSucceeded(w, attempt[w])
  <2>1. /\ \A j \in Jobs :
             jobs'[j] = IF Holds(w, j) THEN Succeeded(tx[w][j], attempt[w]) ELSE jobs[j]
        /\ Released(w)
    BY <1>0, <1>3, CommitPointwise DEF CommitSucceeded
  <2>2. ASSUME NEW j \in Jobs, Holds(w, j)
        PROVE  Changes(jobs[j], Succeeded(tx[w][j], attempt[w]))
    <3>1. jobs[j].status = "running" /\ claimed[w] = j
      BY <1>3, <2>2, LoadedRow DEF LockOK
    <3>2. attempt[w] > 0 /\ attempt[w] <= jobs[j].attempt_count
      BY <1>3, <3>1 DEF Inv, ClaimsCounted, Processing
    <3>3. attempt[w] \in Nat /\ jobs[j].attempt_count \in Nat
      BY DEF Inv, TypeOK, RepositoryTypeOK, Row
    <3>4. attempt[w] \in 1..jobs[j].attempt_count
      BY <3>2, <3>3
    <3> QED BY <2>2, <3>1, <3>4, LoadedRow DEF Changes, Succeeded
  <2> QED BY <2>1, <2>2 DEF Changes
<1>4. CASE pc[w] = "failing" /\ CommitFailed(w)
  <2>1. /\ \A j \in Jobs : jobs'[j] = IF Holds(w, j) THEN Failed(tx[w][j]) ELSE jobs[j]
        /\ Released(w)
    BY <1>0, <1>4, CommitPointwise DEF CommitFailed
  <2>2. ASSUME NEW j \in Jobs, Holds(w, j)
        PROVE  Changes(jobs[j], Failed(tx[w][j]))
    <3>1. jobs[j].status \in {"queued", "running"} /\ claimed[w] = j
      BY <1>4, <2>2, LoadedRow DEF LockOK, FromQueuedOrRunning
    <3>2. attempt[w] > 0 /\ attempt[w] <= jobs[j].attempt_count
      BY <1>4, <3>1 DEF Inv, ClaimsCounted, Processing
    <3>3. attempt[w] \in Nat /\ jobs[j].attempt_count \in Nat
      BY DEF Inv, TypeOK, RepositoryTypeOK, Row
    <3>4. jobs[j].attempt_count > 0
      BY <3>2, <3>3
    <3> QED BY <2>2, <3>1, <3>4, LoadedRow DEF Changes, Failed
  <2> QED BY <2>1, <2>2 DEF Changes
<1> QED BY <1>1, <1>2, <1>3, <1>4

(***************************************************************************)
(* Every step, seen from the table: the row changes and the locks.         *)
(***************************************************************************)
\* A worker's commits are the only steps of a worker that write the table.
LEMMA WorkerWrites ==
  ASSUME Inv, NEW w \in Processes, WorkerStep(w) \/ Environment(w)
  PROVE  \/ jobs' = jobs
         \/ pc[w] = "recovering" /\ CommitRecovery(w)
         \/ pc[w] = "claiming" /\ CommitClaim(w)
         \/ pc[w] = "succeeding" /\ CommitSucceeded(w, attempt[w])
         \/ pc[w] = "failing" /\ CommitFailed(w)
<1>1. CASE WorkerStep(w)
  BY <1>1
  DEF WorkerStep, RecoverSelect, RecoverCommit, ClaimNone, ClaimSelect, ClaimCommit, Score,
      SucceedSelect, SucceedRejected, SucceedCommit, SucceedRefresh, FailSelect, FailRejected,
      FailCommit, FailRefresh, Exit, SelectStale, SelectOldestClaimable, SelectForTransition,
      TransitionRejected,
      repositoryVars
<1>2. CASE Environment(w)
  BY <1>2
  DEF Environment, DatabaseError, AnswerLost, Crash, Signal, Start, Rollback, repositoryVars
<1> QED BY <1>1, <1>2

\* Every step changes every row in a permitted way or not at all.
LEMMA StepChanges ==
  ASSUME Inv, [Next]_vars
  PROVE  \A j \in Jobs : Changes(jobs[j], jobs'[j])
<1>1. ASSUME NEW w \in Processes, WorkerStep(w) \/ Environment(w)
      PROVE  \A j \in Jobs : Changes(jobs[j], jobs'[j])
  BY <1>1, WorkerWrites, CommitChanges DEF Changes
<1>2. ASSUME NEW i \in Jobs, Submit(i) \/ SubmitLost(i) \/ Age(i)
      PROVE  \A j \in Jobs : Changes(jobs[j], jobs'[j])
  <2>0. jobs \in [Jobs -> Row]
    BY DEF Inv, TypeOK, RepositoryTypeOK
  <2>1. CASE Insert(i)
    BY <2>0, <2>1 DEF Insert, Changes
  <2>2. CASE GrowOld(i)
    <3>1. jobs' = [jobs EXCEPT ![i] = Aged(jobs[i])] /\ jobs[i].claimed_at # "null"
      BY <2>2 DEF GrowOld
    <3>2. Changes(jobs[i], Aged(jobs[i]))
      BY <3>1 DEF Changes, Aged
    <3> QED BY <2>0, <3>1, <3>2 DEF Changes
  <2> QED BY <1>2, <2>1, <2>2 DEF Submit, SubmitLost, Age
<1>3. CASE UNCHANGED vars
  BY <1>3 DEF vars, repositoryVars, Changes
<1> QED BY <1>1, <1>2, <1>3 DEF Next

\* The rows stay consistent and no attempt is taken back.
LEMMA RowsStep ==
  ASSUME Inv, [Next]_vars
  PROVE  /\ RowsOK'
         /\ \A j \in Jobs : /\ jobs[j].attempt_count \in Nat
                            /\ jobs'[j].attempt_count \in Nat
                            /\ jobs[j].attempt_count <= jobs'[j].attempt_count
<1>1. TypeOK'
  BY TypeStep DEF Inv
<1>2. \A j \in Jobs : jobs[j] \in Row /\ jobs'[j] \in Row /\ RowOK(jobs[j])
  BY <1>1 DEF Inv, RowsOK, TypeOK, RepositoryTypeOK
<1>3. \A j \in Jobs : RowOK(jobs'[j]) /\ jobs[j].attempt_count <= jobs'[j].attempt_count
  BY <1>2, StepChanges, ChangesKeepRow
<1>4. RowsOK'
  BY <1>3 DEF RowsOK, RowOK
<1> QED BY <1>2, <1>3, <1>4 DEF Row

\* Locks stay exclusive, fresh and in line with the worker's control point.
LEMMA LocksStep ==
  ASSUME Inv, [Next]_vars
  PROVE  LocksOK'
<1>t. TypeOK /\ RepositoryTypeOK
  BY DEF Inv, TypeOK
<1>1. ASSUME NEW w \in Processes, WorkerStep(w) \/ Environment(w)
      PROVE  LocksOK'
  <2>0. OthersStay(w)
    BY <1>t, <1>1, OneWorkerSteps
  <2>1. CASE /\ UNCHANGED repositoryVars
             /\ \/ ClaimNone(w) \/ Score(w) \/ SucceedRejected(w) \/ FailRejected(w)
                \/ SucceedRefresh(w) \/ FailRefresh(w) \/ Exit(w) \/ Start(w)
    <3>1. ~InTransaction(w)
      BY <2>1
      DEF ClaimNone, Score, SucceedRejected, FailRejected, SucceedRefresh, FailRefresh, Exit,
          Start, InTransaction
    <3> QED BY <2>0, <2>1, <3>1, LocksUntouched
  <2>2. CASE Signal(w)
    BY <2>2 DEF Signal, repositoryVars, Inv, LocksOK, LockOK, Holds, SameButOlder
  <2>3. CASE \/ pc[w] = "recovering" /\ CommitRecovery(w)
             \/ pc[w] = "claiming" /\ CommitClaim(w)
             \/ pc[w] = "succeeding" /\ CommitSucceeded(w, attempt[w])
             \/ pc[w] = "failing" /\ CommitFailed(w)
    BY <2>0, <2>3, CommitChanges, LocksAfterRelease
  <2>4. CASE Rollback(w)
    BY <1>t, <2>0, <2>4, CommitPointwise, LocksAfterRelease
  <2>5. CASE RecoverSelect(w)
    <3>1. Stale \in SUBSET Jobs /\ Load(w, Stale) /\ jobs' = jobs
      BY <2>5 DEF RecoverSelect, SelectStale, Stale
    <3>2. pc'[w] = "recovering"
      BY <1>t, <2>5 DEF RecoverSelect, Goto, TypeOK
    <3>3. \A j \in Stale : ~Locked(j) /\ Fits(w, j)
      BY <3>2 DEF Stale, Fits
    <3> QED BY <2>0, <3>1, <3>3, LocksAfterLoad
  <2>6. CASE ClaimSelect(w)
    <3>1. PICK j \in Jobs : /\ SelectOldestClaimable(w, j)
                            /\ claimed' = [claimed EXCEPT ![w] = j]
                            /\ attempt' = [attempt EXCEPT ![w] = jobs[j].attempt_count + 1]
      BY <2>6 DEF ClaimSelect
    <3>2. Load(w, {j}) /\ jobs' = jobs /\ jobs[j].status = "queued" /\ ~Locked(j)
      BY <3>1 DEF SelectOldestClaimable, OldestClaimable, Claimable
    <3>3. /\ pc'[w] = "claiming" /\ claimed'[w] = j
          /\ attempt'[w] = jobs[j].attempt_count + 1
      BY <1>t, <2>6, <3>1 DEF ClaimSelect, Goto, TypeOK
    <3>4. Fits(w, j)
      BY <3>2, <3>3 DEF Fits
    <3> QED BY <2>0, <3>2, <3>4, LocksAfterLoad
  <2>7. CASE SucceedSelect(w)
    <3>1. claimed[w] \in Jobs
      BY <2>7 DEF SucceedSelect, Inv, ClaimsCounted, Processing
    <3>2. /\ Load(w, {claimed[w]}) /\ jobs' = jobs /\ ~Locked(claimed[w])
          /\ jobs[claimed[w]].status = "running"
      BY <2>7 DEF SucceedSelect, SelectForTransition, FromRunning
    <3>3. pc'[w] = "succeeding" /\ claimed'[w] = claimed[w]
      BY <1>t, <2>7 DEF SucceedSelect, Goto, TypeOK
    <3>4. Fits(w, claimed[w])
      BY <3>2, <3>3 DEF Fits
    <3> QED BY <2>0, <3>1, <3>2, <3>4, LocksAfterLoad
  <2>8. CASE FailSelect(w)
    <3>1. claimed[w] \in Jobs
      BY <2>8 DEF FailSelect, Inv, ClaimsCounted, Processing
    <3>2. /\ Load(w, {claimed[w]}) /\ jobs' = jobs /\ ~Locked(claimed[w])
          /\ jobs[claimed[w]].status \in FromQueuedOrRunning
      BY <2>8 DEF FailSelect, SelectForTransition
    <3>3. pc'[w] = "failing" /\ claimed'[w] = claimed[w]
      BY <1>t, <2>8 DEF FailSelect, Goto, TypeOK
    <3>4. Fits(w, claimed[w])
      BY <3>2, <3>3 DEF Fits
    <3> QED BY <2>0, <3>1, <3>2, <3>4, LocksAfterLoad
  <2> QED
    BY <1>1, <2>1, <2>2, <2>3, <2>4, <2>5, <2>6, <2>7, <2>8
    DEF WorkerStep, Environment, RecoverCommit, ClaimCommit, SucceedCommit, FailCommit,
        DatabaseError, AnswerLost, Crash, ClaimNone, Score, SucceedRejected, FailRejected,
        SucceedRefresh, FailRefresh, TransitionRejected, Exit, Start
<1>2. ASSUME NEW i \in Jobs, Submit(i) \/ SubmitLost(i) \/ Age(i)
      PROVE  LocksOK'
  <2> SUFFICES ASSUME NEW v \in Processes, NEW j \in Jobs, Holds(v, j)'
               PROVE  LockOK(v, j)'
    BY DEF LocksOK
  <2>1. /\ tx' = tx /\ pc' = pc /\ claimed' = claimed /\ attempt' = attempt
        /\ Holds(v, j)
    BY <1>2 DEF Submit, SubmitLost, Age, Insert, GrowOld, workerVars, Holds
  <2>2. LockOK(v, j)
    BY <2>1 DEF Inv, LocksOK
  <2>3. SameButOlder(tx[v][j], jobs'[j])
    <3>1. CASE Insert(i)
      <4>1. jobs[j].status # "absent"
        BY <2>2 DEF LockOK, SameButOlder, FromQueuedOrRunning
      <4>2. j # i
        BY <3>1, <4>1 DEF Insert, NoRow
      <4>3. jobs'[j] = jobs[j]
        BY <1>t, <3>1, <4>2 DEF Insert, RepositoryTypeOK
      <4> QED BY <2>2, <4>3 DEF LockOK
    <3>2. CASE GrowOld(i) /\ j = i
      <4>1. jobs'[j] = Aged(jobs[j]) /\ jobs[j].claimed_at = "recent"
        BY <1>t, <3>2 DEF GrowOld, RepositoryTypeOK
      <4>2. SameButOlder(tx[v][j], jobs[j])
        BY <2>2 DEF LockOK
      <4> QED BY <4>1, <4>2 DEF SameButOlder, Aged
    <3>3. CASE GrowOld(i) /\ j # i
      <4>1. jobs'[j] = jobs[j]
        BY <1>t, <3>3 DEF GrowOld, RepositoryTypeOK
      <4> QED BY <2>2, <4>1 DEF LockOK
    <3> QED BY <1>2, <3>1, <3>2, <3>3 DEF Submit, SubmitLost, Age
  <2> QED BY <2>1, <2>2, <2>3 DEF LockOK, Holds
<1>3. CASE UNCHANGED vars
  BY <1>3
  DEF vars, repositoryVars, workerVars, Inv, LocksOK, LockOK, Holds, SameButOlder
<1> QED BY <1>1, <1>2, <1>3 DEF Next

(***************************************************************************)
(* Every step, seen from the workers: their locks and their claims.        *)
(***************************************************************************)
\* A step of w leaves the locks of the others alone.
LEMMA OthersLocks ==
  ASSUME Inv, NEW w \in Processes, WorkerStep(w) \/ Environment(w)
  PROVE  \A v \in Processes \ {w} : tx'[v] = tx[v]
<1>0. RepositoryTypeOK
  BY DEF Inv, TypeOK
<1>1. Release(w) => \A v \in Processes \ {w} : tx'[v] = tx[v]
  BY <1>0 DEF RepositoryTypeOK, Release
<1>2. \A S : Load(w, S) => \A v \in Processes \ {w} : tx'[v] = tx[v]
  BY <1>0 DEF RepositoryTypeOK, Load
<1>3. CASE WorkerStep(w)
  BY <1>1, <1>2, <1>3
  DEF WorkerStep, RecoverSelect, RecoverCommit, ClaimNone, ClaimSelect, ClaimCommit, Score,
      SucceedSelect, SucceedRejected, SucceedCommit, SucceedRefresh, FailSelect, FailRejected,
      FailCommit, FailRefresh, Exit, SelectStale, SelectOldestClaimable, SelectForTransition,
      TransitionRejected,
      CommitRecovery, CommitClaim, CommitSucceeded, CommitFailed, Commit, repositoryVars
<1>4. CASE Environment(w)
  BY <1>1, <1>4
  DEF Environment, DatabaseError, AnswerLost, Crash, Signal, Start, Rollback, repositoryVars,
      CommitRecovery, CommitClaim, CommitSucceeded, CommitFailed, Commit
<1> QED BY <1>3, <1>4

\* Where a worker goes: it starts a single-row transaction only by locking the
\* row of its claim, and gets a new claim only by ClaimCommit.
LEMMA OwnStep ==
  ASSUME Inv, NEW w \in Processes, WorkerStep(w) \/ Environment(w)
  PROVE  /\ pc'[w] \in {"claiming", "succeeding", "failing"} =>
              claimed'[w] \in Jobs /\ Holds(w, claimed[w])'
         /\ Processing(w)' =>
              \/ Processing(w) /\ claimed'[w] = claimed[w] /\ attempt'[w] = attempt[w]
              \/ ClaimCommit(w)
<1>t. TypeOK /\ RepositoryTypeOK
  BY DEF Inv, TypeOK
<1>1. \A l : Goto(w, l) => pc'[w] = l
  BY <1>t DEF TypeOK, Goto
<1>2. \A l : Leave(w, l) => pc'[w] = l
  BY <1>1 DEF Leave
<1>3. CASE \/ RecoverSelect(w) \/ RecoverCommit(w) \/ ClaimNone(w) \/ Exit(w) \/ Start(w)
  <2>1. pc'[w] \in {"recovering", "claim", "poll", "down"}
    BY <1>1, <1>3 DEF RecoverSelect, RecoverCommit, ClaimNone, Exit, Start
  <2> QED BY <2>1 DEF Processing
<1>4. CASE SucceedRefresh(w) \/ FailRejected(w) \/ FailRefresh(w) \/ Crash(w)
  <2>1. pc'[w] \in {"poll", "dead", "down"}
    BY <1>2, <1>4 DEF SucceedRefresh, FailRejected, FailRefresh, Crash
  <2> QED BY <2>1 DEF Processing
<1>5. CASE ClaimSelect(w)
  <2>1. PICK j \in Jobs : /\ SelectOldestClaimable(w, j)
                          /\ claimed' = [claimed EXCEPT ![w] = j]
    BY <1>5 DEF ClaimSelect
  <2>2. pc'[w] = "claiming" /\ claimed'[w] = j
    BY <1>t, <1>1, <1>5, <2>1 DEF ClaimSelect, TypeOK
  <2>3. Load(w, {j}) /\ jobs[j].status = "queued"
    BY <2>1 DEF SelectOldestClaimable, OldestClaimable, Claimable
  <2>4. tx'[w][j] = jobs[j]
    BY <1>t, <2>3, LoadPointwise
  <2>5. Holds(w, claimed[w])'
    BY <2>2, <2>3, <2>4 DEF Holds, NoRow
  <2> QED BY <2>2, <2>5 DEF Processing
<1>6. CASE ClaimCommit(w)
  <2>1. pc'[w] = "scoring"
    BY <1>1, <1>6 DEF ClaimCommit
  <2> QED BY <1>6, <2>1
<1>7. CASE Score(w) \/ SucceedRejected(w) \/ SucceedCommit(w) \/ FailCommit(w)
  <2>1. /\ pc'[w] \in {"succeed", "fail", "succeeded", "failed"}
        /\ claimed' = claimed /\ attempt' = attempt /\ Processing(w)
    BY <1>1, <1>7 DEF Score, SucceedRejected, SucceedCommit, FailCommit, Processing
  <2> QED BY <2>1
<1>8. CASE SucceedSelect(w) \/ FailSelect(w)
  <2>1. /\ pc'[w] \in {"succeeding", "failing"}
        /\ claimed' = claimed /\ attempt' = attempt /\ Processing(w)
    BY <1>1, <1>8 DEF SucceedSelect, FailSelect, Processing
  <2>2. claimed[w] \in Jobs
    BY <2>1 DEF Inv, ClaimsCounted
  <2>3. Load(w, {claimed[w]}) /\ jobs[claimed[w]].status \in {"queued", "running"}
    BY <1>8 DEF SucceedSelect, FailSelect, SelectForTransition, FromRunning,
                FromQueuedOrRunning
  <2>4. tx'[w][claimed[w]] = jobs[claimed[w]]
    BY <1>t, <2>2, <2>3, LoadPointwise
  <2>5. Holds(w, claimed[w])'
    BY <2>1, <2>3, <2>4 DEF Holds, NoRow
  <2> QED BY <2>1, <2>2, <2>5
<1>9. CASE DatabaseError(w) \/ AnswerLost(w)
  <2>1. Raise(w)
    BY <1>9 DEF DatabaseError, AnswerLost
  <2>2. CASE pc[w] \in {"succeed", "succeeding", "succeeded"}
    <3>1. /\ pc'[w] = "fail" /\ claimed' = claimed /\ attempt' = attempt /\ Processing(w)
      BY <1>1, <2>1, <2>2 DEF Raise, Processing
    <3> QED BY <3>1
  <2>3. CASE pc[w] \notin {"succeed", "succeeding", "succeeded"}
    <3>1. pc'[w] = "dead"
      BY <1>2, <2>1, <2>3 DEF Raise
    <3> QED BY <3>1 DEF Processing
  <2> QED BY <2>2, <2>3
<1>10. CASE Signal(w)
  <2>1. pc' = pc /\ claimed' = claimed /\ attempt' = attempt /\ tx' = tx
    BY <1>10 DEF Signal, repositoryVars
  <2>2. pc[w] \in {"claiming", "succeeding", "failing"} =>
          claimed[w] \in Jobs /\ Holds(w, claimed[w])
    BY DEF Inv, HoldsClaim
  <2> QED BY <2>1, <2>2 DEF Holds, Processing
<1> QED
  BY <1>3, <1>4, <1>5, <1>6, <1>7, <1>8, <1>9, <1>10 DEF WorkerStep, Environment

\* The claim that ClaimCommit makes is the row's newest attempt.
LEMMA NewClaim ==
  ASSUME Inv, NEW w \in Processes, ClaimCommit(w)
  PROVE  /\ claimed'[w] = claimed[w] /\ attempt'[w] = attempt[w]
         /\ claimed[w] \in Jobs
         /\ attempt[w] = jobs[claimed[w]].attempt_count + 1
         /\ jobs'[claimed[w]].attempt_count = attempt[w]
<1>0. RepositoryTypeOK
  BY DEF Inv, TypeOK
<1>1. pc[w] = "claiming" /\ claimed' = claimed /\ attempt' = attempt /\ CommitClaim(w)
  BY DEF ClaimCommit
<1>2. claimed[w] \in Jobs /\ Holds(w, claimed[w])
  BY <1>1 DEF Inv, HoldsClaim
<1>3. /\ LockOK(w, claimed[w])
      /\ tx[w][claimed[w]].attempt_count = jobs[claimed[w]].attempt_count
  BY <1>2, LoadedRow
<1>4. attempt[w] = tx[w][claimed[w]].attempt_count + 1
  BY <1>1, <1>3 DEF LockOK
<1>5. jobs'[claimed[w]] = Claimed(tx[w][claimed[w]])
  BY <1>0, <1>1, <1>2, CommitPointwise DEF CommitClaim
<1> QED BY <1>1, <1>2, <1>3, <1>4, <1>5 DEF Claimed

\* The workers' locks and claims stay consistent, and no two workers get the
\* same attempt.
LEMMA ClaimsStep ==
  ASSUME Inv, [Next]_vars
  PROVE  HoldsClaim' /\ ClaimsCounted' /\ OneWorkerPerAttempt'
<1>m. \A j \in Jobs : /\ jobs[j].attempt_count \in Nat
                      /\ jobs'[j].attempt_count \in Nat
                      /\ jobs[j].attempt_count <= jobs'[j].attempt_count
  BY RowsStep
<1>n. attempt \in [Processes -> Nat]
  BY DEF Inv, TypeOK
<1>1. ASSUME NEW w \in Processes, WorkerStep(w) \/ Environment(w)
      PROVE  HoldsClaim' /\ ClaimsCounted' /\ OneWorkerPerAttempt'
  <2>0. OthersStay(w)
    BY <1>1, OneWorkerSteps DEF Inv
  <2>1. HoldsClaim'
    <3> SUFFICES ASSUME NEW v \in Processes,
                        pc'[v] \in {"claiming", "succeeding", "failing"}
                 PROVE  claimed'[v] \in Jobs /\ Holds(v, claimed[v])'
      BY DEF HoldsClaim, Holds
    <3>1. CASE v = w
      BY <1>1, <3>1, OwnStep
    <3>2. CASE v # w
      <4>1. pc'[v] = pc[v] /\ claimed'[v] = claimed[v] /\ tx'[v] = tx[v]
        BY <1>1, <2>0, <3>2, OthersLocks DEF OthersStay
      <4>2. claimed[v] \in Jobs /\ Holds(v, claimed[v])
        BY <4>1 DEF Inv, HoldsClaim
      <4> QED BY <4>1, <4>2 DEF Holds
    <3> QED BY <3>1, <3>2
  <2>2. ASSUME NEW v \in Processes, Processing(v)'
        PROVE  \/ /\ Processing(v) /\ claimed'[v] = claimed[v] /\ attempt'[v] = attempt[v]
                  /\ claimed[v] \in Jobs /\ attempt[v] > 0
                  /\ attempt[v] <= jobs[claimed[v]].attempt_count
               \/ v = w /\ ClaimCommit(w)
    <3>1. CASE v = w
      BY <1>1, <2>2, <3>1, OwnStep DEF Inv, ClaimsCounted
    <3>2. CASE v # w
      BY <2>0, <2>2, <3>2 DEF OthersStay, Processing, Inv, ClaimsCounted
    <3> QED BY <3>1, <3>2
  <2>3. ClaimsCounted'
    <3> SUFFICES ASSUME NEW v \in Processes, Processing(v)'
                 PROVE  /\ claimed'[v] \in Jobs
                        /\ attempt'[v] > 0
                        /\ attempt'[v] <= jobs'[claimed'[v]].attempt_count
      BY DEF ClaimsCounted
    <3>1. CASE v = w /\ ClaimCommit(w)
      BY <1>m, <1>n, <3>1, NewClaim
    <3>2. CASE ~(v = w /\ ClaimCommit(w))
      BY <1>m, <1>n, <2>2, <3>2
    <3> QED BY <3>1, <3>2
  <2>4. OneWorkerPerAttempt'
    <3> SUFFICES ASSUME NEW u \in Processes, NEW v \in Processes, u # v,
                        Processing(u)', Processing(v)', claimed'[u] = claimed'[v]
                 PROVE  attempt'[u] # attempt'[v]
      BY DEF OneWorkerPerAttempt
    <3>1. CASE ~ClaimCommit(w)
      BY <2>2, <3>1 DEF Inv, OneWorkerPerAttempt
    <3>2. CASE ClaimCommit(w) /\ u # w /\ v # w
      BY <2>2, <3>2 DEF Inv, OneWorkerPerAttempt
    <3>3. CASE ClaimCommit(w) /\ u = w
      BY <1>m, <1>n, <2>2, <3>3, NewClaim
    <3>4. CASE ClaimCommit(w) /\ v = w
      BY <1>m, <1>n, <2>2, <3>4, NewClaim
    <3> QED BY <3>1, <3>2, <3>3, <3>4
  <2> QED BY <2>1, <2>3, <2>4
<1>2. ASSUME tx' = tx, UNCHANGED workerVars
      PROVE  HoldsClaim' /\ ClaimsCounted' /\ OneWorkerPerAttempt'
  <2>0. pc' = pc /\ claimed' = claimed /\ attempt' = attempt
    BY <1>2 DEF workerVars
  <2>1. HoldsClaim'
    BY <1>2, <2>0 DEF Inv, HoldsClaim, Holds
  <2>2. ClaimsCounted'
    <3> SUFFICES ASSUME NEW v \in Processes, Processing(v)
                 PROVE  /\ claimed[v] \in Jobs
                        /\ attempt[v] > 0
                        /\ attempt[v] <= jobs'[claimed[v]].attempt_count
      BY <2>0 DEF ClaimsCounted, Processing
    <3>1. /\ claimed[v] \in Jobs /\ attempt[v] > 0
          /\ attempt[v] <= jobs[claimed[v]].attempt_count
      BY DEF Inv, ClaimsCounted
    <3> QED BY <1>m, <1>n, <3>1
  <2>3. OneWorkerPerAttempt'
    BY <2>0 DEF Inv, OneWorkerPerAttempt, Processing
  <2> QED BY <2>1, <2>2, <2>3
<1> QED
  BY <1>1, <1>2
  DEF Next, Submit, SubmitLost, Age, Insert, GrowOld, vars, repositoryVars

(***************************************************************************)
(* Every step, seen from the audit log.                                    *)
(***************************************************************************)
\* A job whose relevant events are not counted again in a step.
LEMMA AuditKept ==
  ASSUME Inv, [Next]_vars, NEW j \in Jobs,
         \A e \in AuditEvents \ {"queued"} : audit'[j][e] = audit[j][e]
  PROVE  AuditOK(j)'
<1>1. /\ Changes(jobs[j], jobs'[j]) /\ RowOK(jobs[j]) /\ AuditOK(j)
      /\ jobs[j].attempt_count \in Nat /\ jobs'[j].attempt_count \in Nat
      /\ jobs[j].attempt_count <= jobs'[j].attempt_count
  BY StepChanges, RowsStep DEF Inv, RowsOK
<1>2. jobs[j].status \in Terminal => jobs'[j] = jobs[j]
  BY <1>1, ChangesKeepOutcome
<1>3. \A e \in AuditEvents : audit[j][e] \in Nat
  BY DEF Inv, TypeOK
<1>4. /\ audit'[j]["running"] = audit[j]["running"]
      /\ audit'[j]["succeeded"] = audit[j]["succeeded"]
      /\ audit'[j]["failed"] = audit[j]["failed"]
      /\ audit[j]["running"] \in Nat /\ audit[j]["succeeded"] \in Nat
      /\ audit[j]["failed"] \in Nat
  BY <1>3 DEF AuditEvents
<1>5. (audit[j]["running"] <= jobs[j].attempt_count)'
  BY <1>1, <1>4 DEF AuditOK
<1>6. (jobs[j].status \notin Terminal => audit[j]["succeeded"] = 0 /\ audit[j]["failed"] = 0)'
  BY <1>1, <1>2, <1>4 DEF AuditOK
<1>7. (audit[j]["succeeded"] + audit[j]["failed"] <= 1)'
  BY <1>1, <1>4 DEF AuditOK
<1>8. (\A s \in Terminal : audit[j][s] = 1 => jobs[j].status = s)'
  BY <1>1, <1>2, <1>4 DEF AuditOK, Terminal
<1> QED BY <1>5, <1>6, <1>7, <1>8 DEF AuditOK

\* Recording event e of job i, counter by counter.
LEMMA RecordPointwise ==
  ASSUME TypeOK, NEW i \in Jobs, NEW e \in AuditEvents, Record(i, e)
  PROVE  /\ \A j \in Jobs \ {i} : audit'[j] = audit[j]
         /\ \A f \in AuditEvents \ {e} : audit'[i][f] = audit[i][f]
         /\ audit'[i][e] = audit[i][e] + 1
         /\ \A f \in AuditEvents : audit[i][f] \in Nat
<1>1. audit \in [Jobs -> [AuditEvents -> Nat]]
  BY DEF TypeOK
<1>2. audit' = [audit EXCEPT ![i] = [audit[i] EXCEPT ![e] = audit[i][e] + 1]]
  BY DEF Record
<1>3. audit'[i] = [audit[i] EXCEPT ![e] = audit[i][e] + 1] /\ audit[i] \in [AuditEvents -> Nat]
  BY <1>1, <1>2
<1> QED BY <1>1, <1>2, <1>3

\* The events of process_claimed are recorded for what was just committed.
LEMMA AuditStep ==
  ASSUME Inv, [Next]_vars
  PROVE  \A j \in Jobs : AuditOK(j)'
<1>t. TypeOK /\ RepositoryTypeOK
  BY DEF Inv, TypeOK
<1>e. /\ "queued" \in AuditEvents /\ "running" \in AuditEvents
      /\ "succeeded" \in AuditEvents /\ "failed" \in AuditEvents
      /\ AuditEvents = {"queued", "running", "succeeded", "failed"}
  BY DEF AuditEvents
<1>1. CASE audit' = audit
  BY <1>1, AuditKept
<1>2. ASSUME NEW i \in Jobs, Submit(i)
      PROVE  \A j \in Jobs : AuditOK(j)'
  <2>1. Record(i, "queued")
    BY <1>2 DEF Submit
  <2>2. \A j \in Jobs, e \in AuditEvents \ {"queued"} : audit'[j][e] = audit[j][e]
    BY <1>t, <1>e, <2>1, RecordPointwise
  <2> QED BY <2>2, AuditKept
<1>3. ASSUME NEW w \in Processes, ClaimCommit(w)
      PROVE  \A j \in Jobs : AuditOK(j)'
  <2> DEFINE i == claimed[w]
  <2>0. /\ i \in Jobs /\ jobs'[i].attempt_count = jobs[i].attempt_count + 1
        /\ jobs[i].attempt_count \in Nat
    BY <1>3, NewClaim, RowsStep
  <2>1. /\ \A j \in Jobs \ {i} : audit'[j] = audit[j]
        /\ audit'[i]["succeeded"] = audit[i]["succeeded"]
        /\ audit'[i]["failed"] = audit[i]["failed"]
        /\ audit'[i]["running"] = audit[i]["running"] + 1
        /\ audit[i]["running"] \in Nat
    BY <1>t, <1>e, <1>3, <2>0, RecordPointwise DEF ClaimCommit
  <2>2. AuditOK(i) /\ Holds(w, i)
    BY <1>3, <2>0 DEF Inv, HoldsClaim, ClaimCommit
  <2>3. jobs[i].status = "queued"
    BY <1>3, <2>0, <2>2, LoadedRow DEF LockOK, ClaimCommit
  <2>4. audit[i]["succeeded"] = 0 /\ audit[i]["failed"] = 0
    BY <2>2, <2>3 DEF AuditOK, Terminal
  <2>5. AuditOK(i)'
    <3>1. (audit[i]["running"] <= jobs[i].attempt_count)
      BY <2>2 DEF AuditOK
    <3>2. audit'[i]["running"] <= jobs'[i].attempt_count
      BY <2>0, <2>1, <3>1
    <3>3. claimed' = claimed
      BY <1>3 DEF ClaimCommit
    <3> QED BY <2>1, <2>4, <3>2, <3>3 DEF AuditOK, Terminal
  <2>6. ASSUME NEW j \in Jobs, j # i
        PROVE  AuditOK(j)'
    BY <2>1, <2>6, AuditKept
  <2>7. claimed' = claimed
    BY <1>3 DEF ClaimCommit
  <2> QED BY <2>5, <2>6, <2>7
<1>4. ASSUME NEW w \in Processes, SucceedRefresh(w) \/ FailRefresh(w)
      PROVE  \A j \in Jobs : AuditOK(j)'
  <2>0. /\ pc[w] \in Terminal /\ jobs' = jobs
        /\ Record(claimed[w], pc[w])
    BY <1>4 DEF SucceedRefresh, FailRefresh, Terminal, repositoryVars
  <2>1. PICK i \in Jobs : /\ i = claimed[w] /\ jobs[i].status = pc[w]
                          /\ audit[i]["succeeded"] = 0 /\ audit[i]["failed"] = 0
    BY <2>0 DEF Inv, RefreshesOK, RefreshOK
  <2>2. PICK e \in {"succeeded", "failed"} : e = pc[w]
    BY <2>0 DEF Terminal
  <2>3. /\ \A j \in Jobs \ {i} : audit'[j] = audit[j]
        /\ \A f \in AuditEvents \ {e} : audit'[i][f] = audit[i][f]
        /\ audit'[i][e] = audit[i][e] + 1
        /\ \A f \in AuditEvents : audit[i][f] \in Nat
    BY <1>t, <1>e, <2>0, <2>1, <2>2, RecordPointwise
  <2>4. AuditOK(i) /\ jobs'[i].status = e
    BY <2>0, <2>1, <2>2 DEF Inv
  <2>5. AuditOK(i)'
    <3>1. audit'[i]["running"] <= jobs'[i].attempt_count
      BY <1>e, <2>0, <2>3, <2>4 DEF AuditOK
    <3>2. CASE e = "succeeded"
      <4>1. audit'[i]["succeeded"] = 1 /\ audit'[i]["failed"] = 0
        BY <1>e, <2>1, <2>3, <3>2
      <4> QED BY <2>4, <3>1, <3>2, <4>1 DEF AuditOK, Terminal
    <3>3. CASE e = "failed"
      <4>1. audit'[i]["succeeded"] = 0 /\ audit'[i]["failed"] = 1
        BY <1>e, <2>1, <2>3, <3>3
      <4> QED BY <2>4, <3>1, <3>3, <4>1 DEF AuditOK, Terminal
    <3> QED BY <3>2, <3>3
  <2>6. ASSUME NEW j \in Jobs, j # i
        PROVE  AuditOK(j)'
    BY <2>3, <2>6, AuditKept
  <2> QED BY <2>5, <2>6
<1> QED
  BY <1>1, <1>2, <1>3, <1>4
  DEF Next, WorkerStep, Environment, SubmitLost, Age, RecoverSelect, RecoverCommit, ClaimNone,
      ClaimSelect, Score, SucceedSelect, SucceedRejected, SucceedCommit, FailSelect,
      FailRejected, FailCommit, Exit, DatabaseError, AnswerLost, Crash, Signal, Start, apiVars,
      vars

(***************************************************************************)
(* Every step, seen from the calls whose outcome is committed but not yet  *)
(* recorded.                                                               *)
(***************************************************************************)
\* The commit of set_succeeded or set_failed gives an outcome to a row that had
\* none, and its worker stays in the call.
LEMMA OutcomeCommit ==
  ASSUME Inv, NEW w \in Processes, SucceedCommit(w) \/ FailCommit(w)
  PROVE  /\ claimed[w] \in Jobs /\ claimed' = claimed /\ audit' = audit
         /\ jobs[claimed[w]].status \notin Terminal
         /\ pc'[w] \in Terminal
         /\ jobs'[claimed[w]].status = pc'[w]
<1>t. TypeOK /\ RepositoryTypeOK
  BY DEF Inv, TypeOK
<1>1. \A l : Goto(w, l) => pc'[w] = l
  BY <1>t DEF TypeOK, Goto
<1>2. /\ claimed' = claimed /\ audit' = audit
      /\ pc[w] \in {"succeeding", "failing"} /\ pc'[w] \in Terminal
      /\ pc[w] = "succeeding" => /\ CommitSucceeded(w, attempt[w])
                                 /\ pc'[w] = "succeeded"
      /\ pc[w] = "failing" => CommitFailed(w) /\ pc'[w] = "failed"
  BY <1>1 DEF SucceedCommit, FailCommit, apiVars, Terminal
<1>3. claimed[w] \in Jobs /\ Holds(w, claimed[w])
  BY <1>2 DEF Inv, HoldsClaim
<1>4. jobs[claimed[w]].status \notin Terminal
  BY <1>2, <1>3, LoadedRow DEF LockOK, FromQueuedOrRunning, Terminal
<1>5. CASE pc[w] = "succeeding"
  <2>1. jobs'[claimed[w]] = Succeeded(tx[w][claimed[w]], attempt[w])
    BY <1>t, <1>2, <1>3, <1>5, CommitPointwise DEF CommitSucceeded
  <2> QED BY <1>2, <1>3, <1>4, <1>5, <2>1 DEF Succeeded
<1>6. CASE pc[w] = "failing"
  <2>1. jobs'[claimed[w]] = Failed(tx[w][claimed[w]])
    BY <1>t, <1>2, <1>3, <1>6, CommitPointwise DEF CommitFailed
  <2>2. Failed(tx[w][claimed[w]]).status = "failed"
    BY DEF Failed
  <2> QED BY <1>2, <1>3, <1>4, <1>6, <2>1, <2>2
<1> QED BY <1>2, <1>5, <1>6

\* A worker gets to a refresh only by such a commit.
LEMMA EntersRefresh ==
  ASSUME Inv, NEW w \in Processes, WorkerStep(w) \/ Environment(w), pc'[w] \in Terminal
  PROVE  \/ SucceedCommit(w) \/ FailCommit(w)
         \/ pc' = pc /\ claimed' = claimed /\ audit' = audit
<1>1. \A l : Goto(w, l) => pc'[w] = l
  BY DEF Inv, TypeOK, Goto
<1>2. \A l \in {"poll", "recovering", "claim", "claiming", "scoring", "succeed", "succeeding",
              "fail", "failing", "dead", "down"} : ~Goto(w, l)
  BY <1>1 DEF Terminal
<1>3. CASE WorkerStep(w)
  BY <1>2, <1>3
  DEF WorkerStep, RecoverSelect, RecoverCommit, ClaimNone, ClaimSelect, ClaimCommit, Score,
      SucceedSelect, SucceedRejected, SucceedRefresh, FailSelect, FailRejected, FailRefresh,
      Exit, Leave
<1>4. CASE Environment(w)
  BY <1>2, <1>4
  DEF Environment, DatabaseError, AnswerLost, Crash, Signal, Start, Raise, Leave, apiVars
<1> QED BY <1>3, <1>4

\* Only a worker that leaves its refresh records an outcome.
LEMMA OutcomeEvents ==
  ASSUME Inv, [Next]_vars, NEW j \in Jobs
  PROVE  \/ /\ audit'[j]["succeeded"] = audit[j]["succeeded"]
            /\ audit'[j]["failed"] = audit[j]["failed"]
         \/ \E w \in Processes : /\ SucceedRefresh(w) \/ FailRefresh(w)
                                 /\ Refreshing(w, j)
<1>t. TypeOK
  BY DEF Inv
<1>e. /\ "queued" \in AuditEvents /\ "running" \in AuditEvents
      /\ "succeeded" \in AuditEvents /\ "failed" \in AuditEvents
  BY DEF AuditEvents
<1>1. ASSUME NEW i \in Jobs, NEW e \in AuditEvents, Record(i, e),
             e \in {"queued", "running"} \/ i # j
      PROVE  /\ audit'[j]["succeeded"] = audit[j]["succeeded"]
             /\ audit'[j]["failed"] = audit[j]["failed"]
  BY <1>t, <1>e, <1>1, RecordPointwise
<1>2. ASSUME NEW i \in Jobs, Submit(i)
      PROVE  /\ audit'[j]["succeeded"] = audit[j]["succeeded"]
             /\ audit'[j]["failed"] = audit[j]["failed"]
  BY <1>e, <1>1, <1>2 DEF Submit
<1>3. ASSUME NEW w \in Processes, ClaimCommit(w)
      PROVE  /\ audit'[j]["succeeded"] = audit[j]["succeeded"]
             /\ audit'[j]["failed"] = audit[j]["failed"]
  <2>1. claimed[w] \in Jobs /\ Record(claimed[w], "running")
    BY <1>3, NewClaim DEF ClaimCommit
  <2> QED BY <1>e, <1>1, <2>1
<1>4. ASSUME NEW w \in Processes, SucceedRefresh(w) \/ FailRefresh(w), ~Refreshing(w, j)
      PROVE  /\ audit'[j]["succeeded"] = audit[j]["succeeded"]
             /\ audit'[j]["failed"] = audit[j]["failed"]
  <2>1. pc[w] \in Terminal /\ Record(claimed[w], pc[w])
    BY <1>4 DEF SucceedRefresh, FailRefresh, Terminal
  <2>2. claimed[w] \in Jobs
    BY <2>1 DEF Inv, RefreshesOK, RefreshOK
  <2>3. pc[w] \in AuditEvents /\ claimed[w] # j
    BY <1>4, <1>e, <2>1 DEF Terminal, Refreshing
  <2> QED BY <1>1, <2>1, <2>2, <2>3
<1>5. \/ audit' = audit
      \/ \E i \in Jobs : Submit(i)
      \/ \E w \in Processes : ClaimCommit(w) \/ SucceedRefresh(w) \/ FailRefresh(w)
  BY DEF Next, WorkerStep, Environment, SubmitLost, Age, RecoverSelect, RecoverCommit,
         ClaimNone, ClaimSelect, Score, SucceedSelect, SucceedRejected, SucceedCommit,
         FailSelect, FailRejected, FailCommit, Exit, DatabaseError, AnswerLost, Crash, Signal,
         Start, apiVars, vars
<1> QED BY <1>2, <1>3, <1>4, <1>5

\* The calls that are still to record their outcome stay what they are.
LEMMA RefreshesStep ==
  ASSUME Inv, [Next]_vars
  PROVE  RefreshesOK'
<1> SUFFICES ASSUME NEW v \in Processes, pc'[v] \in Terminal
             PROVE  /\ claimed'[v] \in Jobs
                    /\ jobs'[claimed'[v]].status = pc'[v]
                    /\ audit'[claimed'[v]]["succeeded"] = 0
                    /\ audit'[claimed'[v]]["failed"] = 0
                    /\ \A u \in Processes :
                         pc'[u] \in Terminal /\ claimed'[u] = claimed'[v] => u = v
  BY DEF RefreshesOK, RefreshOK, Refreshing
<1>k. \A j \in Jobs : jobs[j].status \in Terminal => jobs'[j] = jobs[j]
  BY StepChanges, ChangesKeepOutcome DEF Inv, RowsOK
<1>o. \A u \in Processes :
        pc[u] \in Terminal =>
          /\ claimed[u] \in Jobs
          /\ jobs[claimed[u]].status = pc[u]
          /\ audit[claimed[u]]["succeeded"] = 0 /\ audit[claimed[u]]["failed"] = 0
          /\ \A x \in Processes : pc[x] \in Terminal /\ claimed[x] = claimed[u] => x = u
  BY DEF Inv, RefreshesOK, RefreshOK, Refreshing
<1>1. ASSUME NEW w \in Processes, WorkerStep(w) \/ Environment(w)
      PROVE  /\ claimed'[v] \in Jobs
             /\ jobs'[claimed'[v]].status = pc'[v]
             /\ audit'[claimed'[v]]["succeeded"] = 0
             /\ audit'[claimed'[v]]["failed"] = 0
             /\ \A u \in Processes :
                  pc'[u] \in Terminal /\ claimed'[u] = claimed'[v] => u = v
  <2>0. \A u \in Processes \ {w} : pc'[u] = pc[u] /\ claimed'[u] = claimed[u]
    BY <1>1, OneWorkerSteps DEF Inv, OthersStay
  <2>1. pc'[w] \in Terminal =>
          \/ SucceedCommit(w) \/ FailCommit(w)
          \/ pc' = pc /\ claimed' = claimed /\ audit' = audit
    BY <1>1, EntersRefresh
  <2>2. CASE v = w /\ (SucceedCommit(w) \/ FailCommit(w))
    <3>1. /\ claimed[w] \in Jobs /\ claimed' = claimed /\ audit' = audit
          /\ jobs[claimed[w]].status \notin Terminal
          /\ jobs'[claimed[w]].status = pc'[w]
      BY <2>2, OutcomeCommit
    <3>2. audit[claimed[w]]["succeeded"] = 0 /\ audit[claimed[w]]["failed"] = 0
      BY <3>1 DEF Inv, AuditOK
    <3>3. ASSUME NEW u \in Processes, pc'[u] \in Terminal, claimed'[u] = claimed'[v]
          PROVE  u = v
      BY <1>o, <2>0, <2>2, <3>1, <3>3
    <3> QED BY <2>2, <3>1, <3>2, <3>3
  <2>3. CASE v = w /\ pc' = pc /\ claimed' = claimed /\ audit' = audit
    BY <1>k, <1>o, <2>3
  <2>4. CASE v # w
    <3>1. pc'[v] = pc[v] /\ claimed'[v] = claimed[v]
      BY <2>0, <2>4
    <3>2. PICK i \in Jobs :
            /\ i = claimed[v] /\ jobs[i].status = pc[v]
            /\ audit[i]["succeeded"] = 0 /\ audit[i]["failed"] = 0
            /\ \A x \in Processes : pc[x] \in Terminal /\ claimed[x] = i => x = v
      BY <1>o, <3>1
    <3>3. jobs'[i] = jobs[i]
      BY <1>k, <3>1, <3>2
    <3>4. ~(pc[w] \in Terminal /\ claimed[w] = i)
      BY <2>4, <3>2
    <3>5. \A x \in Processes : SucceedRefresh(x) \/ FailRefresh(x) => x = w
      <4> SUFFICES ASSUME NEW x \in Processes, SucceedRefresh(x) \/ FailRefresh(x), x # w
                   PROVE  FALSE
        OBVIOUS
      <4>1. pc[x] \in Terminal /\ pc'[x] \notin Terminal
        BY DEF SucceedRefresh, FailRefresh, Leave, Goto, Terminal, Inv, TypeOK
      <4> QED BY <2>0, <4>1
    <3>6. audit'[i]["succeeded"] = 0 /\ audit'[i]["failed"] = 0
      BY <3>2, <3>4, <3>5, OutcomeEvents DEF Refreshing
    <3>7. ASSUME NEW u \in Processes, pc'[u] \in Terminal, claimed'[u] = i
          PROVE  u = v
      <4>1. CASE u # w
        BY <2>0, <3>2, <3>7, <4>1
      <4>2. CASE u = w
        <5>1. ~(pc' = pc /\ claimed' = claimed)
          BY <3>4, <3>7, <4>2
        <5>2. SucceedCommit(w) \/ FailCommit(w)
          BY <2>1, <3>7, <4>2, <5>1
        <5>3. jobs[i].status \notin Terminal
          BY <3>7, <4>2, <5>2, OutcomeCommit
        <5> QED BY <3>1, <3>2, <5>3
      <4> QED BY <4>1, <4>2
    <3> QED BY <3>1, <3>2, <3>3, <3>6, <3>7
  <2> QED BY <2>1, <2>2, <2>3, <2>4
<1>2. ASSUME pc' = pc, claimed' = claimed
      PROVE  /\ claimed'[v] \in Jobs
             /\ jobs'[claimed'[v]].status = pc'[v]
             /\ audit'[claimed'[v]]["succeeded"] = 0
             /\ audit'[claimed'[v]]["failed"] = 0
             /\ \A u \in Processes :
                  pc'[u] \in Terminal /\ claimed'[u] = claimed'[v] => u = v
  <2>1. \A w \in Processes : ~(SucceedRefresh(w) \/ FailRefresh(w))
    BY <1>2 DEF SucceedRefresh, FailRefresh, Leave, Goto, Inv, TypeOK
  <2>2. PICK i \in Jobs :
          /\ i = claimed[v] /\ jobs[i].status = pc[v]
          /\ audit[i]["succeeded"] = 0 /\ audit[i]["failed"] = 0
          /\ \A x \in Processes : pc[x] \in Terminal /\ claimed[x] = i => x = v
    BY <1>o, <1>2
  <2>3. audit'[i]["succeeded"] = 0 /\ audit'[i]["failed"] = 0
    BY <2>1, <2>2, OutcomeEvents
  <2> QED BY <1>2, <1>k, <2>2, <2>3
<1> QED
  BY <1>1, <1>2 DEF Next, Submit, SubmitLost, Age, vars, workerVars

-----------------------------------------------------------------------------
(***************************************************************************)
(* The invariant, and what follows from it.                                *)
(***************************************************************************)
\* Every step keeps the invariant.
LEMMA InvStep ==
  ASSUME Inv, [Next]_vars
  PROVE  Inv'
  BY TypeStep, RowsStep, LocksStep, ClaimsStep, AuditStep, RefreshesStep DEF Inv

\* The invariant holds initially: there are no rows, no locks and no claims.
LEMMA InvInit ==
  ASSUME Init
  PROVE  Inv
<1>1. TypeOK
  BY NewRowType, Labels, FaultsAssumption
  DEF Init, RepositoryInit, TypeOK, RepositoryTypeOK
<1>2. RowsOK
  <2>1. \A j \in Jobs : jobs[j] = NoRow
    BY DEF Init, RepositoryInit
  <2>2. RowOK(NoRow)
    BY AttemptsAssumption DEF RowOK, NoRow
  <2> QED BY <2>1, <2>2 DEF RowsOK
<1>3. LocksOK
  BY DEF Init, RepositoryInit, LocksOK, Holds
<1>4. HoldsClaim /\ ClaimsCounted /\ OneWorkerPerAttempt
  BY DEF Init, HoldsClaim, ClaimsCounted, OneWorkerPerAttempt, Processing
<1>5. \A j \in Jobs : AuditOK(j)
  <2>1. \A j \in Jobs : jobs[j].attempt_count = 0
    BY DEF Init, RepositoryInit, NoRow
  <2>2. \A j \in Jobs : /\ audit[j]["running"] = 0
                        /\ audit[j]["succeeded"] = 0
                        /\ audit[j]["failed"] = 0
    BY DEF Init, AuditEvents
  <2>3. \A j \in Jobs : \A s \in Terminal : audit[j][s] # 1
    BY <2>2 DEF Terminal
  <2>4. ASSUME NEW j \in Jobs
        PROVE  AuditOK(j)
    <3>1. audit[j]["running"] <= jobs[j].attempt_count
      BY <2>1, <2>2
    <3>2. audit[j]["succeeded"] + audit[j]["failed"] <= 1
      BY <2>2
    <3> QED BY <2>2, <2>3, <3>1, <3>2 DEF AuditOK
  <2> QED BY <2>4
<1>6. RefreshesOK
  BY DEF Init, RefreshesOK, RefreshOK, Terminal
<1> QED BY <1>1, <1>2, <1>3, <1>4, <1>5, <1>6 DEF Inv

\* The inductive invariant holds in every state of the split service, for any
\* number of workers, jobs, attempts and faults.
THEOREM Invariance == Spec => []Inv
  BY InvInit, InvStep, PTL DEF Spec

\* Two workers never work on the same attempt of a job.
THEOREM ClaimsAreExclusive == Spec => []OneWorkerPerAttempt
<1>1. Inv => OneWorkerPerAttempt
  BY DEF Inv
<1> QED BY <1>1, Invariance, PTL

\* No job is started more often than its row counts, nor counted beyond
\* max_attempts.
THEOREM BudgetIsKept == Spec => []StartsWithinBudget
<1>1. Inv => StartsWithinBudget
  BY DEF Inv, RowsOK, RowOK, AuditOK, StartsWithinBudget
<1> QED BY <1>1, Invariance, PTL

\* A running row always has the claimed_at that recover_stale_running needs.
THEOREM RunningRowsAreRecoverable == Spec => []RunningIsRecoverable
<1>1. Inv => RunningIsRecoverable
  BY DEF Inv, RowsOK, RowOK, RunningIsRecoverable
<1> QED BY <1>1, Invariance, PTL

\* A row has a result if and only if it has succeeded.
THEOREM ResultsAreConsistent == Spec => []ResultIffSucceeded
<1>1. Inv => ResultIffSucceeded
  BY DEF Inv, RowsOK, RowOK, ResultIffSucceeded
<1> QED BY <1>1, Invariance, PTL

\* The audit log has at most one terminal event of a job, the row's status.
THEOREM AuditAgreesWithRows == Spec => []TerminalEventsMatchRow
<1>1. Inv => TerminalEventsMatchRow
  BY DEF Inv, AuditOK, TerminalEventsMatchRow
<1> QED BY <1>1, Invariance, PTL

\* No transaction overwrites what another has committed, and no worker keeps a
\* lock beyond its repository call.
THEOREM NoUpdateIsLost == Spec => []NoLostUpdate
<1>1. Inv => NoLostUpdate
  BY DEF Inv, LocksOK, LockOK, NoLostUpdate, InTransaction
<1> QED BY <1>1, Invariance, PTL

\* A job that has an outcome keeps it.
THEOREM OutcomesAreFinal == Spec => TerminalIsFinal
<1>1. ASSUME Inv, [Next]_vars
      PROVE  \A j \in Jobs : jobs[j].status \in Terminal => jobs'[j] = jobs[j]
  BY <1>1, StepChanges, ChangesKeepOutcome DEF Inv, RowsOK
<1>2. Inv /\ [Next]_vars
        => [\A j \in Jobs : jobs[j].status \in Terminal => jobs'[j] = jobs[j]]_vars
  BY <1>1
<1> QED BY <1>2, Invariance, PTL DEF Spec, TerminalIsFinal
-----------------------------------------------------------------------------
(***************************************************************************)
(* As long as nothing has failed.  The number of faults never decreases,   *)
(* so a state without faults was reached by steps that are no faults.      *)
(***************************************************************************)
\* The steps that lead to a state without faults.
LEMMA FaultFreeStep ==
  ASSUME TypeOK, [Next]_vars, faults' = 0
  PROVE  /\ faults = 0
         /\ \/ \E j \in Jobs : Submit(j) \/ Age(j)
            \/ \E w \in Processes : WorkerStep(w) \/ Signal(w) \/ Start(w)
            \/ UNCHANGED vars
<1>1. faults \in Nat
  BY FaultsAssumption DEF TypeOK
<1>2. ~Fault
  BY <1>1 DEF Fault
<1>3. \/ \E j \in Jobs : Submit(j) \/ Age(j)
      \/ \E w \in Processes : WorkerStep(w) \/ Signal(w) \/ Start(w)
      \/ UNCHANGED vars
  BY <1>2 DEF Next, SubmitLost, Environment, DatabaseError, AnswerLost, Crash
<1>4. faults' = faults
  <2>1. ASSUME NEW j \in Jobs, Submit(j) \/ Age(j)
        PROVE  faults' = faults
    BY <2>1 DEF Submit, Age
  <2>2. ASSUME NEW w \in Processes, WorkerStep(w) \/ Signal(w) \/ Start(w)
        PROVE  faults' = faults
    BY <2>2
    DEF WorkerStep, RecoverSelect, RecoverCommit, ClaimNone, ClaimSelect, ClaimCommit, Score,
        SucceedSelect, SucceedRejected, SucceedCommit, SucceedRefresh, FailSelect, FailRejected,
        FailCommit, FailRefresh, Exit, Signal, Start
  <2> QED BY <1>3, <2>1, <2>2 DEF vars
<1> QED BY <1>3, <1>4

\* A row starts to run only by the claim of the worker that then works on it.
LEMMA StartsByClaim ==
  ASSUME Inv, NEW w \in Processes, WorkerStep(w) \/ Signal(w) \/ Start(w),
         NEW j \in Jobs, jobs[j].status # "running", jobs'[j].status = "running"
  PROVE  ClaimCommit(w) /\ claimed[w] = j
<1>0. RepositoryTypeOK /\ (WorkerStep(w) \/ Environment(w))
  BY DEF Inv, TypeOK, Environment
<1>1. \/ pc[w] = "recovering" /\ CommitRecovery(w)
      \/ pc[w] = "claiming" /\ CommitClaim(w)
      \/ pc[w] = "succeeding" /\ CommitSucceeded(w, attempt[w])
      \/ pc[w] = "failing" /\ CommitFailed(w)
  BY <1>0, WorkerWrites
<1>2. Holds(w, j)
  BY <1>1, CommitChanges
<1>3. pc[w] # "recovering"
  BY <1>2, LoadedRow DEF LockOK
<1>4. pc[w] # "succeeding"
  BY <1>2, LoadedRow DEF LockOK
<1>5. pc[w] # "failing"
  <2>1. ASSUME pc[w] = "failing"
        PROVE  jobs'[j] = Failed(tx[w][j])
    BY <1>0, <1>1, <1>2, <2>1, CommitPointwise DEF CommitFailed
  <2>2. Failed(tx[w][j]).status = "failed"
    BY DEF Failed
  <2> QED BY <2>1, <2>2
<1>6. pc[w] = "claiming" /\ claimed[w] = j
  BY <1>1, <1>2, <1>3, <1>4, <1>5, LoadedRow DEF LockOK
<1>7. jobs' # jobs
  OBVIOUS
<1>8. ClaimCommit(w)
  BY <1>6, <1>7
  DEF WorkerStep, RecoverSelect, RecoverCommit, ClaimNone, ClaimSelect, Score, SucceedSelect,
      SucceedRejected, SucceedCommit, SucceedRefresh, FailSelect, FailRejected, FailCommit,
      FailRefresh, Exit, Signal, Start, repositoryVars
<1> QED BY <1>6, <1>8

\* A worker without faults leaves process_claimed only when its job has an
\* outcome or is queued again.
LEMMA LeavesFinished ==
  ASSUME Inv, NEW w \in Processes, WorkerStep(w) \/ Signal(w) \/ Start(w),
         Processing(w), ~Processing(w)'
  PROVE  jobs'[claimed[w]].status # "running"
<1>t. TypeOK /\ RepositoryTypeOK
  BY DEF Inv, TypeOK
<1>1. \A l : Goto(w, l) => pc'[w] = l
  BY <1>t DEF TypeOK, Goto
<1>2. SucceedRefresh(w) \/ FailRefresh(w) \/ FailRejected(w)
  BY <1>1
  DEF Processing, WorkerStep, RecoverSelect, RecoverCommit, ClaimNone, ClaimSelect, ClaimCommit,
      Score, SucceedSelect, SucceedRejected, SucceedCommit, FailSelect, FailCommit, Exit, Signal,
      Start
<1>3. CASE SucceedRefresh(w) \/ FailRefresh(w)
  <2>1. pc[w] \in Terminal /\ jobs' = jobs
    BY <1>3 DEF SucceedRefresh, FailRefresh, Terminal, repositoryVars
  <2>2. jobs[claimed[w]].status = pc[w]
    BY <2>1 DEF Inv, RefreshesOK, RefreshOK
  <2> QED BY <2>1, <2>2 DEF Terminal
<1>5. CASE FailRejected(w)
  BY <1>5 DEF FailRejected, TransitionRejected, FromQueuedOrRunning, repositoryVars
<1> QED BY <1>2, <1>3, <1>5

\* w works on the current attempt of j.
WorksOn(w, j) ==
  Processing(w) /\ claimed[w] = j /\ attempt[w] = jobs[j].attempt_count

\* Without faults, a running row keeps a worker on its current attempt.
LEMMA NoOrphanStep ==
  ASSUME Inv, NoOrphanWithoutFault, [Next]_vars
  PROVE  NoOrphanWithoutFault'
<1> SUFFICES ASSUME faults' = 0, NEW j \in Jobs, jobs'[j].status = "running"
             PROVE  \E w \in Processes : WorksOn(w, j)'
  BY DEF NoOrphanWithoutFault, WorksOn
<1>1. /\ faults = 0
      /\ \/ \E i \in Jobs : Submit(i) \/ Age(i)
         \/ \E w \in Processes : WorkerStep(w) \/ Signal(w) \/ Start(w)
         \/ UNCHANGED vars
  BY FaultFreeStep DEF Inv
<1>2. Changes(jobs[j], jobs'[j])
  BY StepChanges
<1>3. jobs[j].status = "running" =>
        /\ jobs'[j].attempt_count = jobs[j].attempt_count
        /\ \E w \in Processes : WorksOn(w, j)
  BY <1>1, <1>2 DEF Changes, NoRow, NewRow, NoOrphanWithoutFault, WorksOn
<1>4. CASE (\E i \in Jobs : Submit(i) \/ Age(i)) \/ UNCHANGED vars
  <2>1. pc' = pc /\ claimed' = claimed /\ attempt' = attempt
    BY <1>4 DEF Submit, Age, vars, workerVars
  <2>2. jobs[j].status = "running"
    <3>0. jobs \in [Jobs -> Row]
      BY DEF Inv, TypeOK, RepositoryTypeOK
    <3>1. ASSUME NEW i \in Jobs, Submit(i)
          PROVE  jobs[j].status = "running"
      BY <3>0, <3>1 DEF Submit, Insert, NewRow, NoRow
    <3>2. ASSUME NEW i \in Jobs, Age(i)
          PROVE  jobs[j].status = "running"
      BY <3>0, <3>2 DEF Age, GrowOld, Aged
    <3>3. CASE UNCHANGED vars
      BY <3>3 DEF vars, repositoryVars
    <3> QED BY <1>4, <3>1, <3>2, <3>3
  <2> QED BY <1>3, <2>1, <2>2 DEF WorksOn, Processing
<1>5. ASSUME NEW w \in Processes, WorkerStep(w) \/ Signal(w) \/ Start(w)
      PROVE  \E v \in Processes : WorksOn(v, j)'
  <2>0. WorkerStep(w) \/ Environment(w)
    BY <1>5 DEF Environment
  <2>1. CASE jobs[j].status # "running"
    <3>1. ClaimCommit(w) /\ claimed[w] = j
      BY <1>5, <2>1, StartsByClaim
    <3>2. claimed'[w] = j /\ attempt'[w] = jobs'[j].attempt_count
      BY <3>1, NewClaim
    <3>3. pc'[w] = "scoring"
      BY <3>1 DEF ClaimCommit, Goto, Inv, TypeOK
    <3> QED BY <3>2, <3>3 DEF WorksOn, Processing
  <2>2. CASE jobs[j].status = "running"
    <3>1. PICK v \in Processes : WorksOn(v, j)
      BY <1>3, <2>2
    <3>2. CASE v # w
      <4>1. OthersStay(w)
        BY <2>0, OneWorkerSteps DEF Inv
      <4> QED BY <1>3, <2>2, <3>1, <3>2, <4>1 DEF OthersStay, WorksOn, Processing
    <3>3. CASE v = w
      <4>1. Processing(w)'
        BY <1>5, <3>1, <3>3, LeavesFinished DEF WorksOn
      <4>2. ~ClaimCommit(w)
        BY <3>1, <3>3 DEF WorksOn, Processing, ClaimCommit
      <4>3. claimed'[w] = claimed[w] /\ attempt'[w] = attempt[w]
        BY <2>0, <4>1, <4>2, OwnStep
      <4> QED BY <1>3, <2>2, <3>1, <3>3, <4>1, <4>3 DEF WorksOn
    <3> QED BY <3>2, <3>3
  <2> QED BY <2>1, <2>2
<1> QED BY <1>1, <1>4, <1>5

\* Without crashes and database errors no running row is without a worker on
\* its current attempt, however workers are signalled, slow or overtaken by
\* recover_stale_running.
THEOREM NoOrphans == Spec => []NoOrphanWithoutFault
<1>1. Init => NoOrphanWithoutFault
  BY DEF Init, RepositoryInit, NoRow, NoOrphanWithoutFault
<1> QED BY <1>1, NoOrphanStep, Invariance, PTL DEF Spec

\* No event is ever taken back.
LEMMA AuditGrows ==
  ASSUME TypeOK, [Next]_vars
  PROVE  \A j \in Jobs, e \in AuditEvents :
           /\ audit[j][e] \in Nat /\ audit'[j][e] \in Nat
           /\ audit[j][e] <= audit'[j][e]
<1>0. audit \in [Jobs -> [AuditEvents -> Nat]]
  BY DEF TypeOK
<1>1. TypeOK'
  BY TypeStep
<1>2. audit' \in [Jobs -> [AuditEvents -> Nat]]
  BY <1>1 DEF TypeOK
<1>3. ASSUME NEW i, NEW f, Record(i, f)
      PROVE  \A j \in Jobs, e \in AuditEvents : audit[j][e] <= audit'[j][e]
  <2>1. audit' = [audit EXCEPT ![i] = [audit[i] EXCEPT ![f] = audit[i][f] + 1]]
    BY <1>3 DEF Record
  <2> SUFFICES ASSUME NEW j \in Jobs, NEW e \in AuditEvents
               PROVE  audit[j][e] <= audit'[j][e]
    OBVIOUS
  <2>2. audit[j] \in [AuditEvents -> Nat] /\ audit[j][e] \in Nat
    BY <1>0
  <2>3. CASE j # i
    <3>1. audit'[j] = audit[j]
      BY <1>0, <2>1, <2>3
    <3> QED BY <2>2, <3>1
  <2>4. CASE j = i
    <3>1. audit'[j] = [audit[j] EXCEPT ![f] = audit[j][f] + 1]
      BY <1>0, <2>1, <2>4
    <3> QED BY <2>2, <3>1
  <2> QED BY <2>3, <2>4
<1>4. audit' = audit \/ \E i, f : Record(i, f)
  BY DEF Next, WorkerStep, Environment, Submit, SubmitLost, Age, RecoverSelect, RecoverCommit,
         ClaimNone, ClaimSelect, ClaimCommit, Score, SucceedSelect, SucceedRejected,
         SucceedCommit, SucceedRefresh, FailSelect, FailRejected, FailCommit, FailRefresh, Exit,
         DatabaseError, AnswerLost, Crash, Signal, Start, apiVars, vars
<1> QED BY <1>0, <1>2, <1>3, <1>4

\* Without faults a row gets its outcome from the commit of a call that is then
\* to record it, or from a recovery.
LEMMA OutcomeIsPending ==
  ASSUME Inv, NEW w \in Processes, WorkerStep(w) \/ Signal(w) \/ Start(w),
         NEW j \in Jobs, jobs[j].status \notin Terminal, jobs'[j].status \in Terminal
  PROVE  \/ Refreshing(w, j)' /\ pc'[w] = jobs'[j].status
         \/ jobs'[j].status = "failed" /\ jobs'[j].error_message = "timed out"
<1>0. TypeOK /\ RepositoryTypeOK /\ (WorkerStep(w) \/ Environment(w))
  BY DEF Inv, TypeOK, Environment
<1>1. \/ pc[w] = "recovering" /\ CommitRecovery(w)
      \/ pc[w] = "claiming" /\ CommitClaim(w)
      \/ pc[w] = "succeeding" /\ CommitSucceeded(w, attempt[w])
      \/ pc[w] = "failing" /\ CommitFailed(w)
  BY <1>0, WorkerWrites
<1>2. Holds(w, j)
  BY <1>1, CommitChanges
<1>3. CASE pc[w] = "recovering"
  <2>1. jobs'[j] = Recovered(tx[w][j])
    BY <1>0, <1>1, <1>2, <1>3, CommitPointwise DEF CommitRecovery
  <2>2. /\ Recovered(tx[w][j]).status \in {"queued", "failed"}
        /\ Recovered(tx[w][j]).status = "failed" =>
             Recovered(tx[w][j]).error_message = "timed out"
    BY DEF Recovered
  <2>3. jobs'[j].status = "failed"
    BY <2>1, <2>2 DEF Terminal
  <2> QED BY <2>1, <2>2, <2>3
<1>4. pc[w] # "claiming"
  <2>1. ASSUME pc[w] = "claiming"
        PROVE  jobs'[j] = Claimed(tx[w][j])
    BY <1>0, <1>1, <1>2, <2>1, CommitPointwise DEF CommitClaim
  <2> QED BY <2>1 DEF Claimed, Terminal
<1>5. CASE pc[w] \in {"succeeding", "failing"}
  <2>1. claimed[w] = j
    BY <1>2, <1>5, LoadedRow DEF LockOK
  <2>2. jobs' # jobs
    OBVIOUS
  <2>3. SucceedCommit(w) \/ FailCommit(w)
    BY <1>5, <2>2
    DEF WorkerStep, RecoverSelect, RecoverCommit, ClaimNone, ClaimSelect, ClaimCommit, Score,
        SucceedSelect, SucceedRejected, SucceedRefresh, FailSelect, FailRejected, FailRefresh,
        Exit, Signal, Start, repositoryVars
  <2>4. claimed'[w] = j /\ pc'[w] \in Terminal /\ jobs'[j].status = pc'[w]
    BY <2>1, <2>3, OutcomeCommit
  <2> QED BY <2>4 DEF Refreshing
<1> QED BY <1>1, <1>3, <1>4, <1>5

\* Without faults a worker leaves its refresh by recording the outcome.
LEMMA RefreshRecords ==
  ASSUME Inv, NEW w \in Processes, WorkerStep(w) \/ Signal(w) \/ Start(w),
         pc[w] \in Terminal
  PROVE  \/ Record(claimed[w], pc[w])
         \/ pc' = pc /\ claimed' = claimed
  BY DEF WorkerStep, RecoverSelect, RecoverCommit, ClaimNone, ClaimSelect, ClaimCommit, Score,
         SucceedSelect, SucceedRejected, SucceedCommit, SucceedRefresh, FailSelect,
         FailRejected, FailCommit, FailRefresh, Exit, Signal, Start, Terminal

\* Without faults the audit log keeps up with the rows.
LEMMA UnauditedStep ==
  ASSUME Inv, OnlyRecoveryIsUnaudited, [Next]_vars
  PROVE  OnlyRecoveryIsUnaudited'
<1> SUFFICES ASSUME faults' = 0, NEW j \in Jobs, jobs'[j].status \in Terminal
             PROVE  \/ audit'[j][jobs'[j].status] = 1
                    \/ jobs'[j].status = "failed" /\ jobs'[j].error_message = "timed out"
                    \/ \E w \in Processes : Refreshing(w, j)' /\ pc'[w] = jobs'[j].status
  BY DEF OnlyRecoveryIsUnaudited
<1>0. /\ faults = 0
      /\ \/ \E i \in Jobs : Submit(i) \/ Age(i)
         \/ \E w \in Processes : WorkerStep(w) \/ Signal(w) \/ Start(w)
         \/ UNCHANGED vars
  BY FaultFreeStep DEF Inv
<1>1. CASE jobs[j].status \in Terminal
  <2> DEFINE s == jobs[j].status
  <2>1. jobs'[j] = jobs[j]
    BY <1>1, StepChanges, ChangesKeepOutcome DEF Inv, RowsOK
  <2>2. \A e \in Terminal : /\ audit[j][e] \in Nat /\ audit'[j][e] \in Nat
                            /\ audit[j][e] <= audit'[j][e]
    BY AuditGrows DEF Inv, Terminal, AuditEvents
  <2>3. audit'[j]["succeeded"] + audit'[j]["failed"] <= 1
    BY AuditStep DEF AuditOK
  <2>4. audit'[j]["succeeded"] \in Nat /\ audit'[j]["failed"] \in Nat
    BY <2>2 DEF Terminal
  <2>5. \A e \in Terminal : audit'[j][e] <= 1
    BY <2>3, <2>4 DEF Terminal
  <2>6. audit[j][s] = 1 => audit'[j][s] = 1
    BY <1>1, <2>2, <2>5
  <2>7. ASSUME NEW w \in Processes, Refreshing(w, j), pc[w] = s
        PROVE  \/ audit'[j][s] = 1
               \/ pc'[w] = pc[w] /\ claimed'[w] = claimed[w]
    <3>1. CASE WorkerStep(w) \/ Signal(w) \/ Start(w)
      <4>1. CASE Record(j, s)
        <5>1. s \in AuditEvents
          BY <1>1 DEF Terminal, AuditEvents
        <5>2. audit[j][s] = 0
          BY <2>7 DEF Refreshing, Inv, RefreshesOK, RefreshOK, Terminal
        <5>3. audit'[j][s] = audit[j][s] + 1
          BY <4>1, <5>1, RecordPointwise DEF Inv
        <5> QED BY <5>2, <5>3
      <4> QED BY <2>7, <3>1, <4>1, RefreshRecords DEF Refreshing
    <3>2. ASSUME NEW v \in Processes, v # w, WorkerStep(v) \/ Signal(v) \/ Start(v)
          PROVE  pc'[w] = pc[w] /\ claimed'[w] = claimed[w]
      BY <3>2, OneWorkerSteps DEF Inv, OthersStay, Environment
    <3>3. ASSUME (\E i \in Jobs : Submit(i) \/ Age(i)) \/ UNCHANGED vars
          PROVE  pc'[w] = pc[w] /\ claimed'[w] = claimed[w]
      BY <3>3 DEF Submit, Age, vars, workerVars
    <3> QED BY <1>0, <3>1, <3>2, <3>3
  <2>8. \/ audit[j][s] = 1
        \/ s = "failed" /\ jobs[j].error_message = "timed out"
        \/ \E w \in Processes : Refreshing(w, j) /\ pc[w] = s
    BY <1>0, <1>1 DEF OnlyRecoveryIsUnaudited
  <2> QED BY <2>1, <2>6, <2>7, <2>8 DEF Refreshing
<1>2. CASE jobs[j].status \notin Terminal
  <2>0. jobs \in [Jobs -> Row]
    BY DEF Inv, TypeOK, RepositoryTypeOK
  <2>1. ASSUME NEW i \in Jobs, Submit(i)
        PROVE  FALSE
    BY <1>2, <2>0, <2>1 DEF Submit, Insert, NewRow, NoRow, Terminal
  <2>2. ASSUME NEW i \in Jobs, Age(i)
        PROVE  FALSE
    BY <1>2, <2>0, <2>2 DEF Age, GrowOld, Aged
  <2>3. ~UNCHANGED vars
    BY <1>2 DEF vars, repositoryVars
  <2> QED BY <1>0, <1>2, <2>1, <2>2, <2>3, OutcomeIsPending
<1> QED BY <1>1, <1>2

\* Without crashes and database errors every outcome a row has was recorded, or
\* is about to be by the worker that is still in the call that committed it,
\* except one that recover_stale_running gave it.
THEOREM OnlyRecoveriesAreUnaudited == Spec => []OnlyRecoveryIsUnaudited
<1>1. Init => OnlyRecoveryIsUnaudited
  <2>1. NoRow.status \notin Terminal
    BY DEF NoRow, Terminal
  <2>2. Init => \A j \in Jobs : jobs[j].status \notin Terminal
    BY <2>1 DEF Init, RepositoryInit
  <2> QED BY <2>2 DEF OnlyRecoveryIsUnaudited
<1> QED BY <1>1, UnauditedStep, Invariance, PTL DEF Spec
-----------------------------------------------------------------------------
(***************************************************************************)
(* The split service implements the abstract job lifecycle: a step of the  *)
(* service that commits is one step of JobLifecycle on the committed rows, *)
(* every other step leaves them as they are.                               *)
(***************************************************************************)
\* The client's view of the rows does not change.
SameView == /\ [j \in Jobs |-> jobs'[j].status] = [j \in Jobs |-> jobs[j].status]
            /\ [j \in Jobs |-> jobs'[j].attempt_count] = [j \in Jobs |-> jobs[j].attempt_count]
            /\ [j \in Jobs |-> jobs'[j].result] = [j \in Jobs |-> jobs[j].result]

\* create is Submit.
LEMMA InsertIsSubmit ==
  ASSUME Inv, NEW i \in Jobs, Insert(i)
  PROVE  Lifecycle!Submit(i)
<1>1. jobs[i] = NoRow /\ jobs' = [jobs EXCEPT ![i] = NewRow] /\ jobs \in [Jobs -> Row]
  BY DEF Inv, TypeOK, RepositoryTypeOK, Insert
<1>2. /\ NoRow.status = "absent" /\ NewRow.status = "queued"
      /\ NewRow.attempt_count = NoRow.attempt_count /\ NewRow.result = NoRow.result
  BY DEF NoRow, NewRow
<1>3. \A j \in Jobs : jobs'[j] = IF j = i THEN NewRow ELSE jobs[j]
  BY <1>1
<1>4. [j \in Jobs |-> jobs'[j].status]
        = [[j \in Jobs |-> jobs[j].status] EXCEPT ![i] = "queued"]
  BY <1>2, <1>3
<1>5. /\ [j \in Jobs |-> jobs'[j].attempt_count] = [j \in Jobs |-> jobs[j].attempt_count]
      /\ [j \in Jobs |-> jobs'[j].result] = [j \in Jobs |-> jobs[j].result]
  BY <1>1, <1>2, <1>3
<1> QED BY <1>1, <1>2, <1>4, <1>5 DEF Lifecycle!Submit

\* A transaction on the one row that w has claimed changes no other row.
LEMMA OneRowCommit ==
  ASSUME Inv, NEW w \in Processes, pc[w] \in {"claiming", "succeeding", "failing"}
  PROVE  /\ claimed[w] \in Jobs /\ Holds(w, claimed[w])
         /\ \A j \in Jobs : Holds(w, j) <=> j = claimed[w]
<1>1. claimed[w] \in Jobs /\ Holds(w, claimed[w])
  BY DEF Inv, HoldsClaim
<1>2. ASSUME NEW j \in Jobs, Holds(w, j)
      PROVE  j = claimed[w]
  BY <1>2, LoadedRow DEF LockOK
<1> QED BY <1>1, <1>2

\* The commit of claim_next_queued is Claim.
LEMMA ClaimIsClaim ==
  ASSUME Inv, NEW w \in Processes, pc[w] = "claiming", CommitClaim(w)
  PROVE  Lifecycle!Claim(claimed[w])
<1> DEFINE i == claimed[w]
<1>0. RepositoryTypeOK
  BY DEF Inv, TypeOK
<1>1. i \in Jobs /\ Holds(w, i) /\ \A j \in Jobs : Holds(w, j) <=> j = i
  BY OneRowCommit
<1>2. \A j \in Jobs : jobs'[j] = IF j = i THEN Claimed(tx[w][j]) ELSE jobs[j]
  BY <1>0, <1>1, CommitPointwise DEF CommitClaim
<1>3. /\ jobs[i].status = "queued"
      /\ tx[w][i].attempt_count = jobs[i].attempt_count
      /\ tx[w][i].result = jobs[i].result
      /\ jobs[i].attempt_count < MaxAttempts
  BY <1>1, LoadedRow DEF LockOK, RowOK
<1>4. /\ Claimed(tx[w][i]).status = "running"
      /\ Claimed(tx[w][i]).attempt_count = tx[w][i].attempt_count + 1
      /\ Claimed(tx[w][i]).result = tx[w][i].result
  BY DEF Claimed
<1>5. [j \in Jobs |-> jobs'[j].status]
        = [[j \in Jobs |-> jobs[j].status] EXCEPT ![i] = "running"]
  BY <1>1, <1>2, <1>4
<1>6. [j \in Jobs |-> jobs'[j].attempt_count]
        = [[j \in Jobs |-> jobs[j].attempt_count] EXCEPT ![i] = jobs[i].attempt_count + 1]
  BY <1>1, <1>2, <1>3, <1>4
<1>7. [j \in Jobs |-> jobs'[j].result] = [j \in Jobs |-> jobs[j].result]
  BY <1>1, <1>2, <1>3, <1>4
<1> HIDE DEF i
<1> QED BY <1>1, <1>3, <1>5, <1>6, <1>7 DEF Lifecycle!Claim, i

\* The commit of recover_stale_running is Recover of the rows it has locked.
LEMMA RecoveryIsRecover ==
  ASSUME Inv, NEW w \in Processes, pc[w] = "recovering", CommitRecovery(w)
  PROVE  \E S \in SUBSET Jobs : Lifecycle!Recover(S)
<1>s. PICK S \in SUBSET Jobs : \A j \in Jobs : j \in S <=> Holds(w, j)
  <2>1. {j \in Jobs : Holds(w, j)} \in SUBSET Jobs
    OBVIOUS
  <2> QED BY <2>1
<1>0. RepositoryTypeOK /\ MaxAttempts \in Nat
  BY AttemptsAssumption DEF Inv, TypeOK
<1>1. \A j \in Jobs : jobs'[j] = IF j \in S THEN Recovered(tx[w][j]) ELSE jobs[j]
  BY <1>s, <1>0, CommitPointwise DEF CommitRecovery
<1>2. \A j \in S : /\ jobs[j].status = "running"
                   /\ tx[w][j].attempt_count = jobs[j].attempt_count
                   /\ tx[w][j].result = jobs[j].result
                   /\ jobs[j].attempt_count \in Nat
  <2> SUFFICES ASSUME NEW j \in S
               PROVE  /\ jobs[j].status = "running"
                      /\ tx[w][j].attempt_count = jobs[j].attempt_count
                      /\ tx[w][j].result = jobs[j].result
                      /\ jobs[j].attempt_count \in Nat
    OBVIOUS
  <2>1. j \in Jobs /\ Holds(w, j)
    BY <1>s
  <2>2. /\ LockOK(w, j) /\ jobs[j] \in Row
        /\ tx[w][j].status = jobs[j].status
        /\ tx[w][j].attempt_count = jobs[j].attempt_count
        /\ tx[w][j].result = jobs[j].result
    BY <2>1, LoadedRow
  <2>3. tx[w][j].status = "running"
    BY <2>2 DEF LockOK
  <2> QED BY <2>2, <2>3 DEF Row
<1>3. \A j \in S : /\ Recovered(tx[w][j]).status
                        = IF tx[w][j].attempt_count >= MaxAttempts THEN "failed" ELSE "queued"
                   /\ Recovered(tx[w][j]).attempt_count = tx[w][j].attempt_count
                   /\ Recovered(tx[w][j]).result = tx[w][j].result
  BY DEF Recovered
<1>4. \A j \in S : jobs'[j].status
                     = IF jobs[j].attempt_count < MaxAttempts THEN "queued" ELSE "failed"
  BY <1>0, <1>1, <1>2, <1>3
<1>5. [j \in Jobs |-> jobs'[j].status]
        = [j \in Jobs |-> IF j \notin S THEN jobs[j].status
                          ELSE IF jobs[j].attempt_count < MaxAttempts
                               THEN "queued" ELSE "failed"]
  BY <1>1, <1>4
<1>6. /\ [j \in Jobs |-> jobs'[j].attempt_count] = [j \in Jobs |-> jobs[j].attempt_count]
      /\ [j \in Jobs |-> jobs'[j].result] = [j \in Jobs |-> jobs[j].result]
  BY <1>1, <1>2, <1>3
<1>7. Lifecycle!Recover(S)
  BY <1>2, <1>5, <1>6 DEF Lifecycle!Recover
<1> QED BY <1>7

\* The commit of set_succeeded is Succeed, also for an attempt given up before.
LEMMA SuccessIsSucceed ==
  ASSUME Inv, NEW w \in Processes, pc[w] = "succeeding", CommitSucceeded(w, attempt[w])
  PROVE  Lifecycle!Succeed(claimed[w])
<1> DEFINE i == claimed[w]
<1>0. RepositoryTypeOK
  BY DEF Inv, TypeOK
<1>1. i \in Jobs /\ Holds(w, i) /\ \A j \in Jobs : Holds(w, j) <=> j = i
  BY OneRowCommit
<1>2. \A j \in Jobs :
        jobs'[j] = IF j = i THEN Succeeded(tx[w][j], attempt[w]) ELSE jobs[j]
  BY <1>0, <1>1, CommitPointwise DEF CommitSucceeded
<1>3. jobs[i].status = "running" /\ tx[w][i].attempt_count = jobs[i].attempt_count
  BY <1>1, LoadedRow DEF LockOK
<1>4. /\ Succeeded(tx[w][i], attempt[w]).status = "succeeded"
      /\ Succeeded(tx[w][i], attempt[w]).attempt_count = tx[w][i].attempt_count
      /\ Succeeded(tx[w][i], attempt[w]).result = attempt[w]
  BY DEF Succeeded
<1>5. [j \in Jobs |-> jobs'[j].status]
        = [[j \in Jobs |-> jobs[j].status] EXCEPT ![i] = "succeeded"]
  BY <1>1, <1>2, <1>4
<1>6. [j \in Jobs |-> jobs'[j].attempt_count] = [j \in Jobs |-> jobs[j].attempt_count]
  BY <1>1, <1>2, <1>3, <1>4
<1>7. [j \in Jobs |-> jobs'[j].result]
        = [[j \in Jobs |-> jobs[j].result] EXCEPT ![i] = attempt[w]]
  BY <1>1, <1>2, <1>4
<1>8. attempt[w] \in 1..jobs[i].attempt_count
  <2>1. attempt[w] > 0 /\ attempt[w] <= jobs[i].attempt_count
    BY DEF Inv, ClaimsCounted, Processing
  <2>2. attempt[w] \in Nat /\ jobs[i].attempt_count \in Nat
    BY <1>1 DEF Inv, TypeOK, RepositoryTypeOK, Row
  <2> QED BY <2>1, <2>2
<1> HIDE DEF i
<1> QED BY <1>1, <1>3, <1>5, <1>6, <1>7, <1>8 DEF Lifecycle!Succeed, i

\* The commit of set_failed is Fail.
LEMMA FailureIsFail ==
  ASSUME Inv, NEW w \in Processes, pc[w] = "failing", CommitFailed(w)
  PROVE  Lifecycle!Fail(claimed[w])
<1> DEFINE i == claimed[w]
<1>0. RepositoryTypeOK
  BY DEF Inv, TypeOK
<1>1. i \in Jobs /\ Holds(w, i) /\ \A j \in Jobs : Holds(w, j) <=> j = i
  BY OneRowCommit
<1>2. \A j \in Jobs : jobs'[j] = IF j = i THEN Failed(tx[w][j]) ELSE jobs[j]
  BY <1>0, <1>1, CommitPointwise DEF CommitFailed
<1>3. /\ jobs[i].status \in {"queued", "running"}
      /\ tx[w][i].attempt_count = jobs[i].attempt_count
      /\ tx[w][i].result = jobs[i].result
  BY <1>1, LoadedRow DEF LockOK, FromQueuedOrRunning
<1>4. /\ Failed(tx[w][i]).status = "failed"
      /\ Failed(tx[w][i]).attempt_count = tx[w][i].attempt_count
      /\ Failed(tx[w][i]).result = tx[w][i].result
  BY DEF Failed
<1>5. [j \in Jobs |-> jobs'[j].status]
        = [[j \in Jobs |-> jobs[j].status] EXCEPT ![i] = "failed"]
  BY <1>1, <1>2, <1>4
<1>6. /\ [j \in Jobs |-> jobs'[j].attempt_count] = [j \in Jobs |-> jobs[j].attempt_count]
      /\ [j \in Jobs |-> jobs'[j].result] = [j \in Jobs |-> jobs[j].result]
  BY <1>1, <1>2, <1>3, <1>4
<1>7. jobs[i].attempt_count > 0
  <2>1. attempt[w] > 0 /\ attempt[w] <= jobs[i].attempt_count
    BY DEF Inv, ClaimsCounted, Processing
  <2>2. attempt[w] \in Nat /\ jobs[i].attempt_count \in Nat
    BY <1>1 DEF Inv, TypeOK, RepositoryTypeOK, Row
  <2> QED BY <2>1, <2>2
<1> HIDE DEF i
<1> QED BY <1>1, <1>3, <1>5, <1>6, <1>7 DEF Lifecycle!Fail, i

\* Time does not show in a client's view.
LEMMA AgeIsInvisible ==
  ASSUME Inv, NEW i \in Jobs, GrowOld(i)
  PROVE  SameView
<1>1. jobs' = [jobs EXCEPT ![i] = Aged(jobs[i])] /\ jobs \in [Jobs -> Row]
  BY DEF Inv, TypeOK, RepositoryTypeOK, GrowOld
<1>2. /\ Aged(jobs[i]).status = jobs[i].status
      /\ Aged(jobs[i]).attempt_count = jobs[i].attempt_count
      /\ Aged(jobs[i]).result = jobs[i].result
  BY DEF Aged
<1> QED BY <1>1, <1>2 DEF SameView

\* The split service implements JobLifecycle: for every number of workers, jobs
\* and faults, a client that reads the committed rows sees only the atomic steps
\* of the abstract lifecycle, with at most MaxAttempts attempts per job.
THEOREM Refinement == Spec => ImplementsLifecycle
<1>1. Init => Lifecycle!Init
  BY DEF Init, RepositoryInit, Lifecycle!Init, NoRow
<1>2. ASSUME Inv, [Next]_vars
      PROVE  [Lifecycle!Next]_(Lifecycle!vars)
  <2>1. SameView => UNCHANGED Lifecycle!vars
    BY DEF SameView, Lifecycle!vars
  <2>2. jobs' = jobs => SameView
    BY DEF SameView
  <2>3. ASSUME NEW i \in Jobs, Submit(i) \/ SubmitLost(i) \/ Age(i)
        PROVE  Lifecycle!Next \/ SameView
    BY <1>2, <2>3, InsertIsSubmit, AgeIsInvisible
    DEF Submit, SubmitLost, Age, Lifecycle!Next
  <2>4. ASSUME NEW w \in Processes, WorkerStep(w) \/ Environment(w)
        PROVE  Lifecycle!Next \/ SameView
    <3>1. CASE pc[w] = "recovering" /\ CommitRecovery(w)
      BY <1>2, <3>1, RecoveryIsRecover DEF Lifecycle!Next
    <3>2. CASE pc[w] = "claiming" /\ CommitClaim(w)
      <4>1. PICK i \in Jobs : i = claimed[w]
        BY <1>2, <3>2, OneRowCommit
      <4>2. Lifecycle!Claim(claimed[w])
        BY <1>2, <3>2, ClaimIsClaim
      <4>3. Lifecycle!Claim(i)
        BY <4>1, <4>2 DEF Lifecycle!Claim
      <4> QED BY <4>3 DEF Lifecycle!Next
    <3>3. CASE pc[w] = "succeeding" /\ CommitSucceeded(w, attempt[w])
      <4>1. PICK i \in Jobs : i = claimed[w]
        BY <1>2, <3>3, OneRowCommit
      <4>2. Lifecycle!Succeed(claimed[w])
        BY <1>2, <3>3, SuccessIsSucceed
      <4>3. Lifecycle!Succeed(i)
        BY <4>1, <4>2 DEF Lifecycle!Succeed
      <4> QED BY <4>3 DEF Lifecycle!Next
    <3>4. CASE pc[w] = "failing" /\ CommitFailed(w)
      <4>1. PICK i \in Jobs : i = claimed[w]
        BY <1>2, <3>4, OneRowCommit
      <4>2. Lifecycle!Fail(claimed[w])
        BY <1>2, <3>4, FailureIsFail
      <4>3. Lifecycle!Fail(i)
        BY <4>1, <4>2 DEF Lifecycle!Fail
      <4> QED BY <4>3 DEF Lifecycle!Next
    <3> QED BY <1>2, <2>2, <2>4, <3>1, <3>2, <3>3, <3>4, WorkerWrites
  <2>5. CASE UNCHANGED vars
    BY <2>1, <2>2, <2>5 DEF vars, repositoryVars
  <2> QED BY <1>2, <2>1, <2>3, <2>4, <2>5 DEF Next
<1> QED BY <1>1, <1>2, Invariance, PTL DEF Spec, ImplementsLifecycle, Lifecycle!Spec
=============================================================================
