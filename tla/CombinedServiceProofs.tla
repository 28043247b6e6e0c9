----------------------- MODULE CombinedServiceProofs -----------------------
(***************************************************************************)
(* Proofs about the combined role, alone and beside split workers, for     *)
(* every set of jobs and workers and every bound.                          *)
(***************************************************************************)
EXTENDS MixedService, PostgresRepositoryProofs, TLAPS

(***************************************************************************)
(* The inductive invariant of a combined process that is alone.            *)
(*                                                                         *)
(* Its consumer is the only one to change a row that has been created, so  *)
(* that the status of the row it handles follows from where it is, and the *)
(* rows of the jobs that wait are as create left them.                     *)
(***************************************************************************)
InCommit == pc \in {"starting", "succeeding", "failing"}

\* The only lock is the consumer's, on the row it handles, and that row is as
\* the transaction has loaded it.
LocksOK ==
  \A p \in Processes, j \in Jobs :
    tx[p][j] = IF p = Consumer /\ InCommit /\ j = current THEN jobs[j] ELSE NoRow

\* The row that the consumer handles is as the consumer left it.
ConsumerOK ==
  /\ Handling <=> current # NoJob
  /\ pc \in {"load", "start", "starting"} => jobs[current].status = "queued"
  /\ pc \in {"scoring", "succeed", "succeeding"} => jobs[current].status = "running"
  /\ pc = "fail" => jobs[current].status # "absent"
  /\ pc = "failing" => jobs[current].status \in FromQueuedOrRunning

\* A job on the queue is there once, is in no other hands and has not started.
QueueOK ==
  \A n \in 1..Len(queue) :
    queue[n] # NoJob =>
      /\ jobs[queue[n]].status = "queued"
      /\ queue[n] \notin submitting
      /\ queue[n] # current
      /\ \A m \in 1..Len(queue) : queue[m] = queue[n] => m = n

SubmittingOK == \A j \in submitting : jobs[j].status = "queued" /\ j # current

\* What the state of the process says of the rest; stop's sentinel is on the
\* queue of a process that stops only.
ProcessOK ==
  /\ app # "up" => submitting = {}
  /\ app = "stopping" => stops > 0
  /\ app = "down" => queue = <<>> /\ depth = 0 /\ pc = "returned"
  /\ pc = "returned" => app # "up"
  /\ app = "up" => \A n \in 1..Len(queue) : queue[n] # NoJob

\* Somebody has the job.
Kept(j) ==
  \/ j \in submitting
  \/ j = current
  \/ \E n \in 1..Len(queue) : queue[n] = j

NothingDropped ==
  (faults = 0 /\ stops = 0) => \A j \in Jobs : jobs[j].status = "queued" => Kept(j)

Inv ==
  /\ TypeOK
  /\ LocksOK
  /\ ConsumerOK
  /\ QueueOK
  /\ SubmittingOK
  /\ ProcessOK
  /\ NothingDropped
  /\ GaugeCountsWaitingJobs
-----------------------------------------------------------------------------
(***************************************************************************)
(* Types.                                                                  *)
(***************************************************************************)
\* Recording an event counts it.
LEMMA RecordType ==
  ASSUME audit \in [Jobs -> [AuditEvents -> Nat]], NEW j, NEW e, Record(j, e)
  PROVE  audit' \in [Jobs -> [AuditEvents -> Nat]]
<1>1. audit' = [audit EXCEPT ![j] = [audit[j] EXCEPT ![e] = audit[j][e] + 1]]
  BY DEF Record
<1>2. ASSUME j \in Jobs
      PROVE  [audit[j] EXCEPT ![e] = audit[j][e] + 1] \in [AuditEvents -> Nat]
  <2>1. audit[j] \in [AuditEvents -> Nat]
    BY <1>2
  <2>2. e \in AuditEvents => audit[j][e] + 1 \in Nat
    BY <2>1
  <2> QED BY <2>1, <2>2
<1> QED BY <1>1, <1>2

\* What a step of the consumer assigns.
LEMMA ConsumerTypes ==
  ASSUME TypeOK
  PROVE  /\ \A label \in PcValues :
              Goto(label) => pc' \in PcValues /\ current' \in Jobs \cup {NoJob}
         /\ HandlerEnds => /\ pc' \in PcValues
                           /\ current' \in Jobs \cup {NoJob}
                           /\ depth' \in Nat
         /\ CallRaises => /\ pc' \in PcValues
                          /\ current' \in Jobs \cup {NoJob}
                          /\ depth' \in Nat
         /\ Fault => faults' \in 0..MaxFaults /\ faults' > 0
         /\ \A j, e : Record(j, e) => audit' \in [Jobs -> [AuditEvents -> Nat]]
<1>1. \A label \in PcValues :
        Goto(label) => pc' \in PcValues /\ current' \in Jobs \cup {NoJob}
  BY DEF TypeOK, Goto
<1>2. Len(queue) \in Nat
  BY DEF TypeOK
<1>3. HandlerEnds => pc' \in PcValues /\ current' \in Jobs \cup {NoJob} /\ depth' \in Nat
  BY <1>2 DEF HandlerEnds, PcValues
<1>4. "fail" \in PcValues
  BY DEF PcValues
<1>5. CallRaises => pc' \in PcValues /\ current' \in Jobs \cup {NoJob} /\ depth' \in Nat
  BY <1>1, <1>3, <1>4 DEF CallRaises, HandlerRaises, TypeOK
<1>6. Fault => faults' \in 0..MaxFaults /\ faults' > 0
  BY BoundsAssumption DEF Fault, TypeOK
<1>7. ASSUME NEW j, NEW e, Record(j, e)
      PROVE  audit' \in [Jobs -> [AuditEvents -> Nat]]
  BY <1>7, RecordType DEF TypeOK
<1> QED BY <1>1, <1>3, <1>5, <1>6, <1>7

\* The consumer's steps keep the types.
LEMMA ConsumerStepType ==
  ASSUME TypeOK, ConsumerStep \/ DatabaseError \/ AnswerLost
  PROVE  TypeOK'
<1>0. RepositoryTypeOK /\ Consumer \in Processes /\ Evaluation \in Nat
  BY ConsumerAssumption DEF TypeOK, Evaluation
<1>1. RepositoryTypeOK'
  <2>1. UNCHANGED repositoryVars => RepositoryTypeOK'
    BY <1>0 DEF repositoryVars, RepositoryTypeOK
  <2>2. \A S : Load(Consumer, S) /\ UNCHANGED jobs => RepositoryTypeOK'
    BY <1>0, LocksType
  <2>3. Rollback(Consumer) => RepositoryTypeOK'
    BY <1>0, LocksType
  <2>4. /\ CommitStarted(Consumer) => RepositoryTypeOK'
        /\ CommitSucceeded(Consumer, Evaluation) => RepositoryTypeOK'
        /\ CommitFailed(Consumer) => RepositoryTypeOK'
    BY <1>0, CommitsType
  <2>5. CASE Take \/ LoadJob \/ Score \/ FailRejected
    BY <2>1, <2>5 DEF Take, LoadJob, Score, FailRejected, TransitionRejected
  <2>6. CASE StartSelect \/ SucceedSelect \/ FailSelect
    BY <2>2, <2>6 DEF StartSelect, SucceedSelect, FailSelect, SelectForTransition
  <2>7. CASE StartCommit \/ SucceedCommit \/ FailCommit
    BY <2>4, <2>7 DEF StartCommit, SucceedCommit, FailCommit
  <2>8. CASE DatabaseError \/ AnswerLost
    BY <2>3, <2>4, <2>8 DEF DatabaseError, AnswerLost
  <2> QED BY <2>5, <2>6, <2>7, <2>8 DEF ConsumerStep
<1>2. CASE Take
  <2>1. queue \in Seq(Jobs \cup {NoJob}) /\ queue # <<>>
    BY <1>2 DEF Take, TypeOK
  <2>2. Tail(queue) \in Seq(Jobs \cup {NoJob}) /\ Head(queue) \in Jobs \cup {NoJob}
    BY <2>1
  <2>3. Len(Tail(queue)) \in Nat
    BY <2>2
  <2>4. queue' = Tail(queue) /\ pc' \in {"load", "returned"}
        /\ current' \in {Head(queue), current} /\ depth' \in {depth, Len(queue')}
    BY <1>2 DEF Take
  <2> QED BY <1>1, <1>2, <2>2, <2>3, <2>4 DEF Take, TypeOK, PcValues
<1>3. CASE LoadJob \/ StartSelect \/ Score \/ SucceedSelect \/ FailSelect
  <2>1. \E label \in PcValues : Goto(label)
    BY <1>3 DEF LoadJob, StartSelect, Score, SucceedSelect, FailSelect, PcValues
  <2>2. UNCHANGED <<processVars, faults, audit, depth>>
    BY <1>3 DEF LoadJob, StartSelect, Score, SucceedSelect, FailSelect
  <2> QED BY <1>1, <2>1, <2>2, ConsumerTypes DEF TypeOK, processVars
<1>4. CASE StartCommit
  <2>1. Goto("scoring") /\ "scoring" \in PcValues
    BY <1>4 DEF StartCommit, PcValues
  <2> QED BY <1>1, <1>4, <2>1, ConsumerTypes DEF StartCommit, TypeOK, processVars
<1>5. CASE SucceedCommit \/ FailRejected \/ FailCommit
  <2>1. HandlerEnds /\ UNCHANGED <<processVars, faults>>
    BY <1>5 DEF SucceedCommit, FailRejected, FailCommit, HandlerRaises
  <2>2. audit' \in [Jobs -> [AuditEvents -> Nat]]
    BY <1>5, ConsumerTypes DEF SucceedCommit, FailRejected, FailCommit, TypeOK
  <2> QED BY <1>1, <2>1, <2>2, ConsumerTypes DEF TypeOK, processVars
<1>6. CASE DatabaseError \/ AnswerLost
  <2>1. CallRaises /\ Fault /\ UNCHANGED <<processVars, audit>>
    BY <1>6 DEF DatabaseError, AnswerLost
  <2> QED BY <1>1, <2>1, ConsumerTypes DEF TypeOK, processVars
<1> QED BY <1>2, <1>3, <1>4, <1>5, <1>6 DEF ConsumerStep

\* The steps of the process keep the types.
LEMMA ProcessStepType ==
  ASSUME TypeOK,
         \/ \E j \in Jobs : Create(j) \/ CreateLost(j) \/ Enqueue(j)
         \/ Crash \/ Stop \/ Down \/ Start
  PROVE  TypeOK'
<1>0. RepositoryTypeOK /\ Consumer \in Processes
  BY ConsumerAssumption DEF TypeOK
<1>1. ASSUME NEW j \in Jobs, Create(j) \/ CreateLost(j)
      PROVE  TypeOK'
  <2>1. RepositoryTypeOK'
    BY <1>0, <1>1, RowStepsType DEF Create, CreateLost
  <2> QED BY <1>1, <2>1, ConsumerTypes
          DEF Create, CreateLost, TypeOK, processVars, consumerVars
<1>2. ASSUME NEW j \in Jobs, Enqueue(j)
      PROVE  TypeOK'
  <2>1. RepositoryTypeOK'
    BY <1>0, <1>2 DEF Enqueue, repositoryVars, RepositoryTypeOK
  <2>2. Append(queue, j) \in Seq(Jobs \cup {NoJob}) /\ Len(Append(queue, j)) \in Nat
    BY DEF TypeOK
  <2> QED BY <1>2, <2>1, <2>2, ConsumerTypes DEF Enqueue, TypeOK, consumerVars
<1>3. CASE Crash
  <2>1. RepositoryTypeOK'
    BY <1>0, <1>3, LocksType DEF Crash
  <2>2. <<>> \in Seq(Jobs \cup {NoJob})
    OBVIOUS
  <2> QED BY <1>3, <2>1, <2>2, ConsumerTypes DEF Crash, TypeOK, PcValues
<1>4. CASE Stop
  <2>1. RepositoryTypeOK'
    BY <1>0, <1>4 DEF Stop, repositoryVars, RepositoryTypeOK
  <2>2. Append(queue, NoJob) \in Seq(Jobs \cup {NoJob})
    BY DEF TypeOK
  <2>3. stops' \in 0..MaxStops
    BY <1>4, BoundsAssumption DEF Stop, TypeOK
  <2> QED BY <1>4, <2>1, <2>2, <2>3 DEF Stop, TypeOK, consumerVars
<1>5. CASE Down
  <2>1. RepositoryTypeOK'
    BY <1>0, <1>5 DEF Down, repositoryVars, RepositoryTypeOK
  <2>2. <<>> \in Seq(Jobs \cup {NoJob})
    OBVIOUS
  <2> QED BY <1>5, <2>1, <2>2 DEF Down, TypeOK, consumerVars
<1>6. CASE Start
  <2>1. RepositoryTypeOK'
    BY <1>0, <1>6 DEF Start, repositoryVars, RepositoryTypeOK
  <2> QED BY <1>6, <2>1 DEF Start, TypeOK, PcValues
<1> QED BY <1>1, <1>2, <1>3, <1>4, <1>5, <1>6
-----------------------------------------------------------------------------
(***************************************************************************)
(* The consumer's steps.                                                   *)
(***************************************************************************)
\* The consumer goes on with its job.
GoesOn == current' = current /\ pc' \notin {"get", "returned"} /\ depth' = depth

\* The consumer is done with its job: it has an outcome, or there was a fault.
LetsGo ==
  /\ HandlerEnds
  /\ faults' > 0 \/ jobs'[current].status # "queued"

\* A step that writes no row but the one the consumer handles leaves the jobs
\* that wait as they are.
LEMMA HandlingKeeps ==
  ASSUME Inv, Handling, TypeOK', LocksOK', ConsumerOK',
         UNCHANGED processVars, faults' = faults \/ faults' > 0,
         \A j \in Jobs \ {current} : jobs'[j] = jobs[j],
         GoesOn \/ LetsGo
  PROVE  Inv'
<1>1. /\ UNCHANGED <<app, submitting, queue, stops>>
      /\ queue \in Seq(Jobs \cup {NoJob}) /\ submitting \subseteq Jobs
      /\ faults \in Nat
      /\ \A n \in 1..Len(queue) : queue[n] \in Jobs \cup {NoJob}
  BY BoundsAssumption DEF Inv, TypeOK, processVars
<1>2. current' \in {current, NoJob}
  BY DEF GoesOn, LetsGo, HandlerEnds
<1>3. QueueOK'
  <2> SUFFICES ASSUME NEW n \in 1..Len(queue), queue[n] # NoJob
               PROVE  /\ jobs'[queue[n]].status = "queued"
                      /\ queue[n] \notin submitting
                      /\ queue[n] # current'
                      /\ \A m \in 1..Len(queue) : queue[m] = queue[n] => m = n
    BY <1>1 DEF QueueOK
  <2>1. /\ jobs[queue[n]].status = "queued" /\ queue[n] \notin submitting
        /\ queue[n] # current /\ \A m \in 1..Len(queue) : queue[m] = queue[n] => m = n
    BY DEF Inv, QueueOK
  <2>2. jobs'[queue[n]] = jobs[queue[n]]
    BY <1>1, <2>1
  <2> QED BY <1>2, <2>1, <2>2
<1>4. SubmittingOK'
  BY <1>1, <1>2, NoJobAssumption DEF Inv, SubmittingOK
<1>5. ProcessOK'
  <2>1. app # "down"
    BY DEF Inv, ProcessOK, Handling
  <2>2. pc' = "returned" => app = "stopping"
    BY DEF GoesOn, LetsGo, HandlerEnds
  <2> QED BY <1>1, <2>1, <2>2 DEF Inv, ProcessOK
<1>6. NothingDropped'
  <2> SUFFICES ASSUME faults' = 0, stops = 0, NEW j \in Jobs, jobs'[j].status = "queued"
               PROVE  Kept(j)'
    BY <1>1 DEF NothingDropped
  <2>1. faults = 0
    BY <1>1
  <2>2. CASE j # current
    <3>1. Kept(j)
      BY <2>1, <2>2 DEF Inv, NothingDropped
    <3> QED BY <1>1, <2>2, <3>1 DEF Kept
  <2>3. CASE j = current
    BY <1>1, <2>3 DEF GoesOn, LetsGo, Kept
  <2> QED BY <2>2, <2>3
<1>7. GaugeCountsWaitingJobs'
  BY <1>1 DEF Inv, GaugeCountsWaitingJobs, GoesOn, LetsGo, HandlerEnds, Handling
<1> QED BY <1>3, <1>4, <1>5, <1>6, <1>7 DEF Inv

\* Who handles a job, and which rows are locked.
LEMMA HandledJob ==
  ASSUME Inv, Handling
  PROVE  /\ current \in Jobs
         /\ jobs[current].status # "absent"
         /\ \A j \in Jobs : Holds(Consumer, j) <=> InCommit /\ j = current
         /\ InCommit => tx[Consumer][current] = jobs[current]
<1>1. current \in Jobs /\ pc \in PcValues
  BY DEF Inv, TypeOK, ConsumerOK
<1>2. jobs[current].status # "absent"
  BY <1>1 DEF Inv, ConsumerOK, Handling, PcValues, FromQueuedOrRunning
<1>3. jobs[current] # NoRow
  BY <1>2 DEF NoRow
<1> QED BY <1>1, <1>2, <1>3, ConsumerAssumption DEF Inv, LocksOK, Holds

\* A transaction of the consumer that ends: the row it handles is written, or
\* none, and no row is locked.
LEMMA ConsumerEnds ==
  ASSUME Inv, Handling, InCommit
  PROVE  /\ CommitStarted(Consumer) =>
              /\ jobs'[current].status = "running"
              /\ \A j \in Jobs \ {current} : jobs'[j] = jobs[j]
              /\ Released(Consumer)
         /\ CommitSucceeded(Consumer, Evaluation) =>
              /\ jobs'[current].status = "succeeded"
              /\ \A j \in Jobs \ {current} : jobs'[j] = jobs[j]
              /\ Released(Consumer)
         /\ CommitFailed(Consumer) =>
              /\ jobs'[current].status = "failed"
              /\ \A j \in Jobs \ {current} : jobs'[j] = jobs[j]
              /\ Released(Consumer)
<1>0. RepositoryTypeOK /\ Consumer \in Processes /\ current \in Jobs
  BY HandledJob, ConsumerAssumption DEF Inv, TypeOK
<1>1. ASSUME NEW changed, Commit(Consumer, changed)
      PROVE  /\ jobs'[current] = changed[current]
             /\ \A j \in Jobs \ {current} : jobs'[j] = jobs[j]
             /\ Released(Consumer)
  BY <1>0, <1>1, HandledJob, CommitPointwise
<1>2. /\ Started(tx[Consumer][current]).status = "running"
      /\ Succeeded(tx[Consumer][current], Evaluation).status = "succeeded"
      /\ Failed(tx[Consumer][current]).status = "failed"
  BY DEF Started, Succeeded, Failed
<1> QED BY <1>0, <1>1, <1>2 DEF CommitStarted, CommitSucceeded, CommitFailed

\* After the end of a transaction nothing is locked.
LEMMA ReleasedLocks ==
  ASSUME Inv, Released(Consumer), ~InCommit'
  PROVE  LocksOK'
  BY DEF Inv, LocksOK, Released

\* Without a transaction before or after, nothing is locked either.
LEMMA NoLocks ==
  ASSUME Inv, UNCHANGED tx, ~InCommit, ~InCommit'
  PROVE  LocksOK'
  BY DEF Inv, LocksOK

\* A SELECT FOR UPDATE of the consumer locks the row it handles.
LEMMA ConsumerLoads ==
  ASSUME Inv, Handling, ~InCommit, Load(Consumer, {current}), jobs' = jobs,
         current' = current, InCommit'
  PROVE  LocksOK'
<1>0. RepositoryTypeOK /\ Consumer \in Processes
  BY ConsumerAssumption DEF Inv, TypeOK
<1>1. /\ \A j \in Jobs : tx'[Consumer][j] = IF j \in {current} THEN jobs[j] ELSE NoRow
      /\ \A p \in Processes \ {Consumer} : tx'[p] = tx[p]
  BY <1>0, LoadPointwise
<1> QED BY <1>1 DEF Inv, LocksOK

\* Steps of process that go on to another call.
LEMMA GoingOn ==
  ASSUME Inv, LoadJob \/ StartSelect \/ StartCommit \/ Score \/ SucceedSelect \/ FailSelect
  PROVE  Inv'
<1>t. TypeOK'
  BY ConsumerStepType DEF Inv, ConsumerStep
<1>0. Handling /\ UNCHANGED <<processVars, faults>> /\ current' = current
  BY DEF LoadJob, StartSelect, StartCommit, Score, SucceedSelect, FailSelect, Handling, Goto
<1>1. current \in Jobs /\ current # NoJob
  BY <1>0, HandledJob, NoJobAssumption
<1>2. CASE LoadJob \/ Score
  <2>1. /\ jobs' = jobs /\ tx' = tx /\ ~InCommit /\ ~InCommit' /\ GoesOn
        /\ \/ pc = "load" /\ pc' = "start"
           \/ pc = "scoring" /\ pc' \in {"succeed", "fail"}
    BY <1>2 DEF LoadJob, Score, Goto, repositoryVars, InCommit, GoesOn
  <2>2. ConsumerOK'
    BY <1>0, <1>1, <2>1 DEF Inv, ConsumerOK, Handling
  <2> QED BY <1>t, <1>0, <2>1, <2>2, NoLocks, HandlingKeeps
<1>3. CASE StartSelect \/ SucceedSelect \/ FailSelect
  <2>1. /\ jobs' = jobs /\ Load(Consumer, {current}) /\ ~InCommit /\ InCommit' /\ GoesOn
        /\ \/ pc = "start" /\ pc' = "starting"
           \/ pc = "succeed" /\ pc' = "succeeding"
           \/ pc = "fail" /\ pc' = "failing" /\ jobs[current].status \in FromQueuedOrRunning
    BY <1>3
    DEF StartSelect, SucceedSelect, FailSelect, SelectForTransition, Goto, InCommit, GoesOn
  <2>2. ConsumerOK'
    BY <1>0, <1>1, <2>1 DEF Inv, ConsumerOK, Handling
  <2>3. LocksOK'
    BY <1>0, <2>1, ConsumerLoads
  <2> QED BY <1>t, <1>0, <2>1, <2>2, <2>3, HandlingKeeps
<1>4. CASE StartCommit
  <2>1. pc = "starting" /\ pc' = "scoring" /\ CommitStarted(Consumer) /\ GoesOn
    BY <1>4 DEF StartCommit, Goto, GoesOn
  <2>2. InCommit /\ ~InCommit'
    BY <2>1 DEF InCommit
  <2>3. /\ jobs'[current].status = "running" /\ Released(Consumer)
        /\ \A j \in Jobs \ {current} : jobs'[j] = jobs[j]
    BY <1>0, <2>1, <2>2, ConsumerEnds
  <2>4. ConsumerOK'
    BY <1>0, <1>1, <2>1, <2>3 DEF ConsumerOK, Handling
  <2> QED BY <1>t, <1>0, <2>1, <2>2, <2>3, <2>4, ReleasedLocks, HandlingKeeps
<1> QED BY <1>2, <1>3, <1>4

\* A handler that ends leaves the consumer without a job.
LEMMA EndedHandler ==
  ASSUME HandlerEnds
  PROVE  ConsumerOK' /\ ~InCommit'
  BY DEF HandlerEnds, ConsumerOK, Handling, InCommit

\* Steps of process that end the handler.
LEMMA Ending ==
  ASSUME Inv, SucceedCommit \/ FailRejected \/ FailCommit
  PROVE  Inv'
<1>t. TypeOK'
  BY ConsumerStepType DEF Inv, ConsumerStep
<1>0. Handling /\ HandlerEnds /\ UNCHANGED <<processVars, faults>>
  BY DEF SucceedCommit, FailRejected, FailCommit, Handling, HandlerRaises
<1>1. CASE SucceedCommit \/ FailCommit
  <2>1. /\ InCommit
        /\ CommitSucceeded(Consumer, Evaluation) \/ CommitFailed(Consumer)
    BY <1>1 DEF SucceedCommit, FailCommit, InCommit
  <2>2. /\ jobs'[current].status # "queued" /\ Released(Consumer)
        /\ \A j \in Jobs \ {current} : jobs'[j] = jobs[j]
    BY <1>0, <2>1, ConsumerEnds
  <2>3. LetsGo
    BY <1>0, <2>2 DEF LetsGo
  <2> QED BY <1>t, <1>0, <2>2, <2>3, EndedHandler, ReleasedLocks, HandlingKeeps
<1>2. CASE FailRejected
  <2>1. /\ jobs' = jobs /\ tx' = tx /\ ~InCommit
        /\ jobs[current].status \notin FromQueuedOrRunning
    BY <1>2 DEF FailRejected, TransitionRejected, repositoryVars, InCommit
  <2>2. LetsGo
    BY <1>0, <2>1 DEF LetsGo, FromQueuedOrRunning
  <2> QED BY <1>t, <1>0, <2>1, <2>2, EndedHandler, NoLocks, HandlingKeeps
<1> QED BY <1>1, <1>2

\* Calls that raise.
LEMMA Raising ==
  ASSUME Inv, DatabaseError \/ AnswerLost
  PROVE  Inv'
<1>t. TypeOK'
  BY ConsumerStepType DEF Inv
<1>0. Handling /\ CallRaises /\ UNCHANGED processVars /\ faults' > 0
  <2>1. Fault => faults' > 0
    BY ConsumerTypes DEF Inv
  <2> QED BY <2>1 DEF DatabaseError, AnswerLost, Handling
<1>1. /\ \A j \in Jobs \ {current} : jobs'[j] = jobs[j]
      /\ jobs'[current].status # "absent"
      /\ Released(Consumer)
  <2>1. CASE Rollback(Consumer)
    <3>1. RepositoryTypeOK /\ Consumer \in Processes
      BY ConsumerAssumption DEF Inv, TypeOK
    <3>2. Released(Consumer) /\ jobs' = jobs
      BY <2>1, <3>1, CommitPointwise
    <3> QED BY <1>0, <3>2, HandledJob
  <2>2. CASE AnswerLost
    <3>1. /\ InCommit
          /\ \/ CommitStarted(Consumer)
             \/ CommitSucceeded(Consumer, Evaluation)
             \/ CommitFailed(Consumer)
      BY <2>2 DEF AnswerLost, InCommit
    <3> QED BY <1>0, <3>1, ConsumerEnds
  <2> QED BY <2>1, <2>2 DEF DatabaseError
<1>2. CASE HandlerEnds
  <2>1. LetsGo
    BY <1>0, <1>2 DEF LetsGo
  <2> QED BY <1>t, <1>0, <1>1, <1>2, <2>1, EndedHandler, ReleasedLocks, HandlingKeeps
<1>3. CASE Goto("fail") /\ UNCHANGED depth
  <2>1. pc' = "fail" /\ GoesOn /\ ~InCommit'
    BY <1>3 DEF Goto, GoesOn, InCommit
  <2>2. current # NoJob
    BY <1>0, HandledJob, NoJobAssumption
  <2>3. ConsumerOK'
    BY <1>1, <2>1, <2>2 DEF ConsumerOK, Handling, GoesOn
  <2> QED BY <1>t, <1>0, <1>1, <2>1, <2>3, ReleasedLocks, HandlingKeeps
<1> QED BY <1>0, <1>2, <1>3 DEF CallRaises, HandlerRaises
-----------------------------------------------------------------------------
(***************************************************************************)
(* The queue and the process.                                              *)
(***************************************************************************)
\* The consumer takes the first entry off the queue.
LEMMA Taking ==
  ASSUME Inv, Take
  PROVE  Inv'
<1>t. TypeOK'
  BY ConsumerStepType DEF Inv, ConsumerStep
<1>0. /\ pc = "get" /\ queue # <<>> /\ queue' = Tail(queue)
      /\ UNCHANGED <<jobs, tx, app, submitting, stops, faults>>
      /\ \/ Head(queue) # NoJob /\ pc' = "load" /\ current' = Head(queue) /\ depth' = depth
         \/ /\ Head(queue) = NoJob /\ pc' = "returned" /\ current' = current
            /\ depth' = Len(queue')
  BY DEF Take, repositoryVars
<1>1. /\ queue \in Seq(Jobs \cup {NoJob}) /\ current = NoJob /\ app # "down"
      /\ submitting \subseteq Jobs
  BY <1>0 DEF Inv, TypeOK, ConsumerOK, ProcessOK, Handling
<1>2. /\ Len(queue) \in Nat /\ Len(queue) >= 1
      /\ Head(queue) = queue[1]
      /\ Len(queue') = Len(queue) - 1
      /\ \A n \in 1..Len(queue') : n + 1 \in 1..Len(queue) /\ queue'[n] = queue[n + 1]
      /\ \A n \in 1..Len(queue) : queue[n] \in Jobs \cup {NoJob}
  BY <1>0, <1>1
<1>3. QueueOK'
  <2> SUFFICES ASSUME NEW n \in 1..Len(queue'), queue'[n] # NoJob
               PROVE  /\ jobs[queue'[n]].status = "queued"
                      /\ queue'[n] \notin submitting
                      /\ queue'[n] # current'
                      /\ \A m \in 1..Len(queue') : queue'[m] = queue'[n] => m = n
    BY <1>0 DEF QueueOK
  <2>1. n + 1 \in 1..Len(queue) /\ queue'[n] = queue[n + 1] /\ 1 \in 1..Len(queue)
    BY <1>2
  <2>2. /\ jobs[queue'[n]].status = "queued" /\ queue'[n] \notin submitting
        /\ \A m \in 1..Len(queue) : queue[m] = queue[n + 1] => m = n + 1
    BY <2>1 DEF Inv, QueueOK
  <2>3. queue[1] # queue[n + 1]
    <3>1. 1 # n + 1
      BY <1>2
    <3> QED BY <2>1, <2>2, <3>1
  <2>4. \A m \in 1..Len(queue') : queue'[m] = queue'[n] => m = n
    <3> SUFFICES ASSUME NEW m \in 1..Len(queue'), queue'[m] = queue'[n]
                 PROVE  m = n
      OBVIOUS
    <3>1. m + 1 \in 1..Len(queue) /\ queue'[m] = queue[m + 1]
      BY <1>2
    <3>2. m + 1 = n + 1
      BY <2>1, <2>2, <3>1
    <3> QED BY <1>2, <3>2
  <2> QED BY <1>0, <1>1, <1>2, <2>1, <2>2, <2>3, <2>4
<1>4. ASSUME NEW j \in Jobs, Kept(j)
      PROVE  Kept(j)'
  <2>1. CASE j \in submitting
    BY <1>0, <2>1 DEF Kept
  <2>2. ASSUME NEW n \in 1..Len(queue), queue[n] = j
        PROVE  Kept(j)'
    <3>1. CASE n = 1
      BY <1>0, <1>2, <2>2, <3>1, NoJobAssumption DEF Kept
    <3>2. CASE n # 1
      <4>1. n - 1 \in 1..Len(queue') /\ (n - 1) + 1 = n
        BY <1>2, <3>2
      <4>2. queue'[n - 1] = j
        BY <1>2, <2>2, <4>1
      <4> QED BY <4>1, <4>2 DEF Kept
    <3> QED BY <3>1, <3>2
  <2> QED BY <1>1, <1>4, <2>1, <2>2, NoJobAssumption DEF Kept
<1>5. NothingDropped'
  BY <1>0, <1>4 DEF Inv, NothingDropped
<1>6. ConsumerOK'
  <2>1. 1 \in 1..Len(queue)
    BY <1>2
  <2>2. Head(queue) # NoJob => jobs[Head(queue)].status = "queued"
    BY <1>2, <2>1 DEF Inv, QueueOK
  <2> QED BY <1>0, <1>1, <2>2 DEF ConsumerOK, Handling
<1>7. SubmittingOK'
  <2>1. 1 \in 1..Len(queue)
    BY <1>2
  <2>2. Head(queue) # NoJob => Head(queue) \notin submitting
    BY <1>2, <2>1 DEF Inv, QueueOK
  <2> QED BY <1>0, <2>2 DEF Inv, SubmittingOK
<1>8. ProcessOK'
  <2>1. 1 \in 1..Len(queue)
    BY <1>2
  <2>2. Head(queue) = NoJob => app # "up"
    BY <1>2, <2>1 DEF Inv, ProcessOK
  <2> QED BY <1>0, <1>1, <1>2, <2>2 DEF Inv, ProcessOK
<1>9. LocksOK'
  BY <1>0, NoLocks DEF InCommit
<1>10. GaugeCountsWaitingJobs'
  BY <1>0, <1>2 DEF Inv, GaugeCountsWaitingJobs
<1> QED BY <1>t, <1>3, <1>5, <1>6, <1>7, <1>8, <1>9, <1>10 DEF Inv

\* A row that is inserted was nobody's.
LEMMA Inserting ==
  ASSUME Inv, NEW j \in Jobs, Create(j) \/ CreateLost(j)
  PROVE  Inv'
<1>t. TypeOK'
  BY ProcessStepType DEF Inv
<1>0. /\ jobs[j] = NoRow /\ app = "up"
      /\ UNCHANGED <<tx, app, queue, stops, pc, current, depth>>
      /\ \/ submitting' = submitting \cup {j} /\ faults' = faults
         \/ submitting' = submitting /\ faults' > 0
  <2>1. Fault => faults' > 0
    BY ConsumerTypes DEF Inv
  <2> QED BY <2>1 DEF Create, CreateLost, Insert, processVars, consumerVars
<1>1. jobs \in [Jobs -> Row] /\ jobs' = [jobs EXCEPT ![j] = NewRow]
  BY DEF Create, CreateLost, Insert, Inv, TypeOK, RepositoryTypeOK
<1>2. NoRow.status = "absent" /\ NewRow.status = "queued"
  BY DEF NoRow, NewRow
<1>3. jobs'[j].status = "queued" /\ \A i \in Jobs \ {j} : jobs'[i] = jobs[i]
  BY <1>1, <1>2
<1>4. /\ j # current /\ j \notin submitting
      /\ \A n \in 1..Len(queue) : queue[n] # j
  <2>1. \A n \in 1..Len(queue) : queue[n] # j
    BY <1>0, <1>2, NoJobAssumption DEF Inv, QueueOK
  <2>2. j \notin submitting
    BY <1>0, <1>2 DEF Inv, SubmittingOK
  <2>3. j # current
    BY <1>0, <1>2, HandledJob, NoJobAssumption DEF Inv, ConsumerOK
  <2> QED BY <2>1, <2>2, <2>3
<1>5. /\ queue \in Seq(Jobs \cup {NoJob}) /\ submitting \subseteq Jobs
      /\ current \in Jobs \cup {NoJob}
      /\ \A n \in 1..Len(queue) : queue[n] \in Jobs \cup {NoJob}
  BY DEF Inv, TypeOK
<1>6. LocksOK'
  BY <1>0, <1>3, <1>4 DEF Inv, LocksOK, InCommit
<1>7. ConsumerOK'
  BY <1>0, <1>3, <1>4, <1>5 DEF Inv, ConsumerOK, Handling
<1>8. QueueOK'
  BY <1>0, <1>3, <1>4, <1>5 DEF Inv, QueueOK
<1>9. SubmittingOK'
  BY <1>0, <1>3, <1>4, <1>5 DEF Inv, SubmittingOK
<1>10. ProcessOK'
  BY <1>0 DEF Inv, ProcessOK
<1>11. NothingDropped'
  BY <1>0, <1>3 DEF Inv, NothingDropped, Kept
<1>12. GaugeCountsWaitingJobs'
  BY <1>0 DEF Inv, GaugeCountsWaitingJobs
<1> QED BY <1>t, <1>6, <1>7, <1>8, <1>9, <1>10, <1>11, <1>12 DEF Inv

\* An entry that is put at the end of the queue.
LEMMA Appended ==
  ASSUME Inv, NEW x \in Jobs \cup {NoJob}, queue' = Append(queue, x)
  PROVE  /\ Len(queue) \in Nat /\ Len(queue') = Len(queue) + 1
         /\ queue'[Len(queue) + 1] = x
         /\ \A n \in 1..Len(queue) : n \in 1..Len(queue') /\ queue'[n] = queue[n]
         /\ \A n \in 1..Len(queue') : n \in 1..Len(queue) \/ n = Len(queue) + 1
         /\ Len(queue) + 1 \in 1..Len(queue')
<1>1. queue \in Seq(Jobs \cup {NoJob})
  BY DEF Inv, TypeOK
<1> QED BY <1>1

\* submit hands its job to the queue.
LEMMA Enqueuing ==
  ASSUME Inv, NEW j \in Jobs, Enqueue(j)
  PROVE  Inv'
<1>t. TypeOK'
  BY ProcessStepType DEF Inv
<1>0. /\ j \in submitting /\ submitting' = submitting \ {j}
      /\ queue' = Append(queue, j) /\ depth' = Len(queue')
      /\ UNCHANGED <<jobs, tx, app, stops, pc, current, faults>>
  BY DEF Enqueue, repositoryVars, consumerVars
<1>1. app = "up" /\ jobs[j].status = "queued" /\ j # current /\ j # NoJob
  BY <1>0, NoJobAssumption DEF Inv, ProcessOK, SubmittingOK
<1>2. \A n \in 1..Len(queue) : queue[n] # j
  BY <1>0, <1>1 DEF Inv, QueueOK
<1>3. /\ Len(queue) \in Nat /\ Len(queue') = Len(queue) + 1
      /\ queue'[Len(queue) + 1] = j
      /\ \A n \in 1..Len(queue) : n \in 1..Len(queue') /\ queue'[n] = queue[n]
      /\ \A n \in 1..Len(queue') : n \in 1..Len(queue) \/ n = Len(queue) + 1
      /\ Len(queue) + 1 \in 1..Len(queue')
  BY <1>0, Appended
<1>4. QueueOK'
  <2> SUFFICES ASSUME NEW n \in 1..Len(queue'), queue'[n] # NoJob
               PROVE  /\ jobs[queue'[n]].status = "queued"
                      /\ queue'[n] \notin submitting'
                      /\ queue'[n] # current
                      /\ \A m \in 1..Len(queue') : queue'[m] = queue'[n] => m = n
    BY <1>0 DEF QueueOK
  <2>1. CASE n \in 1..Len(queue)
    <3>1. /\ jobs[queue[n]].status = "queued" /\ queue[n] \notin submitting
          /\ queue[n] # current /\ \A m \in 1..Len(queue) : queue[m] = queue[n] => m = n
      BY <1>3, <2>1 DEF Inv, QueueOK
    <3> QED BY <1>0, <1>2, <1>3, <2>1, <3>1
  <2>2. CASE n = Len(queue) + 1
    BY <1>0, <1>1, <1>2, <1>3, <2>2
  <2> QED BY <1>3, <2>1, <2>2
<1>5. LocksOK' /\ ConsumerOK' /\ SubmittingOK'
  BY <1>0 DEF Inv, LocksOK, ConsumerOK, SubmittingOK, InCommit, Handling
<1>6. ProcessOK'
  BY <1>0, <1>1, <1>3 DEF Inv, ProcessOK
<1>7. ASSUME NEW i \in Jobs, Kept(i)
      PROVE  Kept(i)'
  BY <1>0, <1>3, <1>7 DEF Kept
<1>8. NothingDropped'
  BY <1>0, <1>7 DEF Inv, NothingDropped
<1>9. GaugeCountsWaitingJobs'
  BY <1>0 DEF GaugeCountsWaitingJobs
<1> QED BY <1>t, <1>4, <1>5, <1>6, <1>8, <1>9 DEF Inv

\* Stop puts its sentinel behind the jobs that wait.
LEMMA Stopping ==
  ASSUME Inv, Stop
  PROVE  Inv'
<1>t. TypeOK'
  BY ProcessStepType DEF Inv
<1>0. /\ app = "up" /\ app' = "stopping" /\ submitting = {} /\ submitting' = {}
      /\ stops' = stops + 1 /\ queue' = Append(queue, NoJob)
      /\ UNCHANGED <<jobs, tx, pc, current, faults, depth>>
  BY DEF Stop, repositoryVars, consumerVars
<1>1. stops' > 0
  BY <1>0, BoundsAssumption DEF Inv, TypeOK
<1>2. /\ Len(queue) \in Nat /\ Len(queue') = Len(queue) + 1
      /\ queue'[Len(queue) + 1] = NoJob
      /\ \A n \in 1..Len(queue) : n \in 1..Len(queue') /\ queue'[n] = queue[n]
      /\ \A n \in 1..Len(queue') : n \in 1..Len(queue) \/ n = Len(queue) + 1
  BY <1>0, Appended
<1>3. QueueOK'
  <2> SUFFICES ASSUME NEW n \in 1..Len(queue'), queue'[n] # NoJob
               PROVE  /\ jobs[queue'[n]].status = "queued"
                      /\ queue'[n] \notin submitting'
                      /\ queue'[n] # current
                      /\ \A m \in 1..Len(queue') : queue'[m] = queue'[n] => m = n
    BY <1>0 DEF QueueOK
  <2>1. n \in 1..Len(queue)
    BY <1>2
  <2>2. /\ jobs[queue[n]].status = "queued" /\ queue[n] # current
        /\ \A m \in 1..Len(queue) : queue[m] = queue[n] => m = n
    BY <1>2, <2>1 DEF Inv, QueueOK
  <2> QED BY <1>0, <1>2, <2>1, <2>2
<1>4. LocksOK' /\ ConsumerOK' /\ SubmittingOK'
  BY <1>0 DEF Inv, LocksOK, ConsumerOK, SubmittingOK, InCommit, Handling
<1>5. ProcessOK'
  BY <1>0, <1>1 DEF Inv, ProcessOK
<1>6. NothingDropped' /\ GaugeCountsWaitingJobs'
  BY <1>0, <1>1 DEF NothingDropped, GaugeCountsWaitingJobs
<1> QED BY <1>t, <1>3, <1>4, <1>5, <1>6 DEF Inv

\* The process leaves, crashes or starts: the queue is empty.
LEMMA Restarting ==
  ASSUME Inv, Crash \/ Down \/ Start
  PROVE  Inv'
<1>t. TypeOK'
  BY ProcessStepType DEF Inv
<1>0. /\ submitting' = {} /\ queue' = <<>> /\ current' = NoJob /\ depth' = 0
      /\ jobs' = jobs
      /\ \/ app' = "down" /\ pc' = "returned"
         \/ app' = "up" /\ pc' = "get"
    BY DEF Crash, Down, Start, Inv, ProcessOK, ConsumerOK, Handling, Rollback,
           repositoryVars, consumerVars
<1>1. Len(queue') = 0 /\ ~InCommit'
  BY <1>0 DEF InCommit
<1>2. LocksOK'
  <2>1. CASE Crash
    <3>1. RepositoryTypeOK /\ Consumer \in Processes
      BY ConsumerAssumption DEF Inv, TypeOK
    <3>2. Released(Consumer)
      BY <2>1, <3>1, CommitPointwise DEF Crash
    <3> QED BY <1>1, <3>2, ReleasedLocks
  <2>2. CASE Down \/ Start
    <3>1. tx' = tx /\ ~InCommit
      BY <2>2 DEF Down, Start, Inv, ProcessOK, InCommit, repositoryVars
    <3> QED BY <1>1, <3>1, NoLocks
  <2> QED BY <2>1, <2>2
<1>3. ConsumerOK' /\ QueueOK' /\ SubmittingOK'
  BY <1>0, <1>1 DEF ConsumerOK, QueueOK, SubmittingOK, Handling
<1>4. ProcessOK'
  BY <1>0, <1>1 DEF ProcessOK
<1>5. NothingDropped'
  <2>1. CASE Crash
    BY <2>1, ConsumerTypes DEF Inv, Crash, NothingDropped
  <2>2. CASE Down
    BY <2>2 DEF Inv, Down, ProcessOK, NothingDropped
  <2>3. CASE Start
    BY <2>3 DEF Inv, Start, NothingDropped, Kept, repositoryVars
  <2> QED BY <2>1, <2>2, <2>3
<1>6. GaugeCountsWaitingJobs'
  BY <1>0, <1>1 DEF GaugeCountsWaitingJobs
<1> QED BY <1>t, <1>2, <1>3, <1>4, <1>5, <1>6 DEF Inv

\* A new process with an empty table and an empty queue.
LEMMA InvInit == Init => Inv
<1> SUFFICES ASSUME Init PROVE Inv
  OBVIOUS
<1>1. RepositoryTypeOK
  BY NewRowType DEF Init, RepositoryInit, RepositoryTypeOK
<1>2. <<>> \in Seq(Jobs \cup {NoJob}) /\ Len(<<>>) = 0
  OBVIOUS
<1>3. TypeOK
  BY <1>1, <1>2, BoundsAssumption DEF Init, TypeOK, PcValues
<1>4. LocksOK
  BY DEF Init, RepositoryInit, LocksOK, InCommit
<1>5. ConsumerOK /\ QueueOK /\ SubmittingOK /\ ProcessOK /\ GaugeCountsWaitingJobs
  BY <1>2 DEF Init, ConsumerOK, QueueOK, SubmittingOK, ProcessOK, GaugeCountsWaitingJobs,
              Handling
<1>6. NothingDropped
  BY DEF Init, RepositoryInit, NothingDropped, NoRow
<1> QED BY <1>3, <1>4, <1>5, <1>6 DEF Inv

\* Every step of a process that is alone keeps the invariant.
LEMMA InvStep == Inv /\ [Next]_vars => Inv'
<1> SUFFICES ASSUME Inv, [Next]_vars PROVE Inv'
  OBVIOUS
<1>1. ASSUME NEW j \in Jobs, Create(j) \/ CreateLost(j) \/ Enqueue(j)
      PROVE  Inv'
  BY <1>1, Inserting, Enqueuing
<1>2. CASE ConsumerStep
  BY <1>2, Taking, GoingOn, Ending DEF ConsumerStep
<1>3. CASE DatabaseError \/ AnswerLost
  BY <1>3, Raising
<1>4. CASE Crash \/ Stop \/ Down \/ Start
  BY <1>4, Stopping, Restarting
<1>5. CASE UNCHANGED vars
  <2>1. UNCHANGED <<jobs, tx, app, submitting, queue, stops, pc, current, faults, audit, depth>>
    BY <1>5 DEF vars, repositoryVars, processVars, consumerVars
  <2>2. TypeOK'
    BY <2>1 DEF Inv, TypeOK, RepositoryTypeOK
  <2>3. LocksOK' /\ ConsumerOK' /\ QueueOK' /\ SubmittingOK'
    BY <2>1 DEF Inv, LocksOK, ConsumerOK, QueueOK, SubmittingOK, InCommit, Handling
  <2>4. ProcessOK' /\ NothingDropped' /\ GaugeCountsWaitingJobs'
    BY <2>1 DEF Inv, ProcessOK, NothingDropped, Kept, GaugeCountsWaitingJobs
  <2> QED BY <2>2, <2>3, <2>4 DEF Inv
<1> QED BY <1>1, <1>2, <1>3, <1>4, <1>5 DEF Next

\* Every state of a combined process that is alone satisfies the inductive
\* invariant.
THEOREM Invariance == Spec => []Inv
  BY InvInit, InvStep, PTL DEF Spec

\* Rows, queue, control points and counters of the combined process stay in
\* their domains.
THEOREM TypeCorrect == Spec => []TypeOK
<1>1. Inv => TypeOK
  BY DEF Inv
<1> QED BY <1>1, Invariance, PTL

\* For every number of jobs, faults and stops: submit, the queue and the
\* consumer hand every job over, none has it twice and none loses it.
THEOREM HandOver == Spec => []JobsAreHandedOver
<1>1. Inv => JobsAreHandedOver
  <2> SUFFICES ASSUME Inv, NEW j \in Jobs
               PROVE  /\ \A p, q \in Places(j) : p = q
                      /\ \A n \in 1..Len(queue) : queue[n] = j => jobs[j].status = "queued"
                      /\ (jobs[j].status = "queued" /\ faults = 0 /\ stops = 0)
                           => Places(j) # {}
    BY DEF JobsAreHandedOver
  <2>0. j # NoJob
    BY NoJobAssumption
  <2>1. ASSUME NEW n \in 1..Len(queue), queue[n] = j
        PROVE  /\ jobs[j].status = "queued" /\ j \notin submitting /\ j # current
               /\ \A m \in 1..Len(queue) : queue[m] = j => m = n
    BY <2>0, <2>1 DEF Inv, QueueOK
  <2>2. ~(j \in submitting /\ j = current)
    BY DEF Inv, SubmittingOK
  <2>3. \A p \in Places(j) :
          \/ p = <<"submit", j>> /\ j \in submitting
          \/ p = <<"consumer", j>> /\ j = current
          \/ \E n \in 1..Len(queue) : p = <<"queue", n>> /\ queue[n] = j
    BY DEF Places
  <2>4. \A p, q \in Places(j) : p = q
    BY <2>1, <2>2, <2>3
  <2>5. Kept(j) => Places(j) # {}
    BY DEF Kept, Places
  <2>6. (jobs[j].status = "queued" /\ faults = 0 /\ stops = 0) => Kept(j)
    BY DEF Inv, NothingDropped
  <2> QED BY <2>1, <2>4, <2>5, <2>6
<1> QED BY <1>1, Invariance, PTL

\* The gauge of a consumer that waits is the length of its queue, and that of one
\* that handles a job is at most one off, whatever faults, stops and restarts came
\* before.
THEOREM GaugeIsRight == Spec => []GaugeCountsWaitingJobs
<1>1. Inv => GaugeCountsWaitingJobs
  BY DEF Inv
<1> QED BY <1>1, Invariance, PTL

\* A consumer that is alone finds every row as it expects it: set_running and
\* set_succeeded are never refused.
THEOREM NeverRefused == Spec => []ConsumerIsNeverRefused
<1>1. Inv => ConsumerIsNeverRefused
  <2> SUFFICES ASSUME Inv PROVE ConsumerIsNeverRefused
    OBVIOUS
  <2>1. pc = "load" => jobs[current] # NoRow
    BY DEF Inv, ConsumerOK, NoRow
  <2> QED BY <2>1 DEF Inv, ConsumerOK, ConsumerIsNeverRefused, FromQueued, FromRunning
<1> QED BY <1>1, Invariance, PTL
-----------------------------------------------------------------------------
(***************************************************************************)
(* The combined process beside split workers.                              *)
(*                                                                         *)
(* Now the row that the consumer handles may be anybody's, so that nothing *)
(* follows from where the consumer is but its lock: whoever is between a   *)
(* SELECT FOR UPDATE and its commit has the row to itself, and what it     *)
(* loaded is what the table still holds.  A row without claimed_at is      *)
(* running only if the consumer has started it, since recovery takes only  *)
(* rows with an old claimed_at.                                            *)
(***************************************************************************)
WorkerTypeOK ==
  /\ wpc \in [Processes -> Worker!PcValues]
  /\ claimed \in [Processes -> Jobs \cup {NoJob}]
  /\ attempt \in [Processes -> Nat]
  /\ stopping \in [Processes -> BOOLEAN]

\* The labels at which a worker has locked the row of its claim.
HoldsClaim == {"claiming", "succeeding", "failing"}

\* The consumer's lock fits the call that it makes.
ConsumerLockOK(j) ==
  /\ current = j
  /\ \/ pc = "starting" /\ tx[Consumer][j].status = "queued"
     \/ pc = "succeeding" /\ tx[Consumer][j].status = "running"
     \/ pc = "failing" /\ tx[Consumer][j].status \in FromQueuedOrRunning

\* A worker's lock fits the call that it makes.
WorkerLockOK(w, j) ==
  \/ /\ wpc[w] = "recovering"
     /\ tx[w][j].status = "running" /\ tx[w][j].claimed_at = "old"
  \/ /\ claimed[w] = j
     /\ \/ wpc[w] = "claiming" /\ tx[w][j].status = "queued"
        \/ wpc[w] = "succeeding" /\ tx[w][j].status = "running"
        \/ wpc[w] = "failing" /\ tx[w][j].status \in FromQueuedOrRunning

LockOK(p, j) ==
  /\ Worker!SameButOlder(tx[p][j], jobs[j])
  /\ \A q \in Processes : Holds(q, j) => q = p
  /\ IF p = Consumer THEN ConsumerLockOK(j) ELSE WorkerLockOK(p, j)

MixedLocksOK == \A p \in Processes, j \in Jobs : Holds(p, j) => LockOK(p, j)

\* Who is about to commit has its row.
HoldersOK ==
  /\ InCommit => Holds(Consumer, current)
  /\ \A w \in Workers : wpc[w] \in HoldsClaim => Holds(w, claimed[w])

\* Who handles a job has one.
HandlersOK ==
  /\ Handling => current \in Jobs
  /\ app = "down" => pc = "returned"
  /\ \A w \in Workers :
       wpc[w] = "claiming" \/ Worker!Processing(w) => claimed[w] \in Jobs /\ attempt[w] > 0

\* The row and the audit log of a job agree.
AuditOK(j) ==
  /\ jobs[j].status \notin Terminal => audit[j]["succeeded"] = 0 /\ audit[j]["failed"] = 0
  /\ audit[j]["succeeded"] + audit[j]["failed"] <= 1
  /\ \A s \in Terminal : audit[j][s] = 1 => jobs[j].status = s

\* A worker that has committed an outcome and not yet recorded it is the only
\* one, and nobody has recorded one.
RefreshesOK ==
  \A w \in Workers :
    wpc[w] \in Terminal =>
      /\ claimed[w] \in Jobs
      /\ jobs[claimed[w]].status = wpc[w]
      /\ audit[claimed[w]]["succeeded"] = 0 /\ audit[claimed[w]]["failed"] = 0
      /\ \A v \in Workers : wpc[v] \in Terminal /\ claimed[v] = claimed[w] => v = w

ResultOK(row) == row.result # 0 <=> row.status = "succeeded"

MixedInv ==
  /\ TypeOK
  /\ WorkerTypeOK
  /\ MixedLocksOK
  /\ HoldersOK
  /\ HandlersOK
  /\ \A j \in Jobs : ResultOK(jobs[j]) /\ AuditOK(j)
  /\ RefreshesOK
  /\ StartedJobsAreHandled

(***************************************************************************)
(* The workers' steps are those of SplitService on the same table.         *)
(***************************************************************************)
\* The repository calls of the workers are the consumer's.
LEMMA SameTable ==
  ASSUME NEW w
  PROVE  /\ Worker!SelectStale(w) => SelectStale(w)
         /\ \A j : Worker!SelectOldestClaimable(w, j) => SelectOldestClaimable(w, j)
         /\ \A j, S : Worker!SelectForTransition(w, j, S) => SelectForTransition(w, j, S)
         /\ \A j, S : Worker!TransitionRejected(j, S) => TransitionRejected(j, S)
         /\ Worker!CommitRecovery(w) => CommitRecovery(w)
         /\ Worker!CommitClaim(w) => CommitClaim(w)
         /\ \A r : Worker!CommitSucceeded(w, r) => CommitSucceeded(w, r)
         /\ Worker!CommitFailed(w) => CommitFailed(w)
         /\ Worker!Rollback(w) => Rollback(w)
         /\ \A j : Worker!GrowOld(j) => GrowOld(j)
<1>1. Worker!NoRow = NoRow
  BY DEF Worker!NoRow, NoRow
<1>2. \A p, j : Worker!Holds(p, j) <=> Holds(p, j)
  BY <1>1 DEF Worker!Holds, Holds
<1>3. \A j : Worker!Locked(j) <=> Locked(j)
  BY <1>2 DEF Worker!Locked, Locked
<1>4. \A S : Worker!Load(w, S) <=> Load(w, S)
  BY <1>1 DEF Worker!Load, Load
<1>5. Worker!Release(w) <=> Release(w)
  BY <1>1 DEF Worker!Release, Release
<1>6. \A c : Worker!Commit(w, c) <=> Commit(w, c)
  BY <1>2, <1>5 DEF Worker!Commit, Commit
<1>7. Worker!Stale = Stale /\ Worker!Claimable = Claimable
  BY <1>3 DEF Worker!Stale, Stale, Worker!Claimable, Claimable
<1>8. Worker!SelectStale(w) => SelectStale(w)
  BY <1>4, <1>7 DEF Worker!SelectStale, SelectStale
<1>9. \A j : Worker!SelectOldestClaimable(w, j) => SelectOldestClaimable(w, j)
  BY <1>4, <1>7
  DEF Worker!SelectOldestClaimable, SelectOldestClaimable, Worker!OldestClaimable,
      OldestClaimable
<1>10. \A j, S : Worker!SelectForTransition(w, j, S) => SelectForTransition(w, j, S)
  BY <1>3, <1>4 DEF Worker!SelectForTransition, SelectForTransition
<1>11. \A j, S : Worker!TransitionRejected(j, S) => TransitionRejected(j, S)
  BY <1>3
  DEF Worker!TransitionRejected, TransitionRejected, Worker!repositoryVars, repositoryVars
<1>12. /\ Worker!CommitRecovery(w) => CommitRecovery(w)
       /\ Worker!CommitClaim(w) => CommitClaim(w)
       /\ \A r : Worker!CommitSucceeded(w, r) => CommitSucceeded(w, r)
       /\ Worker!CommitFailed(w) => CommitFailed(w)
  BY <1>6
  DEF Worker!CommitRecovery, CommitRecovery, Worker!Recovered, Recovered,
      Worker!CommitClaim, CommitClaim, Worker!Claimed, Claimed,
      Worker!CommitSucceeded, CommitSucceeded, Worker!Succeeded, Succeeded,
      Worker!CommitFailed, CommitFailed, Worker!Failed, Failed
<1>13. Worker!Rollback(w) => Rollback(w)
  BY <1>5 DEF Worker!Rollback, Rollback
<1>14. \A j : Worker!GrowOld(j) => GrowOld(j)
  BY DEF Worker!GrowOld, GrowOld, Worker!Aged, Aged
<1> QED BY <1>8, <1>9, <1>10, <1>11, <1>12, <1>13, <1>14

\* The other processes do not move.
OthersStay(p) ==
  /\ p # Consumer => UNCHANGED <<pc, current>>
  /\ \A w \in Workers \ {p} :
       wpc'[w] = wpc[w] /\ claimed'[w] = claimed[w] /\ attempt'[w] = attempt[w]

\* The labels of a worker.
LEMMA WorkerLabels ==
  /\ "poll" \in Worker!PcValues /\ "recovering" \in Worker!PcValues
  /\ "claim" \in Worker!PcValues /\ "claiming" \in Worker!PcValues
  /\ "scoring" \in Worker!PcValues /\ "succeed" \in Worker!PcValues
  /\ "succeeding" \in Worker!PcValues /\ "fail" \in Worker!PcValues
  /\ "failing" \in Worker!PcValues /\ "dead" \in Worker!PcValues
  /\ "succeeded" \in Worker!PcValues /\ "failed" \in Worker!PcValues
  /\ "down" \in Worker!PcValues
  BY DEF Worker!PcValues

\* What a worker's step assigns.
LEMMA WorkerAssigns ==
  ASSUME WorkerTypeOK, NEW w \in Workers
  PROVE  /\ \A l : Worker!Goto(w, l) =>
              wpc'[w] = l /\ \A v \in Workers \ {w} : wpc'[v] = wpc[v]
         /\ \A l : Worker!Leave(w, l) =>
              /\ wpc'[w] = l
              /\ \A v \in Workers \ {w} :
                   wpc'[v] = wpc[v] /\ claimed'[v] = claimed[v] /\ attempt'[v] = attempt[v]
         /\ \A l \in Worker!PcValues :
              Worker!Goto(w, l) => wpc' \in [Processes -> Worker!PcValues]
         /\ \A l \in Worker!PcValues :
              Worker!Leave(w, l) => /\ wpc' \in [Processes -> Worker!PcValues]
                                    /\ claimed' \in [Processes -> Jobs \cup {NoJob}]
                                    /\ attempt' \in [Processes -> Nat]
<1>1. /\ w \in Processes /\ \A v \in Workers : v \in Processes
      /\ wpc \in [Processes -> Worker!PcValues]
      /\ claimed \in [Processes -> Jobs \cup {NoJob}]
      /\ attempt \in [Processes -> Nat]
  BY DEF WorkerTypeOK, Workers
<1>2. \A l : Worker!Goto(w, l) => wpc'[w] = l /\ \A v \in Workers \ {w} : wpc'[v] = wpc[v]
  BY <1>1 DEF Worker!Goto
<1>3. \A l \in Worker!PcValues :
        Worker!Goto(w, l) => wpc' \in [Processes -> Worker!PcValues]
  BY <1>1 DEF Worker!Goto
<1>4. \A l : Worker!Leave(w, l) =>
        /\ claimed' = [claimed EXCEPT ![w] = NoJob]
        /\ attempt' = [attempt EXCEPT ![w] = 0]
        /\ Worker!Goto(w, l)
  BY DEF Worker!Leave
<1> QED BY <1>1, <1>2, <1>3, <1>4

\* A worker's step keeps the types, and the others where they are.
LEMMA WorkerTypes ==
  ASSUME TypeOK, WorkerTypeOK, NEW w \in Workers, WorkerStep(w) \/ WorkerEnvironment(w)
  PROVE  TypeOK' /\ WorkerTypeOK' /\ OthersStay(w)
<1> USE WorkerLabels
<1>0. /\ w \in Processes /\ w # Consumer /\ RepositoryTypeOK /\ attempt[w] \in Nat
      /\ Worker!WorkerStep(w) \/ Worker!Environment(w)
      /\ UNCHANGED <<processVars, consumerVars>>
  BY DEF Workers, TypeOK, WorkerTypeOK, WorkerStep, WorkerEnvironment
<1>1. RepositoryTypeOK'
  <2>1. Worker!repositoryVars' = Worker!repositoryVars => RepositoryTypeOK'
    BY <1>0 DEF Worker!repositoryVars, RepositoryTypeOK
  <2>2. /\ \A S : Load(w, S) /\ UNCHANGED jobs => RepositoryTypeOK'
        /\ Rollback(w) => RepositoryTypeOK'
        /\ CommitRecovery(w) => RepositoryTypeOK'
        /\ CommitClaim(w) => RepositoryTypeOK'
        /\ CommitSucceeded(w, attempt[w]) => RepositoryTypeOK'
        /\ CommitFailed(w) => RepositoryTypeOK'
    BY <1>0, LocksType, CommitsType
  <2>3. /\ SelectStale(w) => RepositoryTypeOK'
        /\ \A j : SelectOldestClaimable(w, j) => RepositoryTypeOK'
        /\ \A j, S : SelectForTransition(w, j, S) => RepositoryTypeOK'
        /\ \A j, S : TransitionRejected(j, S) => RepositoryTypeOK'
    BY <1>0, <2>2
    DEF SelectStale, SelectOldestClaimable, SelectForTransition, TransitionRejected,
        repositoryVars, RepositoryTypeOK
  <2>4. CASE Worker!WorkerStep(w)
    BY <2>1, <2>2, <2>3, <2>4, SameTable
    DEF Worker!WorkerStep, Worker!RecoverSelect, Worker!RecoverCommit, Worker!ClaimNone,
        Worker!ClaimSelect, Worker!ClaimCommit, Worker!Score, Worker!SucceedSelect,
        Worker!SucceedRejected, Worker!SucceedCommit, Worker!SucceedRefresh, Worker!FailSelect,
        Worker!FailRejected, Worker!FailCommit, Worker!FailRefresh, Worker!Exit
  <2>5. CASE Worker!Environment(w)
    BY <2>1, <2>2, <2>5, SameTable
    DEF Worker!Environment, Worker!DatabaseError, Worker!AnswerLost, Worker!Crash,
        Worker!Signal, Worker!Start
  <2> QED BY <1>0, <2>4, <2>5
<1>2. faults' \in 0..MaxFaults
  <2>1. faults' = faults \/ Worker!Fault
    BY <1>0
    DEF Worker!WorkerStep, Worker!RecoverSelect, Worker!RecoverCommit, Worker!ClaimNone,
        Worker!ClaimSelect, Worker!ClaimCommit, Worker!Score, Worker!SucceedSelect,
        Worker!SucceedRejected, Worker!SucceedCommit, Worker!SucceedRefresh, Worker!FailSelect,
        Worker!FailRejected, Worker!FailCommit, Worker!FailRefresh, Worker!Exit,
        Worker!Environment, Worker!DatabaseError, Worker!AnswerLost, Worker!Crash,
        Worker!Signal, Worker!Start
  <2> QED BY <2>1, BoundsAssumption DEF TypeOK, Worker!Fault
<1>3. depth' = depth /\ (audit' = audit \/ \E e : Worker!Record(claimed[w], e))
  BY <1>0
  DEF Worker!WorkerStep, Worker!RecoverSelect, Worker!RecoverCommit, Worker!ClaimNone,
      Worker!ClaimSelect, Worker!ClaimCommit, Worker!Score, Worker!SucceedSelect,
      Worker!SucceedRejected, Worker!SucceedCommit, Worker!SucceedRefresh, Worker!FailSelect,
      Worker!FailRejected, Worker!FailCommit, Worker!FailRefresh, Worker!Exit, Worker!apiVars,
      Worker!Environment, Worker!DatabaseError, Worker!AnswerLost, Worker!Crash,
      Worker!Signal, Worker!Start
<1>4. audit' \in [Jobs -> [AuditEvents -> Nat]]
  <2>1. \A e : Worker!Record(claimed[w], e) => Record(claimed[w], e)
    BY DEF Worker!Record, Record
  <2> QED BY <1>3, <2>1, RecordType DEF TypeOK
<1>5. TypeOK'
  BY <1>0, <1>1, <1>2, <1>3, <1>4 DEF TypeOK, processVars, consumerVars
<1>6. stopping' \in [Processes -> BOOLEAN]
  BY <1>0
  DEF WorkerTypeOK, Worker!WorkerStep, Worker!RecoverSelect, Worker!RecoverCommit,
      Worker!ClaimNone, Worker!ClaimSelect, Worker!ClaimCommit, Worker!Score,
      Worker!SucceedSelect, Worker!SucceedRejected, Worker!SucceedCommit, Worker!SucceedRefresh,
      Worker!FailSelect, Worker!FailRejected, Worker!FailCommit, Worker!FailRefresh, Worker!Exit,
      Worker!Environment, Worker!DatabaseError, Worker!AnswerLost, Worker!Crash,
      Worker!Signal, Worker!Start
<1>7. \/ UNCHANGED <<wpc, claimed, attempt>>
      \/ \E l \in Worker!PcValues : Worker!Goto(w, l) /\ UNCHANGED <<claimed, attempt>>
      \/ \E l \in Worker!PcValues : Worker!Leave(w, l)
      \/ Worker!ClaimSelect(w)
  <2>1. CASE Worker!WorkerStep(w)
    BY <2>1
    DEF Worker!WorkerStep, Worker!RecoverSelect, Worker!RecoverCommit, Worker!ClaimNone,
        Worker!ClaimCommit, Worker!Score, Worker!SucceedSelect, Worker!SucceedRejected,
        Worker!SucceedCommit, Worker!SucceedRefresh, Worker!FailSelect, Worker!FailRejected,
        Worker!FailCommit, Worker!FailRefresh, Worker!Exit
  <2>2. CASE Worker!Environment(w)
    BY <2>2
    DEF Worker!Environment, Worker!DatabaseError, Worker!AnswerLost, Worker!Crash,
        Worker!Signal, Worker!Start, Worker!Raise
  <2> QED BY <1>0, <2>1, <2>2
<1>8. CASE Worker!ClaimSelect(w)
  <2>1. PICK j \in Jobs :
          /\ claimed' = [claimed EXCEPT ![w] = j]
          /\ attempt' = [attempt EXCEPT ![w] = jobs[j].attempt_count + 1]
    BY <1>8 DEF Worker!ClaimSelect
  <2>2. jobs[j].attempt_count + 1 \in Nat
    BY <1>0 DEF RepositoryTypeOK, Row
  <2>3. /\ claimed' \in [Processes -> Jobs \cup {NoJob}] /\ attempt' \in [Processes -> Nat]
        /\ \A v \in Workers \ {w} : claimed'[v] = claimed[v] /\ attempt'[v] = attempt[v]
    BY <2>1, <2>2 DEF WorkerTypeOK, Workers
  <2>4. Worker!Goto(w, "claiming")
    BY <1>8 DEF Worker!ClaimSelect
  <2> QED BY <1>0, <1>5, <1>6, <2>3, <2>4, WorkerAssigns
          DEF WorkerTypeOK, OthersStay, consumerVars
<1>9. CASE ~Worker!ClaimSelect(w)
  <2>1. /\ wpc' \in [Processes -> Worker!PcValues]
        /\ claimed' \in [Processes -> Jobs \cup {NoJob}]
        /\ attempt' \in [Processes -> Nat]
    BY <1>7, <1>9, WorkerAssigns DEF WorkerTypeOK
  <2>2. \A v \in Workers \ {w} :
          wpc'[v] = wpc[v] /\ claimed'[v] = claimed[v] /\ attempt'[v] = attempt[v]
    BY <1>7, <1>9, WorkerAssigns
  <2> QED BY <1>0, <1>5, <1>6, <2>1, <2>2 DEF WorkerTypeOK, OthersStay, consumerVars
<1> QED BY <1>8, <1>9

(***************************************************************************)
(* What a step does to the table, for the consumer and the workers alike.  *)
(***************************************************************************)
\* How a commit may change a row that it has locked.
RowStep(old, new) ==
  \/ new = old
  \/ old.status = "queued" /\ new.status = "running" /\ new.result = old.result
  \/ /\ old.status = "running" /\ old.claimed_at = "old"
     /\ new.status \in {"queued", "failed"} /\ new.result = old.result
  \/ /\ old.status \in {"queued", "running"} /\ new.status = "failed"
     /\ new.result = old.result /\ new.attempt_count = old.attempt_count
  \/ /\ old.status = "running" /\ new.status = "succeeded"
     /\ new.result # 0 /\ new.attempt_count = old.attempt_count

\* The lock that a call of p takes on a row fits the call.
Fits(p, j) ==
  IF p = Consumer
  THEN /\ current' = j
       /\ \/ pc' = "starting" /\ jobs[j].status = "queued"
          \/ pc' = "succeeding" /\ jobs[j].status = "running"
          \/ pc' = "failing" /\ jobs[j].status \in FromQueuedOrRunning
  ELSE \/ wpc'[p] = "recovering" /\ jobs[j].status = "running" /\ jobs[j].claimed_at = "old"
       \/ /\ claimed'[p] = j
          /\ \/ wpc'[p] = "claiming" /\ jobs[j].status = "queued"
             \/ wpc'[p] = "succeeding" /\ jobs[j].status = "running"
             \/ wpc'[p] = "failing" /\ jobs[j].status \in FromQueuedOrRunning

\* No outcome is recorded.
NoOutcome ==
  \A j \in Jobs : /\ audit'[j]["succeeded"] = audit[j]["succeeded"]
                  /\ audit'[j]["failed"] = audit[j]["failed"]

\* A worker records the outcome that it has committed before.
Records(p) ==
  /\ p # Consumer
  /\ wpc[p] \in Terminal
  /\ Record(claimed[p], wpc[p])

\* p is in no transaction, before and after.
Quiet(p) ==
  /\ ~InTransaction(p) /\ ~InTransaction(p)'
  /\ UNCHANGED <<jobs, tx>>
  /\ NoOutcome \/ Records(p)

\* No process moves.
Aside ==
  /\ UNCHANGED <<jobs, tx, pc, current, wpc, claimed, attempt>>
  /\ NoOutcome

\* p locks the rows in S, which nobody has locked.
Loads(p, S) ==
  /\ Load(p, S) /\ UNCHANGED jobs
  /\ \A j \in S : ~Locked(j) /\ Fits(p, j)
  /\ p = Consumer => current' \in S
  /\ p # Consumer /\ wpc'[p] \in HoldsClaim => claimed'[p] \in S
  /\ NoOutcome

\* p's transaction ends, and only rows that it has locked may change.
Stored(p) ==
  /\ Released(p)
  /\ \A j \in Jobs : /\ ~Holds(p, j) => jobs'[j] = jobs[j]
                     /\ RowStep(jobs[j], jobs'[j])
                     /\ p # Consumer => jobs'[j] = jobs[j] \/ ~StartedByConsumer(j)'

\* p's call ends; the event that is recorded is the status it stored.
Writes(p) ==
  /\ ~InTransaction(p)'
  /\ Stored(p)
  /\ \/ NoOutcome
     \/ \E j \in Jobs : Holds(p, j) /\ Record(j, jobs'[j].status)

\* A worker that is to record an outcome has just committed it, or is signalled.
Commits(p) ==
  p # Consumer /\ wpc'[p] \in Terminal =>
    \/ Aside
    \/ /\ claimed'[p] = claimed[p] /\ claimed[p] \in Jobs /\ Holds(p, claimed[p])
       /\ jobs'[claimed[p]].status = wpc'[p]
       /\ NoOutcome

\* A step of p.
TableStep(p) ==
  /\ OthersStay(p)
  /\ Commits(p)
  /\ \/ Quiet(p)
     \/ Aside
     \/ \E S \in SUBSET Jobs : Loads(p, S)
     \/ Writes(p)

\* A row that a transaction has locked is as it was loaded, but for its age.
LEMMA LockedRow ==
  ASSUME MixedInv, NEW p \in Processes, NEW j \in Jobs, Holds(p, j)
  PROVE  /\ LockOK(p, j)
         /\ tx[p][j] \in Row /\ jobs[j] \in Row
         /\ jobs[j].status = tx[p][j].status
         /\ jobs[j].attempt_count = tx[p][j].attempt_count
         /\ jobs[j].result = tx[p][j].result
         /\ tx[p][j].claimed_at = "old" => jobs[j].claimed_at = "old"
         /\ jobs[j].status \in {"queued", "running"}
<1>1. LockOK(p, j) /\ tx[p][j] \in Row /\ jobs[j] \in Row
  BY DEF MixedInv, MixedLocksOK, TypeOK, RepositoryTypeOK
<1>2. Worker!SameButOlder(tx[p][j], jobs[j])
  BY <1>1 DEF LockOK
<1>3. tx[p][j].status \in {"queued", "running"}
  BY <1>1 DEF LockOK, ConsumerLockOK, WorkerLockOK, FromQueuedOrRunning
<1> QED BY <1>1, <1>2, <1>3 DEF Worker!SameButOlder

\* What the commits write is a permitted change of the rows they have locked.
LEMMA CommitRows ==
  ASSUME MixedInv, NEW p \in Processes, NEW j \in Jobs, Holds(p, j)
  PROVE  /\ tx[p][j].status = "queued" =>
              /\ RowStep(jobs[j], Claimed(tx[p][j])) /\ Claimed(tx[p][j]).status = "running"
              /\ RowStep(jobs[j], Started(tx[p][j])) /\ Started(tx[p][j]).status = "running"
         /\ tx[p][j].status = "running" /\ tx[p][j].claimed_at = "old" =>
              RowStep(jobs[j], Recovered(tx[p][j]))
         /\ tx[p][j].status = "running" =>
              \A r \in Nat \ {0} : /\ RowStep(jobs[j], Succeeded(tx[p][j], r))
                                   /\ Succeeded(tx[p][j], r).status = "succeeded"
         /\ RowStep(jobs[j], Failed(tx[p][j])) /\ Failed(tx[p][j]).status = "failed"
<1>1. /\ jobs[j].status = tx[p][j].status
      /\ jobs[j].attempt_count = tx[p][j].attempt_count
      /\ jobs[j].result = tx[p][j].result
      /\ tx[p][j].claimed_at = "old" => jobs[j].claimed_at = "old"
      /\ jobs[j].status \in {"queued", "running"}
  BY LockedRow
<1>2. /\ Claimed(tx[p][j]).status = "running" /\ Claimed(tx[p][j]).result = tx[p][j].result
      /\ Started(tx[p][j]).status = "running" /\ Started(tx[p][j]).result = tx[p][j].result
  BY DEF Claimed, Started
<1>3. /\ Recovered(tx[p][j]).status \in {"queued", "failed"}
      /\ Recovered(tx[p][j]).result = tx[p][j].result
  BY DEF Recovered
<1>4. \A r \in Nat \ {0} :
        /\ Succeeded(tx[p][j], r).status = "succeeded"
        /\ Succeeded(tx[p][j], r).result # 0
        /\ Succeeded(tx[p][j], r).attempt_count = tx[p][j].attempt_count
  BY DEF Succeeded
<1>5. /\ Failed(tx[p][j]).status = "failed" /\ Failed(tx[p][j]).result = tx[p][j].result
      /\ Failed(tx[p][j]).attempt_count = tx[p][j].attempt_count
  BY DEF Failed
<1>6. tx[p][j].status = "queued" =>
        RowStep(jobs[j], Claimed(tx[p][j])) /\ RowStep(jobs[j], Started(tx[p][j]))
  BY <1>1, <1>2 DEF RowStep
<1>7. tx[p][j].status = "running" /\ tx[p][j].claimed_at = "old" =>
        RowStep(jobs[j], Recovered(tx[p][j]))
  BY <1>1, <1>3 DEF RowStep
<1>8. tx[p][j].status = "running" =>
        \A r \in Nat \ {0} : RowStep(jobs[j], Succeeded(tx[p][j], r))
  BY <1>1, <1>4 DEF RowStep
<1>9. RowStep(jobs[j], Failed(tx[p][j]))
  BY <1>1, <1>5 DEF RowStep
<1> QED BY <1>2, <1>4, <1>5, <1>6, <1>7, <1>8, <1>9

\* Recording other events than an outcome.
LEMMA RecordRunning ==
  ASSUME TypeOK, NEW j, NEW e \in {"queued", "running"}, Record(j, e)
  PROVE  NoOutcome
<1>1. audit' = [audit EXCEPT ![j] = [audit[j] EXCEPT ![e] = audit[j][e] + 1]]
  BY DEF Record
<1>2. \A i \in Jobs : audit[i] \in [AuditEvents -> Nat]
  BY DEF TypeOK
<1>3. "succeeded" \in AuditEvents /\ "failed" \in AuditEvents
  BY DEF AuditEvents
<1>4. ASSUME NEW i \in Jobs
      PROVE  /\ audit'[i]["succeeded"] = audit[i]["succeeded"]
             /\ audit'[i]["failed"] = audit[i]["failed"]
  <2>1. CASE i = j
    <3>1. audit'[i] = [audit[i] EXCEPT ![e] = audit[i][e] + 1]
      BY <1>1, <2>1 DEF TypeOK
    <3> QED BY <1>2, <1>3, <3>1
  <2>2. CASE i # j
    BY <1>1, <2>2 DEF TypeOK
  <2> QED BY <2>1, <2>2
<1> QED BY <1>4 DEF NoOutcome

\* Who has locked a row is in a transaction.
LEMMA LockersAreBusy ==
  ASSUME MixedInv, NEW p \in Processes, NEW j \in Jobs, Holds(p, j)
  PROVE  InTransaction(p) /\ \A q \in Processes : Holds(q, j) => q = p
<1>1. LockOK(p, j)
  BY DEF MixedInv, MixedLocksOK
<1>2. CASE p = Consumer
  BY <1>1, <1>2 DEF LockOK, ConsumerLockOK, InTransaction
<1>3. CASE p # Consumer
  BY <1>1, <1>3 DEF LockOK, WorkerLockOK, InTransaction, Worker!InTransaction
<1> QED BY <1>1, <1>2, <1>3 DEF LockOK

\* A lock that nobody touches, of a process that does not move, stays right.
LEMMA LockStays ==
  ASSUME NEW p \in Processes, NEW j \in Jobs, LockOK(p, j),
         tx'[p] = tx[p], jobs'[j] = jobs[j],
         p = Consumer => UNCHANGED <<pc, current>>,
         p # Consumer => wpc'[p] = wpc[p] /\ claimed'[p] = claimed[p],
         \A q \in Processes : Holds(q, j)' => q = p
  PROVE  LockOK(p, j)'
<1>1. Worker!SameButOlder(tx[p][j], jobs[j])'
  BY DEF LockOK, Worker!SameButOlder
<1>2. CASE p = Consumer
  <2>1. ConsumerLockOK(j)'
    BY <1>2 DEF LockOK, ConsumerLockOK
  <2> QED BY <1>1, <1>2, <2>1 DEF LockOK
<1>3. CASE p # Consumer
  <2>1. WorkerLockOK(p, j)'
    BY <1>3 DEF LockOK, WorkerLockOK
  <2> QED BY <1>1, <1>3, <2>1 DEF LockOK
<1> QED BY <1>2, <1>3

\* A process that p's step does not move.
LEMMA Unmoved ==
  ASSUME NEW p \in Processes, NEW q \in Processes, q # p, OthersStay(p)
  PROVE  /\ q = Consumer => UNCHANGED <<pc, current>>
         /\ q # Consumer => wpc'[q] = wpc[q] /\ claimed'[q] = claimed[q]
  BY DEF OthersStay, Workers

\* Every step leaves the locks right and with those who are about to commit.
LEMMA LocksStayRight ==
  ASSUME MixedInv, NEW p \in Processes, TableStep(p)
  PROVE  MixedLocksOK' /\ HoldersOK'
<1>0. RepositoryTypeOK
  BY DEF MixedInv, TypeOK
<1>1. /\ InTransaction(Consumer) <=> InCommit
      /\ InTransaction(Consumer)' <=> InCommit'
      /\ \A w \in Workers : wpc[w] \in HoldsClaim => InTransaction(w)
      /\ \A w \in Workers : wpc'[w] \in HoldsClaim => InTransaction(w)'
  BY DEF InTransaction, InCommit, Workers, HoldsClaim, Worker!InTransaction
<1>2. ASSUME NEW q \in Processes, q # p, tx'[q] = tx[q], NEW j \in Jobs, Holds(q, j)',
             jobs'[j] = jobs[j], \A r \in Processes : Holds(r, j)' => r = q
      PROVE  LockOK(q, j)'
  <2>1. LockOK(q, j)
    BY <1>2 DEF MixedInv, MixedLocksOK, Holds
  <2>2. /\ q = Consumer => UNCHANGED <<pc, current>>
        /\ q # Consumer => wpc'[q] = wpc[q] /\ claimed'[q] = claimed[q]
    BY <1>2, Unmoved DEF TableStep
  <2> QED BY <1>2, <2>1, <2>2, LockStays
<1>3. CASE Quiet(p) \/ Aside
  <2>0. UNCHANGED <<jobs, tx>>
    BY <1>3 DEF Quiet, Aside
  <2>1. ASSUME NEW q \in Processes, NEW j \in Jobs, Holds(q, j)'
        PROVE  LockOK(q, j)'
    <3>1. Holds(q, j)
      BY <2>0, <2>1 DEF Holds
    <3>2. InTransaction(q) /\ \A r \in Processes : Holds(r, j)' => r = q
      BY <2>0, <3>1, LockersAreBusy DEF Holds
    <3>3. CASE Quiet(p)
      BY <1>2, <2>0, <2>1, <3>2, <3>3 DEF Quiet
    <3>4. CASE Aside
      BY <2>0, <3>1, <3>2, <3>4, LockStays DEF Aside, MixedInv, MixedLocksOK
    <3> QED BY <1>3, <3>3, <3>4
  <2>2. InCommit' => Holds(Consumer, current)'
    <3> SUFFICES ASSUME InCommit'
                 PROVE  UNCHANGED <<pc, current>>
      BY <2>0 DEF MixedInv, HoldersOK, Holds, InCommit
    <3> QED BY <1>1, <1>3, Unmoved, ConsumerAssumption DEF Quiet, Aside, TableStep
  <2>3. ASSUME NEW w \in Workers, wpc'[w] \in HoldsClaim
        PROVE  Holds(w, claimed[w])'
    <3>1. w \in Processes /\ w # Consumer
      BY DEF Workers
    <3>2. wpc'[w] = wpc[w] /\ claimed'[w] = claimed[w]
      BY <1>1, <1>3, <2>3, <3>1, Unmoved DEF Quiet, Aside, TableStep
    <3> QED BY <2>0, <2>3, <3>2 DEF MixedInv, HoldersOK, Holds
  <2> QED BY <2>1, <2>2, <2>3 DEF MixedLocksOK, HoldersOK
<1>4. ASSUME NEW S \in SUBSET Jobs, Loads(p, S)
      PROVE  MixedLocksOK' /\ HoldersOK'
  <2>0. /\ \A j \in Jobs : tx'[p][j] = IF j \in S THEN jobs[j] ELSE NoRow
        /\ \A v \in Processes \ {p} : tx'[v] = tx[v]
        /\ jobs' = jobs
    BY <1>0, <1>4, LoadPointwise DEF Loads
  <2>1. ASSUME NEW j \in S
        PROVE  /\ Holds(p, j)'
               /\ \A q \in Processes : Holds(q, j)' => q = p
               /\ LockOK(p, j)'
    <3>1. j \in Jobs /\ Fits(p, j) /\ ~Locked(j) /\ tx'[p][j] = jobs[j]
      BY <1>4, <2>0 DEF Loads
    <3>2. jobs[j].status # "absent"
      BY <3>1 DEF Fits, FromQueuedOrRunning
    <3>3. Holds(p, j)'
      BY <3>1, <3>2 DEF Holds, NoRow
    <3>4. \A q \in Processes : Holds(q, j)' => q = p
      BY <2>0, <3>1 DEF Locked, Holds
    <3>5. Worker!SameButOlder(tx[p][j], jobs[j])'
      BY <2>0, <3>1 DEF Worker!SameButOlder
    <3>6. CASE p = Consumer
      <4>1. ConsumerLockOK(j)'
        BY <3>1, <3>6 DEF Fits, ConsumerLockOK
      <4> QED BY <3>3, <3>4, <3>5, <3>6, <4>1 DEF LockOK
    <3>7. CASE p # Consumer
      <4>1. WorkerLockOK(p, j)'
        BY <3>1, <3>7 DEF Fits, WorkerLockOK
      <4> QED BY <3>3, <3>4, <3>5, <3>7, <4>1 DEF LockOK
    <3> QED BY <3>3, <3>4, <3>6, <3>7
  <2>2. ASSUME NEW q \in Processes, NEW j \in Jobs, Holds(q, j)'
        PROVE  LockOK(q, j)'
    <3>1. CASE q = p
      BY <2>0, <2>1, <2>2, <3>1 DEF Holds
    <3>2. CASE q # p
      <4>1. Holds(q, j)
        BY <2>0, <2>2, <3>2 DEF Holds
      <4>2. j \notin S
        BY <1>4, <4>1 DEF Loads, Locked
      <4>3. \A r \in Processes : Holds(r, j) => r = q
        BY <4>1, LockersAreBusy
      <4>4. \A r \in Processes : Holds(r, j)' => r = q
        BY <2>0, <4>2, <4>3 DEF Holds
      <4> QED BY <1>2, <2>0, <2>2, <3>2, <4>4
    <3> QED BY <3>1, <3>2
  <2>3. InCommit' => Holds(Consumer, current)'
    <3>1. CASE p = Consumer
      BY <1>4, <2>1, <3>1 DEF Loads
    <3>2. CASE p # Consumer
      <4>1. UNCHANGED <<pc, current>> /\ tx'[Consumer] = tx[Consumer]
        BY <2>0, <3>2, Unmoved, ConsumerAssumption DEF TableStep
      <4> QED BY <4>1 DEF MixedInv, HoldersOK, Holds, InCommit
    <3> QED BY <3>1, <3>2
  <2>4. ASSUME NEW w \in Workers, wpc'[w] \in HoldsClaim
        PROVE  Holds(w, claimed[w])'
    <3>0. w \in Processes /\ w # Consumer
      BY DEF Workers
    <3>1. CASE p = w
      BY <1>4, <2>1, <2>4, <3>0, <3>1 DEF Loads
    <3>2. CASE p # w
      <4>1. wpc'[w] = wpc[w] /\ claimed'[w] = claimed[w] /\ tx'[w] = tx[w]
        BY <2>0, <3>0, <3>2, Unmoved DEF TableStep
      <4> QED BY <2>4, <4>1 DEF MixedInv, HoldersOK, Holds
    <3> QED BY <3>1, <3>2
  <2> QED BY <2>2, <2>3, <2>4 DEF MixedLocksOK, HoldersOK
<1>5. CASE Writes(p)
  <2>0. /\ \A j \in Jobs : tx'[p][j] = NoRow
        /\ \A v \in Processes \ {p} : tx'[v] = tx[v]
        /\ \A j \in Jobs : ~Holds(p, j) => jobs'[j] = jobs[j]
        /\ ~InTransaction(p)'
    BY <1>5 DEF Writes, Stored, Released
  <2>1. ASSUME NEW q \in Processes, NEW j \in Jobs, Holds(q, j)'
        PROVE  LockOK(q, j)'
    <3>1. q # p
      BY <2>0, <2>1 DEF Holds
    <3>2. Holds(q, j)
      BY <2>0, <2>1, <3>1 DEF Holds
    <3>3. \A r \in Processes : Holds(r, j) => r = q
      BY <3>2, LockersAreBusy
    <3>4. \A r \in Processes : Holds(r, j)' => r = q
      BY <2>0, <3>3 DEF Holds
    <3> QED BY <1>2, <2>0, <2>1, <3>1, <3>3, <3>4
  <2>2. InCommit' => Holds(Consumer, current)'
    <3> SUFFICES ASSUME InCommit'
                 PROVE  UNCHANGED <<pc, current>> /\ tx'[Consumer] = tx[Consumer]
      BY DEF MixedInv, HoldersOK, Holds, InCommit
    <3> QED BY <1>1, <2>0, Unmoved, ConsumerAssumption DEF TableStep
  <2>3. ASSUME NEW w \in Workers, wpc'[w] \in HoldsClaim
        PROVE  Holds(w, claimed[w])'
    <3>1. w \in Processes /\ w # Consumer /\ w # p
      BY <1>1, <2>0, <2>3 DEF Workers
    <3>2. wpc'[w] = wpc[w] /\ claimed'[w] = claimed[w] /\ tx'[w] = tx[w]
      BY <2>0, <3>1, Unmoved DEF TableStep
    <3> QED BY <2>3, <3>2 DEF MixedInv, HoldersOK, Holds
  <2> QED BY <2>1, <2>2, <2>3 DEF MixedLocksOK, HoldersOK
<1> QED BY <1>3, <1>4, <1>5 DEF TableStep

\* Every step leaves the rows and the audit log in agreement.
LEMMA OutcomesStayRight ==
  ASSUME MixedInv, TypeOK', NEW p \in Processes, TableStep(p), NEW j \in Jobs
  PROVE  ResultOK(jobs'[j]) /\ AuditOK(j)'
<1>0. /\ ResultOK(jobs[j]) /\ AuditOK(j)
      /\ audit[j]["succeeded"] \in Nat /\ audit[j]["failed"] \in Nat
  BY DEF MixedInv, TypeOK, AuditEvents
<1>1. RowStep(jobs[j], jobs'[j])
  BY DEF TableStep, Quiet, Aside, Loads, Writes, Stored, RowStep
<1>2. /\ jobs[j].status \in Terminal => jobs'[j] = jobs[j]
      /\ ResultOK(jobs'[j])
  BY <1>0, <1>1 DEF RowStep, ResultOK, Terminal
<1>3. CASE /\ audit'[j]["succeeded"] = audit[j]["succeeded"]
           /\ audit'[j]["failed"] = audit[j]["failed"]
  BY <1>0, <1>2, <1>3 DEF AuditOK, Terminal
<1>4. CASE Holds(p, j) /\ Record(j, jobs'[j].status)
  <2>1. jobs[j].status \in {"queued", "running"}
    BY <1>4, LockedRow
  <2>2. audit[j]["succeeded"] = 0 /\ audit[j]["failed"] = 0
    BY <1>0, <2>1 DEF AuditOK, Terminal
  <2>3. audit'[j] = [audit[j] EXCEPT ![jobs'[j].status] = audit[j][jobs'[j].status] + 1]
    BY <1>4 DEF Record, MixedInv, TypeOK
  <2>4. /\ audit[j] \in [AuditEvents -> Nat]
        /\ "succeeded" \in AuditEvents /\ "failed" \in AuditEvents
    BY DEF MixedInv, TypeOK, AuditEvents
  <2>5. /\ audit'[j]["succeeded"] = IF jobs'[j].status = "succeeded" THEN 1 ELSE 0
        /\ audit'[j]["failed"] = IF jobs'[j].status = "failed" THEN 1 ELSE 0
    BY <2>2, <2>3, <2>4
  <2>6. /\ jobs'[j].status \notin Terminal =>
             audit'[j]["succeeded"] = 0 /\ audit'[j]["failed"] = 0
        /\ audit'[j]["succeeded"] + audit'[j]["failed"] <= 1
    BY <2>5 DEF Terminal
  <2>7. \A s \in Terminal : audit'[j][s] = 1 => jobs'[j].status = s
    BY <2>5 DEF Terminal
  <2> QED BY <1>2, <2>6, <2>7 DEF AuditOK
<1>5. ASSUME NEW i \in Jobs, i # j, NEW e, Record(i, e)
      PROVE  audit'[j] = audit[j]
  BY <1>5 DEF Record, MixedInv, TypeOK
<1>6. CASE Records(p) /\ jobs' = jobs
  <2>1. /\ wpc[p] \in Terminal /\ claimed[p] \in Jobs
        /\ jobs[claimed[p]].status = wpc[p] /\ Record(claimed[p], wpc[p])
        /\ audit[claimed[p]]["succeeded"] = 0 /\ audit[claimed[p]]["failed"] = 0
    BY <1>6 DEF Records, MixedInv, RefreshesOK, Workers
  <2>2. CASE claimed[p] # j
    BY <1>3, <1>5, <2>1, <2>2
  <2>3. CASE claimed[p] = j
    <3>1. audit'[j] = [audit[j] EXCEPT ![wpc[p]] = audit[j][wpc[p]] + 1]
      BY <2>1, <2>3 DEF Record, MixedInv, TypeOK
    <3>2. /\ audit[j] \in [AuditEvents -> Nat]
          /\ "succeeded" \in AuditEvents /\ "failed" \in AuditEvents
      BY DEF MixedInv, TypeOK, AuditEvents
    <3>3. /\ audit'[j]["succeeded"] = IF wpc[p] = "succeeded" THEN 1 ELSE 0
          /\ audit'[j]["failed"] = IF wpc[p] = "failed" THEN 1 ELSE 0
      BY <2>1, <2>3, <3>1, <3>2
    <3>4. jobs'[j].status = wpc[p]
      BY <1>6, <2>1, <2>3
    <3>5. audit'[j]["succeeded"] + audit'[j]["failed"] <= 1
      BY <3>3
    <3>6. \A s \in Terminal : audit'[j][s] = 1 => jobs'[j].status = s
      BY <3>3, <3>4 DEF Terminal
    <3> QED BY <1>2, <2>1, <3>4, <3>5, <3>6 DEF AuditOK
  <2> QED BY <2>2, <2>3
<1> QED BY <1>2, <1>3, <1>4, <1>5, <1>6 DEF TableStep, Quiet, Aside, Loads, Writes, NoOutcome

\* Every step leaves those right that are still to record their outcome.
LEMMA RefreshesStayRight ==
  ASSUME MixedInv, NEW p \in Processes, TableStep(p)
  PROVE  RefreshesOK'
<1> SUFFICES ASSUME NEW v \in Workers, wpc'[v] \in Terminal
             PROVE  /\ claimed'[v] \in Jobs
                    /\ jobs'[claimed'[v]].status = wpc'[v]
                    /\ audit'[claimed'[v]]["succeeded"] = 0
                    /\ audit'[claimed'[v]]["failed"] = 0
                    /\ \A u \in Workers :
                         wpc'[u] \in Terminal /\ claimed'[u] = claimed'[v] => u = v
  BY DEF RefreshesOK
<1>0. v \in Processes /\ v # Consumer
  BY DEF Workers
<1>o. \A u \in Workers :
        wpc[u] \in Terminal =>
          /\ claimed[u] \in Jobs
          /\ jobs[claimed[u]].status = wpc[u]
          /\ audit[claimed[u]]["succeeded"] = 0 /\ audit[claimed[u]]["failed"] = 0
          /\ \A x \in Workers : wpc[x] \in Terminal /\ claimed[x] = claimed[u] => x = u
  BY DEF MixedInv, RefreshesOK
<1>m. \A u \in Workers : u # p => wpc'[u] = wpc[u] /\ claimed'[u] = claimed[u]
  BY Unmoved DEF TableStep, Workers
<1>1. CASE Aside
  <2>1. UNCHANGED <<jobs, wpc, claimed>>
    BY <1>1 DEF Aside
  <2> QED BY <1>1, <1>o, <2>1 DEF Aside, NoOutcome
<1>2. CASE v = p /\ ~Aside
  <2>1. /\ claimed'[p] = claimed[p] /\ claimed[p] \in Jobs /\ Holds(p, claimed[p])
        /\ jobs'[claimed[p]].status = wpc'[p]
        /\ NoOutcome
    BY <1>0, <1>2 DEF TableStep, Commits
  <2>2. jobs[claimed[p]].status \notin Terminal
    BY <2>1, LockedRow DEF Terminal
  <2>3. audit[claimed[p]]["succeeded"] = 0 /\ audit[claimed[p]]["failed"] = 0
    BY <2>1, <2>2 DEF MixedInv, AuditOK
  <2>4. audit'[claimed[p]]["succeeded"] = 0 /\ audit'[claimed[p]]["failed"] = 0
    BY <2>1, <2>3 DEF NoOutcome
  <2>5. ASSUME NEW u \in Workers, wpc'[u] \in Terminal, claimed'[u] = claimed'[v]
        PROVE  u = v
    BY <1>2, <1>m, <1>o, <2>1, <2>2, <2>5
  <2> QED BY <1>2, <2>1, <2>4, <2>5
<1>3. CASE v # p /\ ~Aside
  <2>1. wpc'[v] = wpc[v] /\ claimed'[v] = claimed[v]
    BY <1>3, <1>m
  <2>2. PICK i \in Jobs :
          /\ i = claimed[v] /\ jobs[i].status = wpc[v]
          /\ audit[i]["succeeded"] = 0 /\ audit[i]["failed"] = 0
          /\ \A x \in Workers : wpc[x] \in Terminal /\ claimed[x] = i => x = v
    BY <1>o, <2>1
  <2>3. jobs[i].status \in Terminal /\ ~Holds(p, i)
    BY <2>1, <2>2, LockedRow DEF Terminal
  <2>4. jobs'[i] = jobs[i]
    BY <1>3, <2>3 DEF TableStep, Quiet, Loads, Writes, Stored
  <2>5. ASSUME NEW j \in Jobs, NEW e, Record(j, e), j # i
        PROVE  audit'[i] = audit[i]
    BY <2>5 DEF Record, MixedInv, TypeOK
  <2>6. ASSUME NoOutcome
        PROVE  audit'[i]["succeeded"] = 0 /\ audit'[i]["failed"] = 0
    BY <2>2, <2>6 DEF NoOutcome
  <2>7. ASSUME Records(p)
        PROVE  audit'[i]["succeeded"] = 0 /\ audit'[i]["failed"] = 0
    <3>1. p \in Workers /\ wpc[p] \in Terminal /\ Record(claimed[p], wpc[p])
      BY <2>7 DEF Records, Workers
    <3>2. claimed[p] \in Jobs /\ claimed[p] # i
      BY <1>3, <1>o, <2>2, <3>1
    <3> QED BY <2>2, <2>5, <3>1, <3>2
  <2>8. ASSUME \E j \in Jobs : Holds(p, j) /\ Record(j, jobs'[j].status)
        PROVE  audit'[i]["succeeded"] = 0 /\ audit'[i]["failed"] = 0
    BY <2>2, <2>3, <2>5, <2>8
  <2>9. audit'[i]["succeeded"] = 0 /\ audit'[i]["failed"] = 0
    BY <1>3, <2>2, <2>6, <2>7, <2>8 DEF TableStep, Quiet, Loads, Writes
  <2>10. ASSUME NEW u \in Workers, wpc'[u] \in Terminal, claimed'[u] = i
         PROVE  u = v
    <3>1. CASE u # p
      BY <1>m, <2>2, <2>10, <3>1
    <3>2. CASE u = p
      <4>1. claimed'[p] = claimed[p] /\ Holds(p, claimed[p])
        BY <1>3, <2>10, <3>2 DEF TableStep, Commits, Workers
      <4> QED BY <2>3, <2>10, <3>2, <4>1
    <3> QED BY <3>1, <3>2
  <2> QED BY <2>1, <2>2, <2>4, <2>9, <2>10
<1> QED BY <1>1, <1>2, <1>3

(***************************************************************************)
(* The steps of the workers and of the consumer are such steps.            *)
(***************************************************************************)
\* A commit or a rollback that ends a transaction of p.
LEMMA Storing ==
  ASSUME MixedInv, NEW p \in Processes
  PROVE  /\ Rollback(p) => Stored(p)
         /\ \A changed :
              /\ Commit(p, changed)
              /\ \A j \in Jobs : Holds(p, j) =>
                   /\ RowStep(jobs[j], changed[j])
                   /\ p # Consumer =>
                        ~(changed[j].status = "running" /\ changed[j].claimed_at = "null")
              => Stored(p) /\ \A j \in Jobs : Holds(p, j) => jobs'[j] = changed[j]
<1>0. RepositoryTypeOK
  BY DEF MixedInv, TypeOK
<1>1. Rollback(p) => Stored(p)
  BY <1>0, CommitPointwise DEF Stored, RowStep
<1>2. ASSUME NEW changed, Commit(p, changed),
             \A j \in Jobs : Holds(p, j) =>
               /\ RowStep(jobs[j], changed[j])
               /\ p # Consumer => ~(changed[j].status = "running" /\ changed[j].claimed_at = "null")
      PROVE  Stored(p) /\ \A j \in Jobs : Holds(p, j) => jobs'[j] = changed[j]
  <2>1. /\ \A j \in Jobs : jobs'[j] = IF Holds(p, j) THEN changed[j] ELSE jobs[j]
        /\ Released(p)
    BY <1>0, <1>2, CommitPointwise
  <2>2. \A j \in Jobs : /\ ~Holds(p, j) => jobs'[j] = jobs[j]
                        /\ RowStep(jobs[j], jobs'[j])
                        /\ p # Consumer => jobs'[j] = jobs[j] \/ ~StartedByConsumer(j)'
    BY <1>2, <2>1 DEF RowStep, StartedByConsumer
  <2> QED BY <2>1, <2>2 DEF Stored
<1> QED BY <1>1, <1>2

\* What a worker that is about to commit has locked, and what it stores.
LEMMA WorkerCommits ==
  ASSUME MixedInv, NEW w \in Workers
  PROVE  /\ wpc[w] \in HoldsClaim => claimed[w] \in Jobs /\ Holds(w, claimed[w])
         /\ wpc[w] = "recovering" /\ CommitRecovery(w) => Stored(w)
         /\ wpc[w] = "claiming" /\ CommitClaim(w) => Stored(w)
         /\ wpc[w] = "succeeding" /\ CommitSucceeded(w, attempt[w]) =>
              Stored(w) /\ jobs'[claimed[w]].status = "succeeded"
         /\ wpc[w] = "failing" /\ CommitFailed(w) =>
              Stored(w) /\ jobs'[claimed[w]].status = "failed"
<1>0. w \in Processes /\ w # Consumer
  BY DEF Workers
<1>1. wpc[w] \in HoldsClaim => claimed[w] \in Jobs /\ attempt[w] > 0 /\ Holds(w, claimed[w])
  BY DEF MixedInv, HandlersOK, HoldersOK, HoldsClaim, Worker!Processing
<1>2. ASSUME NEW j \in Jobs, Holds(w, j)
      PROVE  /\ wpc[w] = "recovering" =>
                  tx[w][j].status = "running" /\ tx[w][j].claimed_at = "old"
             /\ wpc[w] = "claiming" => tx[w][j].status = "queued"
             /\ wpc[w] = "succeeding" => tx[w][j].status = "running"
  BY <1>0, <1>2, LockedRow DEF LockOK, WorkerLockOK
<1>3. ASSUME wpc[w] = "recovering", CommitRecovery(w)
      PROVE  Stored(w)
  <2>1. \A j \in Jobs : Holds(w, j) =>
          RowStep(jobs[j], Recovered(tx[w][j])) /\ Recovered(tx[w][j]).status # "running"
    BY <1>0, <1>2, <1>3, CommitRows DEF Recovered
  <2> QED BY <1>0, <1>3, <2>1, Storing DEF CommitRecovery
<1>4. ASSUME wpc[w] = "claiming", CommitClaim(w)
      PROVE  Stored(w)
  <2>1. \A j \in Jobs : Holds(w, j) =>
          RowStep(jobs[j], Claimed(tx[w][j])) /\ Claimed(tx[w][j]).claimed_at # "null"
    BY <1>0, <1>2, <1>4, CommitRows DEF Claimed
  <2> QED BY <1>0, <1>4, <2>1, Storing DEF CommitClaim
<1>5. ASSUME wpc[w] = "succeeding", CommitSucceeded(w, attempt[w])
      PROVE  Stored(w) /\ jobs'[claimed[w]].status = "succeeded"
  <2>1. attempt[w] \in Nat \ {0} /\ claimed[w] \in Jobs /\ Holds(w, claimed[w])
    BY <1>0, <1>1, <1>5 DEF MixedInv, WorkerTypeOK, HoldsClaim
  <2>2. \A j \in Jobs : Holds(w, j) =>
          /\ RowStep(jobs[j], Succeeded(tx[w][j], attempt[w]))
          /\ Succeeded(tx[w][j], attempt[w]).status = "succeeded"
    BY <1>0, <1>2, <1>5, <2>1, CommitRows
  <2>3. Stored(w) /\ \A j \in Jobs : Holds(w, j) => jobs'[j] = Succeeded(tx[w][j], attempt[w])
    BY <1>0, <1>5, <2>2, Storing DEF CommitSucceeded
  <2> QED BY <2>1, <2>2, <2>3
<1>6. ASSUME wpc[w] = "failing", CommitFailed(w)
      PROVE  Stored(w) /\ jobs'[claimed[w]].status = "failed"
  <2>1. claimed[w] \in Jobs /\ Holds(w, claimed[w])
    BY <1>1, <1>6 DEF HoldsClaim
  <2>2. \A j \in Jobs : Holds(w, j) =>
          RowStep(jobs[j], Failed(tx[w][j])) /\ Failed(tx[w][j]).status = "failed"
    BY <1>0, CommitRows
  <2>3. Stored(w) /\ \A j \in Jobs : Holds(w, j) => jobs'[j] = Failed(tx[w][j])
    BY <1>0, <1>6, <2>2, Storing DEF CommitFailed
  <2> QED BY <2>1, <2>2, <2>3
<1> QED BY <1>1, <1>3, <1>4, <1>5, <1>6

\* A step of a worker that takes no lock and ends no transaction.
LEMMA WorkerQuiet ==
  ASSUME MixedInv, NEW w \in Workers,
         \/ Worker!ClaimNone(w) \/ Worker!Score(w) \/ Worker!SucceedRejected(w)
         \/ Worker!FailRejected(w) \/ Worker!Exit(w) \/ Worker!Start(w)
  PROVE  Quiet(w) /\ Commits(w)
<1>0. w \in Processes /\ w # Consumer /\ WorkerTypeOK
  BY DEF Workers, MixedInv
<1>1. UNCHANGED <<jobs, tx, audit>>
  BY DEF Worker!ClaimNone, Worker!Score, Worker!SucceedRejected, Worker!FailRejected,
         Worker!Exit, Worker!Start, Worker!TransitionRejected, Worker!repositoryVars,
         Worker!apiVars
<1>2. wpc[w] \in {"claim", "scoring", "succeed", "fail", "poll", "dead", "down"}
  BY DEF Worker!ClaimNone, Worker!Score, Worker!SucceedRejected, Worker!FailRejected,
         Worker!Exit, Worker!Start
<1>3. wpc'[w] \in {"poll", "succeed", "fail", "dead", "down"}
  <2>1. \E l \in {"poll", "succeed", "fail", "dead", "down"} :
          Worker!Goto(w, l) \/ Worker!Leave(w, l)
    BY DEF Worker!ClaimNone, Worker!Score, Worker!SucceedRejected, Worker!FailRejected,
           Worker!Exit, Worker!Start
  <2> QED BY <1>0, <2>1, WorkerAssigns
<1>4. ~InTransaction(w) /\ ~InTransaction(w)'
  BY <1>0, <1>2, <1>3 DEF InTransaction, Worker!InTransaction
<1> QED BY <1>1, <1>3, <1>4 DEF Quiet, NoOutcome, Commits, Terminal

\* A worker records the outcome that it has committed.
LEMMA WorkerRecords ==
  ASSUME MixedInv, NEW w \in Workers, Worker!SucceedRefresh(w) \/ Worker!FailRefresh(w)
  PROVE  Quiet(w) /\ Commits(w)
<1>0. w \in Processes /\ w # Consumer /\ WorkerTypeOK
  BY DEF Workers, MixedInv
<1>1. /\ UNCHANGED <<jobs, tx>> /\ wpc[w] \in Terminal
      /\ Record(claimed[w], wpc[w])
  BY DEF Worker!SucceedRefresh, Worker!FailRefresh, Worker!repositoryVars, Worker!Record,
         Record, Terminal
<1>2. wpc'[w] \in {"poll", "dead"}
  <2>1. \E l \in {"poll", "dead"} : Worker!Leave(w, l)
    BY DEF Worker!SucceedRefresh, Worker!FailRefresh
  <2> QED BY <1>0, <2>1, WorkerAssigns
<1>3. ~InTransaction(w) /\ ~InTransaction(w)'
  BY <1>0, <1>1, <1>2 DEF InTransaction, Worker!InTransaction, Terminal
<1> QED BY <1>0, <1>1, <1>2, <1>3 DEF Quiet, Records, Commits, Terminal

\* A SELECT FOR UPDATE of a worker.
LEMMA WorkerLoads ==
  ASSUME MixedInv, NEW w \in Workers,
         \/ Worker!RecoverSelect(w) \/ Worker!ClaimSelect(w)
         \/ Worker!SucceedSelect(w) \/ Worker!FailSelect(w)
  PROVE  (\E S \in SUBSET Jobs : Loads(w, S)) /\ Commits(w)
<1>0. w \in Processes /\ w # Consumer /\ WorkerTypeOK
  BY DEF Workers, MixedInv
<1>1. NoOutcome
  BY DEF Worker!RecoverSelect, Worker!ClaimSelect, Worker!SucceedSelect,
         Worker!FailSelect, Worker!apiVars, NoOutcome
<1>2. ASSUME Worker!RecoverSelect(w)
      PROVE  \E S \in SUBSET Jobs : Loads(w, S)
  <2>1. wpc'[w] = "recovering" /\ SelectStale(w)
    BY <1>0, <1>2, SameTable, WorkerAssigns DEF Worker!RecoverSelect
  <2>2. \A j \in Stale : ~Locked(j) /\ Fits(w, j)
    BY <1>0, <2>1 DEF Stale, Fits
  <2>3. Stale \in SUBSET Jobs
    BY DEF Stale
  <2>4. Loads(w, Stale)
    BY <1>0, <1>1, <2>1, <2>2 DEF Loads, SelectStale, HoldsClaim
  <2> QED BY <2>3, <2>4
<1>3. ASSUME Worker!ClaimSelect(w)
      PROVE  \E S \in SUBSET Jobs : Loads(w, S)
  <2>1. PICK j \in Jobs : /\ Worker!SelectOldestClaimable(w, j)
                          /\ claimed' = [claimed EXCEPT ![w] = j]
    BY <1>3 DEF Worker!ClaimSelect
  <2>2. wpc'[w] = "claiming" /\ claimed'[w] = j
    BY <1>0, <1>3, <2>1, WorkerAssigns DEF Worker!ClaimSelect, WorkerTypeOK
  <2>3. j \in Claimable /\ Load(w, {j}) /\ UNCHANGED jobs
    BY <2>1, SameTable DEF SelectOldestClaimable, OldestClaimable
  <2>4. ~Locked(j) /\ Fits(w, j)
    BY <1>0, <2>2, <2>3 DEF Claimable, Fits
  <2>5. Loads(w, {j})
    BY <1>0, <1>1, <2>2, <2>3, <2>4 DEF Loads
  <2> QED BY <2>5
<1>4. ASSUME Worker!SucceedSelect(w)
      PROVE  \E S \in SUBSET Jobs : Loads(w, S)
  <2>1. /\ wpc'[w] = "succeeding" /\ claimed'[w] = claimed[w]
        /\ SelectForTransition(w, claimed[w], Worker!FromRunning)
    BY <1>0, <1>4, SameTable, WorkerAssigns DEF Worker!SucceedSelect
  <2>2. claimed[w] \in Jobs
    BY <1>4 DEF MixedInv, HandlersOK, Worker!SucceedSelect, Worker!Processing
  <2>3. ~Locked(claimed[w]) /\ Fits(w, claimed[w])
    BY <1>0, <2>1 DEF SelectForTransition, Worker!FromRunning, Fits
  <2>4. Loads(w, {claimed[w]})
    BY <1>0, <1>1, <2>1, <2>3 DEF Loads, SelectForTransition
  <2> QED BY <2>2, <2>4
<1>5. ASSUME Worker!FailSelect(w)
      PROVE  \E S \in SUBSET Jobs : Loads(w, S)
  <2>1. /\ wpc'[w] = "failing" /\ claimed'[w] = claimed[w]
        /\ SelectForTransition(w, claimed[w], Worker!FromQueuedOrRunning)
    BY <1>0, <1>5, SameTable, WorkerAssigns DEF Worker!FailSelect
  <2>2. claimed[w] \in Jobs
    BY <1>5 DEF MixedInv, HandlersOK, Worker!FailSelect, Worker!Processing
  <2>3. ~Locked(claimed[w]) /\ Fits(w, claimed[w])
    BY <1>0, <2>1
    DEF SelectForTransition, Worker!FromQueuedOrRunning, FromQueuedOrRunning, Fits
  <2>4. Loads(w, {claimed[w]})
    BY <1>0, <1>1, <2>1, <2>3 DEF Loads, SelectForTransition
  <2> QED BY <2>2, <2>4
<1>6. Commits(w)
  <2>1. \E l \in {"recovering", "claiming", "succeeding", "failing"} : Worker!Goto(w, l)
    BY DEF Worker!RecoverSelect, Worker!ClaimSelect, Worker!SucceedSelect, Worker!FailSelect
  <2>2. wpc'[w] \notin Terminal
    BY <1>0, <2>1, WorkerAssigns DEF Terminal
  <2> QED BY <2>2 DEF Commits
<1> QED BY <1>2, <1>3, <1>4, <1>5, <1>6

\* The end of a transaction of a worker.
LEMMA WorkerWrites ==
  ASSUME MixedInv, NEW w \in Workers,
         \/ Worker!RecoverCommit(w) \/ Worker!ClaimCommit(w) \/ Worker!SucceedCommit(w)
         \/ Worker!FailCommit(w) \/ Worker!DatabaseError(w) \/ Worker!AnswerLost(w)
         \/ Worker!Crash(w)
  PROVE  Writes(w) /\ Commits(w)
<1>0. w \in Processes /\ w # Consumer /\ WorkerTypeOK /\ TypeOK
  BY DEF Workers, MixedInv
<1>1. wpc'[w] \in {"claim", "scoring", "succeeded", "failed", "dead", "fail", "down"}
  <2>1. \E l \in {"claim", "scoring", "succeeded", "failed", "dead", "fail", "down"} :
          Worker!Goto(w, l) \/ Worker!Leave(w, l)
    BY DEF Worker!RecoverCommit, Worker!ClaimCommit, Worker!SucceedCommit,
           Worker!FailCommit, Worker!DatabaseError, Worker!AnswerLost, Worker!Crash,
           Worker!Raise
  <2> QED BY <1>0, <2>1, WorkerAssigns
<1>2. ~InTransaction(w)'
  BY <1>0, <1>1 DEF InTransaction, Worker!InTransaction
<1>3. audit' = audit => NoOutcome
  BY DEF NoOutcome
<1>4. ASSUME Worker!RecoverCommit(w)
      PROVE  Writes(w)
  BY <1>2, <1>3, <1>4, SameTable, WorkerCommits DEF Worker!RecoverCommit, Worker!apiVars, Writes
<1>5. ASSUME Worker!ClaimCommit(w)
      PROVE  Writes(w)
  <2>1. Stored(w) /\ Record(claimed[w], "running")
    BY <1>5, SameTable, WorkerCommits DEF Worker!ClaimCommit, Worker!Record, Record
  <2> QED BY <1>0, <1>2, <2>1, RecordRunning DEF Writes
<1>6. CASE Worker!SucceedCommit(w) \/ Worker!FailCommit(w)
  <2>1. /\ Stored(w) /\ NoOutcome /\ wpc[w] \in HoldsClaim /\ claimed' = claimed
        /\ \/ jobs'[claimed[w]].status = "succeeded" /\ Worker!Goto(w, "succeeded")
           \/ jobs'[claimed[w]].status = "failed" /\ Worker!Goto(w, "failed")
    BY <1>3, <1>6, SameTable, WorkerCommits
    DEF Worker!SucceedCommit, Worker!FailCommit, Worker!apiVars, HoldsClaim
  <2>2. jobs'[claimed[w]].status = wpc'[w]
    BY <1>0, <2>1, WorkerAssigns
  <2> QED BY <1>2, <2>1, <2>2, WorkerCommits DEF Writes, Commits
<1>7. ASSUME ~(Worker!SucceedCommit(w) \/ Worker!FailCommit(w))
      PROVE  Commits(w)
  <2>1. \E l \in {"claim", "scoring", "dead", "fail", "down"} :
          Worker!Goto(w, l) \/ Worker!Leave(w, l)
    BY <1>7 DEF Worker!RecoverCommit, Worker!ClaimCommit, Worker!DatabaseError,
                Worker!AnswerLost, Worker!Crash, Worker!Raise
  <2>2. wpc'[w] \notin Terminal
    BY <1>0, <2>1, WorkerAssigns DEF Terminal
  <2> QED BY <2>2 DEF Commits
<1>8. ASSUME Worker!DatabaseError(w) \/ Worker!Crash(w)
      PROVE  Writes(w)
  <2>1. Rollback(w) /\ audit' = audit
    BY <1>8, SameTable DEF Worker!DatabaseError, Worker!Crash, Worker!apiVars
  <2> QED BY <1>0, <1>2, <1>3, <2>1, Storing DEF Writes
<1>9. ASSUME Worker!AnswerLost(w)
      PROVE  Writes(w)
  <2>1. Stored(w) /\ audit' = audit
    BY <1>9, SameTable, WorkerCommits DEF Worker!AnswerLost, Worker!apiVars
  <2> QED BY <1>2, <1>3, <2>1 DEF Writes
<1> QED BY <1>4, <1>5, <1>6, <1>7, <1>8, <1>9

\* A worker that handles a job has one.
LEMMA WorkerHandles ==
  ASSUME MixedInv, NEW w \in Workers, WorkerStep(w) \/ WorkerEnvironment(w)
  PROVE  (wpc'[w] = "claiming" \/ Worker!Processing(w)') =>
           claimed'[w] \in Jobs /\ attempt'[w] > 0
<1>0. w \in Processes /\ w # Consumer /\ WorkerTypeOK /\ RepositoryTypeOK
  BY DEF Workers, MixedInv, TypeOK
<1>1. (wpc[w] = "claiming" \/ Worker!Processing(w)) => claimed[w] \in Jobs /\ attempt[w] > 0
  BY DEF MixedInv, HandlersOK
<1>2. CASE Worker!ClaimSelect(w)
  <2>1. PICK j \in Jobs :
          /\ claimed' = [claimed EXCEPT ![w] = j]
          /\ attempt' = [attempt EXCEPT ![w] = jobs[j].attempt_count + 1]
    BY <1>2 DEF Worker!ClaimSelect
  <2>2. jobs[j].attempt_count \in Nat
    BY <1>0 DEF RepositoryTypeOK, Row
  <2> QED BY <1>0, <2>1, <2>2 DEF WorkerTypeOK
<1>3. CASE \/ Worker!ClaimCommit(w) \/ Worker!Score(w) \/ Worker!SucceedSelect(w)
           \/ Worker!SucceedRejected(w) \/ Worker!SucceedCommit(w) \/ Worker!FailSelect(w)
           \/ Worker!FailCommit(w)
  BY <1>1, <1>3
  DEF Worker!ClaimCommit, Worker!Score, Worker!SucceedSelect, Worker!SucceedRejected,
      Worker!SucceedCommit, Worker!FailSelect, Worker!FailCommit, Worker!Processing
<1>4. CASE Worker!Signal(w)
  BY <1>1, <1>4 DEF Worker!Signal, Worker!Processing
<1>5. CASE \/ Worker!RecoverSelect(w) \/ Worker!RecoverCommit(w) \/ Worker!ClaimNone(w)
           \/ Worker!SucceedRefresh(w) \/ Worker!FailRejected(w) \/ Worker!FailRefresh(w)
           \/ Worker!Exit(w) \/ Worker!Crash(w) \/ Worker!Start(w)
  <2>1. \E l \in {"recovering", "claim", "poll", "dead", "down"} :
          Worker!Goto(w, l) \/ Worker!Leave(w, l)
    BY <1>5
    DEF Worker!RecoverSelect, Worker!RecoverCommit, Worker!ClaimNone, Worker!SucceedRefresh,
        Worker!FailRejected, Worker!FailRefresh, Worker!Exit, Worker!Crash, Worker!Start
  <2>2. wpc'[w] \in {"recovering", "claim", "poll", "dead", "down"}
    BY <1>0, <2>1, WorkerAssigns
  <2> QED BY <2>2 DEF Worker!Processing
<1>6. CASE Worker!DatabaseError(w) \/ Worker!AnswerLost(w)
  <2>1. Worker!Raise(w)
    BY <1>6 DEF Worker!DatabaseError, Worker!AnswerLost
  <2>2. CASE wpc[w] \in {"succeed", "succeeding", "succeeded"}
    BY <1>1, <2>1, <2>2 DEF Worker!Raise, Worker!Processing
  <2>3. CASE wpc[w] \notin {"succeed", "succeeding", "succeeded"}
    BY <1>0, <2>1, <2>3, WorkerAssigns DEF Worker!Raise, Worker!Processing
  <2> QED BY <2>2, <2>3
<1> QED BY <1>2, <1>3, <1>4, <1>5, <1>6
        DEF WorkerStep, WorkerEnvironment, Worker!WorkerStep, Worker!Environment

\* A worker's step.
LEMMA WorkerForms ==
  ASSUME MixedInv, NEW w \in Workers, WorkerStep(w) \/ WorkerEnvironment(w)
  PROVE  TableStep(w)
<1>1. OthersStay(w)
  BY WorkerTypes DEF MixedInv
<1>2. UNCHANGED <<processVars, consumerVars>>
  BY DEF WorkerStep, WorkerEnvironment
<1>3. Worker!Signal(w) => Aside
  BY <1>2
  DEF Worker!Signal, Worker!repositoryVars, Worker!apiVars, Aside, consumerVars, NoOutcome
<1>4. /\ Quiet(w) \/ Aside \/ (\E S \in SUBSET Jobs : Loads(w, S)) \/ Writes(w)
      /\ Commits(w)
  <2>1. Aside => Commits(w)
    BY DEF Commits
  <2> QED
  BY <1>3, <2>1, WorkerQuiet, WorkerRecords, WorkerLoads, WorkerWrites
  DEF WorkerStep, WorkerEnvironment, Worker!WorkerStep, Worker!Environment
<1> QED BY <1>1, <1>4 DEF TableStep

\* What the consumer has locked when it is about to commit, and what it stores.
LEMMA ConsumerCommits ==
  ASSUME MixedInv
  PROVE  /\ InCommit => current \in Jobs /\ Holds(Consumer, current)
         /\ \A j \in Jobs : Holds(Consumer, j) => j = current
         /\ pc = "starting" /\ CommitStarted(Consumer) => Stored(Consumer)
         /\ pc = "succeeding" /\ CommitSucceeded(Consumer, Evaluation) =>
              Stored(Consumer) /\ jobs'[current].status = "succeeded"
         /\ pc = "failing" /\ CommitFailed(Consumer) =>
              Stored(Consumer) /\ jobs'[current].status = "failed"
<1>0. Consumer \in Processes
  BY ConsumerAssumption
<1>1. InCommit => current \in Jobs /\ Holds(Consumer, current)
  BY DEF MixedInv, HandlersOK, HoldersOK, InCommit, Handling
<1>2. ASSUME NEW j \in Jobs, Holds(Consumer, j)
      PROVE  /\ j = current
             /\ pc = "starting" => tx[Consumer][j].status = "queued"
             /\ pc = "succeeding" => tx[Consumer][j].status = "running"
  BY <1>0, <1>2, LockedRow DEF LockOK, ConsumerLockOK
<1>3. ASSUME pc = "starting", CommitStarted(Consumer)
      PROVE  Stored(Consumer)
  <2>1. \A j \in Jobs : Holds(Consumer, j) => RowStep(jobs[j], Started(tx[Consumer][j]))
    BY <1>0, <1>2, <1>3, CommitRows
  <2> QED BY <1>0, <1>3, <2>1, Storing DEF CommitStarted
<1>4. ASSUME pc = "succeeding", CommitSucceeded(Consumer, Evaluation)
      PROVE  Stored(Consumer) /\ jobs'[current].status = "succeeded"
  <2>1. Evaluation \in Nat \ {0} /\ current \in Jobs /\ Holds(Consumer, current)
    BY <1>1, <1>4 DEF Evaluation, InCommit
  <2>2. \A j \in Jobs : Holds(Consumer, j) =>
          /\ RowStep(jobs[j], Succeeded(tx[Consumer][j], Evaluation))
          /\ Succeeded(tx[Consumer][j], Evaluation).status = "succeeded"
    BY <1>0, <1>2, <1>4, <2>1, CommitRows
  <2>3. /\ Stored(Consumer)
        /\ \A j \in Jobs : Holds(Consumer, j) =>
             jobs'[j] = Succeeded(tx[Consumer][j], Evaluation)
    BY <1>0, <1>4, <2>2, Storing DEF CommitSucceeded
  <2> QED BY <2>1, <2>2, <2>3
<1>5. ASSUME pc = "failing", CommitFailed(Consumer)
      PROVE  Stored(Consumer) /\ jobs'[current].status = "failed"
  <2>1. current \in Jobs /\ Holds(Consumer, current)
    BY <1>1, <1>5 DEF InCommit
  <2>2. \A j \in Jobs : Holds(Consumer, j) =>
          /\ RowStep(jobs[j], Failed(tx[Consumer][j]))
          /\ Failed(tx[Consumer][j]).status = "failed"
    BY <1>0, CommitRows
  <2>3. /\ Stored(Consumer)
        /\ \A j \in Jobs : Holds(Consumer, j) => jobs'[j] = Failed(tx[Consumer][j])
    BY <1>0, <1>5, <2>2, Storing DEF CommitFailed
  <2> QED BY <2>1, <2>2, <2>3
<1> QED BY <1>1, <1>2, <1>3, <1>4, <1>5

\* The steps that only the combined process takes, but for the inserts.
CombinedMove ==
  \/ ConsumerStep \/ StartRejected \/ SucceedRejected
  \/ DatabaseError \/ AnswerLost \/ Crash
  \/ (\E j \in Jobs : Enqueue(j))
  \/ Stop \/ Down \/ Start

\* Such a step, with the workers where they are.
LEMMA ConsumerForms ==
  ASSUME MixedInv, CombinedMove, UNCHANGED workerVars
  PROVE  TableStep(Consumer)
<1>0. /\ Consumer \in Processes /\ TypeOK
      /\ InTransaction(Consumer) <=> InCommit
      /\ InTransaction(Consumer)' <=> InCommit'
  BY ConsumerAssumption DEF MixedInv, InTransaction, InCommit
<1>1. OthersStay(Consumer) /\ Commits(Consumer)
  BY DEF OthersStay, workerVars, Commits
<1>2. audit' = audit => NoOutcome
  BY DEF NoOutcome
<1>3. /\ \A l : Goto(l) => pc' = l /\ current' = current
      /\ HandlerEnds => ~InCommit'
      /\ CallRaises => ~InCommit'
  BY DEF Goto, HandlerEnds, CallRaises, HandlerRaises, InCommit
<1>4. CASE \/ Take \/ LoadJob \/ Score \/ FailRejected
           \/ StartRejected \/ SucceedRejected \/ Start
  <2>1. UNCHANGED <<jobs, tx, audit>> /\ ~InCommit
    BY <1>4
    DEF Take, LoadJob, Score, FailRejected, StartRejected, SucceedRejected, Start,
        TransitionRejected, repositoryVars, InCommit, MixedInv, HandlersOK
  <2>2. ~InCommit'
    BY <1>3, <1>4
    DEF Take, LoadJob, Score, FailRejected, StartRejected, SucceedRejected, Start,
        HandlerRaises, InCommit
  <2> QED BY <1>0, <1>1, <1>2, <2>1, <2>2 DEF TableStep, Quiet
<1>5. CASE Stop \/ Down
  <2>1. Aside
    BY <1>2, <1>5 DEF Stop, Down, repositoryVars, consumerVars, workerVars, Aside
  <2> QED BY <1>1, <2>1 DEF TableStep
<1>6. ASSUME NEW j \in Jobs, Enqueue(j)
      PROVE  TableStep(Consumer)
  <2>1. NoOutcome
    BY <1>0, <1>6, RecordRunning DEF Enqueue
  <2>2. Aside
    BY <1>6, <2>1 DEF Enqueue, repositoryVars, consumerVars, workerVars, Aside
  <2> QED BY <1>1, <2>2 DEF TableStep
<1>7. CASE StartSelect \/ SucceedSelect \/ FailSelect
  <2>1. current \in Jobs /\ current' = current /\ audit' = audit
    BY <1>3, <1>7 DEF MixedInv, HandlersOK, Handling, StartSelect, SucceedSelect, FailSelect
  <2>2. /\ ~Locked(current) /\ Load(Consumer, {current}) /\ UNCHANGED jobs
        /\ \/ pc' = "starting" /\ jobs[current].status = "queued"
           \/ pc' = "succeeding" /\ jobs[current].status = "running"
           \/ pc' = "failing" /\ jobs[current].status \in FromQueuedOrRunning
    BY <1>3, <1>7
    DEF StartSelect, SucceedSelect, FailSelect, SelectForTransition, FromQueued, FromRunning
  <2>3. Fits(Consumer, current)
    BY <2>1, <2>2 DEF Fits
  <2>4. Loads(Consumer, {current})
    BY <1>2, <2>1, <2>2, <2>3 DEF Loads
  <2> QED BY <1>1, <2>1, <2>4 DEF TableStep
<1>8. CASE StartCommit
  <2>1. Stored(Consumer) /\ NoOutcome /\ ~InCommit'
    BY <1>0, <1>3, <1>8, ConsumerCommits, RecordRunning DEF StartCommit, InCommit
  <2> QED BY <1>0, <1>1, <2>1 DEF TableStep, Writes
<1>9. CASE SucceedCommit \/ FailCommit
  <2>1. /\ Stored(Consumer) /\ current \in Jobs /\ Holds(Consumer, current)
        /\ Record(current, jobs'[current].status)
    BY <1>9, ConsumerCommits DEF SucceedCommit, FailCommit, InCommit
  <2>2. ~InCommit'
    BY <1>3, <1>9 DEF SucceedCommit, FailCommit, HandlerRaises
  <2> QED BY <1>0, <1>1, <2>1, <2>2 DEF TableStep, Writes
<1>10. CASE DatabaseError \/ AnswerLost \/ Crash
  <2>1. Stored(Consumer) /\ audit' = audit
    BY <1>0, <1>10, ConsumerCommits, Storing DEF DatabaseError, AnswerLost, Crash
  <2>2. ~InCommit'
    BY <1>3, <1>10 DEF DatabaseError, AnswerLost, Crash, InCommit
  <2> QED BY <1>0, <1>1, <1>2, <2>1, <2>2 DEF TableStep, Writes
<1> QED BY <1>4, <1>5, <1>6, <1>7, <1>8, <1>9, <1>10 DEF CombinedMove, ConsumerStep

\* The consumer handles a job when it handles one, and none when it is gone.
LEMMA ConsumerHandles ==
  ASSUME MixedInv, CombinedMove
  PROVE  (Handling' => current' \in Jobs) /\ (app' = "down" => pc' = "returned")
<1>0. /\ Handling => current \in Jobs
      /\ app = "down" => pc = "returned"
      /\ TypeOK
  BY DEF MixedInv, HandlersOK
<1>1. HandlerEnds => ~Handling'
  BY DEF HandlerEnds, Handling
<1>2. CASE Take
  <2>1. Head(queue) \in Jobs \cup {NoJob}
    BY <1>0, <1>2 DEF Take, TypeOK
  <2> QED BY <1>0, <1>2, <2>1 DEF Take, Handling
<1>3. CASE \/ LoadJob \/ StartSelect \/ StartCommit \/ Score \/ SucceedSelect \/ FailSelect
           \/ StartRejected \/ SucceedRejected
  <2>1. Handling /\ current' = current /\ app' = app /\ pc # "returned"
    BY <1>3
    DEF LoadJob, StartSelect, StartCommit, Score, SucceedSelect, FailSelect, StartRejected,
        SucceedRejected, Goto, Handling, processVars
  <2> QED BY <1>0, <2>1
<1>4. CASE SucceedCommit \/ FailRejected \/ FailCommit
  <2>1. HandlerEnds /\ app' = app /\ pc # "returned"
    BY <1>4 DEF SucceedCommit, FailRejected, FailCommit, HandlerRaises, processVars
  <2> QED BY <1>0, <1>1, <2>1
<1>5. CASE DatabaseError \/ AnswerLost
  <2>1. CallRaises /\ app' = app /\ Handling /\ pc # "returned"
    BY <1>5 DEF DatabaseError, AnswerLost, processVars, Handling
  <2> QED BY <1>0, <1>1, <2>1 DEF CallRaises, HandlerRaises, Goto
<1>6. CASE Crash
  BY <1>6 DEF Crash, Handling
<1>7. CASE (\E j \in Jobs : Enqueue(j)) \/ Stop \/ Down
  BY <1>0, <1>7 DEF Enqueue, Stop, Down, consumerVars, Handling
<1>8. CASE Start
  BY <1>8 DEF Start, Handling
<1> QED BY <1>2, <1>3, <1>4, <1>5, <1>6, <1>7, <1>8 DEF CombinedMove, ConsumerStep

\* Without faults, a step of the combined process leaves every job that the
\* consumer has started in its hands.
LEMMA ConsumerKeepsStarted ==
  ASSUME MixedInv, TypeOK', CombinedMove, UNCHANGED workerVars
  PROVE  StartedJobsAreHandled'
<1>0. faults \in Nat
  BY BoundsAssumption DEF MixedInv, TypeOK
<1>1. Fault => faults' # 0
  BY <1>0 DEF Fault
<1>2. ASSUME faults' = faults,
             \A j \in Jobs : StartedByConsumer(j)' => /\ Handling' /\ current' = current
                                                      /\ j = current \/ StartedByConsumer(j)
      PROVE  StartedJobsAreHandled'
  BY <1>2 DEF MixedInv, StartedJobsAreHandled
<1>3. UNCHANGED jobs => \A j \in Jobs : StartedByConsumer(j)' <=> StartedByConsumer(j)
  BY DEF StartedByConsumer
<1>4. CASE Take \/ Start
  <2>1. ~Handling /\ UNCHANGED jobs /\ faults' = faults
    BY <1>4 DEF Take, Start, Handling, repositoryVars, MixedInv, HandlersOK
  <2> QED BY <1>3, <2>1 DEF MixedInv, StartedJobsAreHandled
<1>5. CASE \/ LoadJob \/ StartSelect \/ Score \/ SucceedSelect \/ FailSelect
           \/ StartRejected \/ SucceedRejected
  <2>1. UNCHANGED jobs /\ faults' = faults /\ current' = current /\ Handling'
    BY <1>5
    DEF LoadJob, StartSelect, Score, SucceedSelect, FailSelect, StartRejected,
        SucceedRejected, SelectForTransition, TransitionRejected, repositoryVars, Goto,
        Handling
  <2> QED BY <1>2, <1>3, <2>1
<1>6. CASE StartCommit
  <2>1. /\ \A j \in Jobs \ {current} : jobs'[j] = jobs[j]
        /\ faults' = faults /\ current' = current /\ Handling'
    BY <1>6, ConsumerCommits DEF StartCommit, Stored, Goto, Handling
  <2> QED BY <1>2, <2>1 DEF StartedByConsumer
<1>7. CASE SucceedCommit \/ FailCommit \/ FailRejected
  <2>1. /\ \A j \in Jobs \ {current} : jobs'[j] = jobs[j]
        /\ faults' = faults
        /\ jobs'[current].status # "running"
    <3>1. CASE SucceedCommit \/ FailCommit
      BY <3>1, ConsumerCommits DEF SucceedCommit, FailCommit, Stored
    <3>2. CASE FailRejected
      BY <3>2 DEF FailRejected, TransitionRejected, repositoryVars, FromQueuedOrRunning
    <3> QED BY <1>7, <3>1, <3>2
  <2> QED BY <2>1 DEF MixedInv, StartedJobsAreHandled, StartedByConsumer
<1>8. CASE DatabaseError \/ AnswerLost \/ Crash
  BY <1>1, <1>8 DEF DatabaseError, AnswerLost, Crash, StartedJobsAreHandled
<1>9. CASE (\E j \in Jobs : Enqueue(j)) \/ Stop \/ Down
  <2>1. UNCHANGED <<jobs, faults, pc, current>>
    BY <1>9 DEF Enqueue, Stop, Down, repositoryVars, consumerVars
  <2> QED BY <1>3, <2>1 DEF MixedInv, StartedJobsAreHandled, Handling
<1> QED BY <1>4, <1>5, <1>6, <1>7, <1>8, <1>9 DEF CombinedMove, ConsumerStep

\* A row that changes outside a transaction: create inserts it, or it ages.
LEMMA RowsAlone ==
  ASSUME MixedInv, TypeOK', WorkerTypeOK', NEW j \in Jobs,
         UNCHANGED <<tx, pc, current, wpc, claimed, attempt, app, audit>>,
         faults' = faults \/ faults' # 0,
         \A i \in Jobs \ {j} : jobs'[i] = jobs[i],
         \/ jobs[j] = NoRow /\ jobs'[j] = NewRow
         \/ jobs[j].claimed_at = "recent" /\ jobs'[j] = Aged(jobs[j])
  PROVE  MixedInv'
<1>1. /\ jobs[j].status \notin Terminal \/ jobs'[j].status = jobs[j].status
      /\ jobs'[j].status \notin Terminal \/ jobs'[j].status = jobs[j].status
      /\ jobs'[j].result = jobs[j].result
      /\ jobs[j].status = "succeeded" <=> jobs'[j].status = "succeeded"
      /\ ~StartedByConsumer(j)'
  BY DEF NoRow, NewRow, Aged, StartedByConsumer, Terminal
<1>2. MixedLocksOK'
  <2> SUFFICES ASSUME NEW p \in Processes, NEW i \in Jobs, Holds(p, i)'
               PROVE  LockOK(p, i)'
    BY DEF MixedLocksOK
  <2>1. /\ Holds(p, i) /\ LockOK(p, i)
        /\ \A q \in Processes : Holds(q, i)' => q = p
    BY LockedRow, LockersAreBusy DEF Holds
  <2>2. CASE jobs'[i] = jobs[i]
    BY <2>1, <2>2, LockStays
  <2>3. CASE jobs'[i] # jobs[i]
    <3>1. i = j /\ jobs[j].status \in {"queued", "running"}
      BY <2>1, <2>3, LockedRow
    <3>2. jobs[j].claimed_at = "recent" /\ jobs'[j] = Aged(jobs[j])
      BY <3>1 DEF NoRow
    <3>3. Worker!SameButOlder(tx[p][i], jobs[i])'
      BY <2>1, <3>1, <3>2 DEF LockOK, Worker!SameButOlder, Aged
    <3>4. CASE p = Consumer
      <4>1. ConsumerLockOK(i)'
        BY <2>1, <3>4 DEF LockOK, ConsumerLockOK
      <4> QED BY <2>1, <3>3, <3>4, <4>1 DEF LockOK
    <3>5. CASE p # Consumer
      <4>1. WorkerLockOK(p, i)'
        BY <2>1, <3>5 DEF LockOK, WorkerLockOK
      <4> QED BY <2>1, <3>3, <3>5, <4>1 DEF LockOK
    <3> QED BY <3>4, <3>5
  <2> QED BY <2>2, <2>3
<1>3. HoldersOK' /\ HandlersOK'
  BY DEF MixedInv, HoldersOK, HandlersOK, InCommit, Handling, Holds, Worker!Processing
<1>4. ASSUME NEW i \in Jobs
      PROVE  ResultOK(jobs'[i]) /\ AuditOK(i)'
  <2>1. ResultOK(jobs[i]) /\ AuditOK(i)
    BY DEF MixedInv
  <2>2. CASE i = j
    BY <1>1, <2>1, <2>2 DEF ResultOK, AuditOK, Terminal
  <2>3. CASE i # j
    BY <2>1, <2>3 DEF ResultOK, AuditOK
  <2> QED BY <2>2, <2>3
<1>5. StartedJobsAreHandled'
  BY <1>1 DEF MixedInv, StartedJobsAreHandled, StartedByConsumer, Handling
<1>6. RefreshesOK'
  BY <1>1 DEF MixedInv, RefreshesOK
<1> QED BY <1>2, <1>3, <1>4, <1>5, <1>6 DEF MixedInv

\* A step of the combined process.
LEMMA CombinedKeeps ==
  ASSUME MixedInv, CombinedStep \/ StartRejected \/ SucceedRejected
  PROVE  MixedInv'
<1>0. TypeOK /\ WorkerTypeOK /\ faults \in Nat /\ UNCHANGED workerVars
  BY BoundsAssumption
  DEF MixedInv, TypeOK, CombinedStep, StartRejected, SucceedRejected
<1>1. WorkerTypeOK'
  BY <1>0 DEF WorkerTypeOK, workerVars
<1>2. TypeOK'
  <2>1. CASE CombinedStep
    BY <1>0, <2>1, ConsumerStepType, ProcessStepType DEF CombinedStep, Next
  <2>2. CASE StartRejected \/ SucceedRejected
    <3>1. /\ UNCHANGED <<jobs, tx, current, faults, audit, depth, processVars>>
          /\ pc' = "fail"
      BY <2>2
      DEF StartRejected, SucceedRejected, TransitionRejected, repositoryVars, Goto
    <3> QED BY <1>0, <3>1 DEF TypeOK, RepositoryTypeOK, processVars, PcValues
  <2> QED BY <2>1, <2>2
<1>3. ASSUME NEW j \in Jobs, Create(j) \/ CreateLost(j)
      PROVE  MixedInv'
  <2>1. /\ UNCHANGED <<tx, pc, current, wpc, claimed, attempt, app, audit>>
        /\ faults' = faults \/ faults' # 0
    BY <1>0, <1>3
    DEF Create, CreateLost, Insert, Fault, processVars, consumerVars, workerVars
  <2>2. /\ jobs[j] = NoRow /\ jobs'[j] = NewRow
        /\ \A i \in Jobs \ {j} : jobs'[i] = jobs[i]
    BY <1>0, <1>3 DEF Create, CreateLost, Insert, TypeOK, RepositoryTypeOK
  <2> QED BY <1>1, <1>2, <2>1, <2>2, RowsAlone
<1>4. CASE CombinedMove
  <2>1. TableStep(Consumer)
    BY <1>0, <1>4, ConsumerForms
  <2>2. MixedLocksOK' /\ HoldersOK'
    BY <2>1, LocksStayRight, ConsumerAssumption
  <2>3. \A j \in Jobs : ResultOK(jobs'[j]) /\ AuditOK(j)'
    BY <1>2, <2>1, OutcomesStayRight, ConsumerAssumption
  <2>4. HandlersOK'
    BY <1>0, <1>4, ConsumerHandles DEF MixedInv, HandlersOK, workerVars, Worker!Processing
  <2>5. StartedJobsAreHandled'
    BY <1>0, <1>2, <1>4, ConsumerKeepsStarted
  <2>6. RefreshesOK'
    BY <2>1, RefreshesStayRight, ConsumerAssumption
  <2> QED BY <1>1, <1>2, <2>2, <2>3, <2>4, <2>5, <2>6 DEF MixedInv
<1> QED BY <1>3, <1>4 DEF CombinedStep, Next, CombinedMove

\* A step of a worker.
LEMMA WorkerKeeps ==
  ASSUME MixedInv, NEW w \in Workers, WorkerStep(w) \/ WorkerEnvironment(w)
  PROVE  MixedInv'
<1>0. w \in Processes /\ w # Consumer /\ TypeOK' /\ WorkerTypeOK' /\ OthersStay(w)
  BY WorkerTypes DEF Workers, MixedInv
<1>1. TableStep(w) /\ UNCHANGED <<processVars, consumerVars>>
  BY WorkerForms DEF WorkerStep, WorkerEnvironment
<1>2. MixedLocksOK' /\ HoldersOK'
  BY <1>0, <1>1, LocksStayRight
<1>3. \A j \in Jobs : ResultOK(jobs'[j]) /\ AuditOK(j)'
  BY <1>0, <1>1, OutcomesStayRight
<1>4. HandlersOK'
  <2>1. (Handling' => current' \in Jobs) /\ (app' = "down" => pc' = "returned")
    BY <1>1 DEF MixedInv, HandlersOK, processVars, consumerVars, Handling
  <2>2. ASSUME NEW v \in Workers, wpc'[v] = "claiming" \/ Worker!Processing(v)'
        PROVE  claimed'[v] \in Jobs /\ attempt'[v] > 0
    <3>1. CASE v = w
      BY <2>2, <3>1, WorkerHandles
    <3>2. CASE v # w
      BY <1>0, <2>2, <3>2 DEF MixedInv, HandlersOK, OthersStay, Worker!Processing
    <3> QED BY <3>1, <3>2
  <2> QED BY <2>1, <2>2 DEF HandlersOK
<1>5. StartedJobsAreHandled'
  <2>1. \A j \in Jobs : StartedByConsumer(j)' => StartedByConsumer(j)
    BY <1>0, <1>1
    DEF TableStep, Quiet, Aside, Loads, Writes, Stored, StartedByConsumer
  <2>2. faults' = 0 => faults = 0
    <3>1. faults' = faults \/ Worker!Fault
      BY DEF WorkerStep, WorkerEnvironment,
             Worker!WorkerStep, Worker!RecoverSelect, Worker!RecoverCommit, Worker!ClaimNone,
             Worker!ClaimSelect, Worker!ClaimCommit, Worker!Score, Worker!SucceedSelect,
             Worker!SucceedRejected, Worker!SucceedCommit, Worker!SucceedRefresh, Worker!FailSelect,
             Worker!FailRejected, Worker!FailCommit, Worker!FailRefresh, Worker!Exit,
             Worker!Environment, Worker!DatabaseError, Worker!AnswerLost, Worker!Crash,
             Worker!Signal, Worker!Start
    <3>2. faults \in Nat
      BY BoundsAssumption DEF MixedInv, TypeOK
    <3> QED BY <3>1, <3>2 DEF Worker!Fault
  <2> QED BY <1>1, <2>1, <2>2 DEF MixedInv, StartedJobsAreHandled, consumerVars, Handling
<1>6. RefreshesOK'
  BY <1>0, <1>1, RefreshesStayRight
<1> QED BY <1>0, <1>2, <1>3, <1>4, <1>5, <1>6 DEF MixedInv

\* Time.
LEMMA AgeKeeps ==
  ASSUME MixedInv, NEW j \in Jobs, Age(j)
  PROVE  MixedInv'
<1>1. /\ GrowOld(j) /\ RepositoryTypeOK
      /\ UNCHANGED <<processVars, consumerVars, wpc, claimed, attempt, stopping, audit, depth,
                     faults>>
  BY SameTable DEF Age, Worker!Age, Worker!workerVars, Worker!apiVars, MixedInv, TypeOK
<1>2. TypeOK' /\ WorkerTypeOK'
  BY <1>1, RowStepsType
  DEF MixedInv, TypeOK, WorkerTypeOK, processVars, consumerVars
<1>3. /\ jobs[j].claimed_at = "recent" /\ jobs'[j] = Aged(jobs[j])
      /\ \A i \in Jobs \ {j} : jobs'[i] = jobs[i]
      /\ tx' = tx
  BY <1>1 DEF GrowOld, RepositoryTypeOK
<1> QED BY <1>1, <1>2, <1>3, RowsAlone DEF processVars, consumerVars
-----------------------------------------------------------------------------
(***************************************************************************)
(* The theorems about the mixed deployment.                                *)
(***************************************************************************)
\* A new process and idle workers with an empty table.
LEMMA MixedInvInit == MixedInit => MixedInv
<1> SUFFICES ASSUME MixedInit PROVE MixedInv
  OBVIOUS
<1>1. TypeOK
  BY InvInit DEF MixedInit, Inv
<1>2. WorkerTypeOK
  BY WorkerLabels DEF MixedInit, WorkerTypeOK
<1>3. \A p \in Processes, j \in Jobs : ~Holds(p, j)
  BY DEF MixedInit, Init, RepositoryInit, Holds
<1>4. /\ pc = "get" /\ app = "up" /\ \A w \in Workers : wpc[w] = "poll"
      /\ \A j \in Jobs : jobs[j] = NoRow
      /\ \A j \in Jobs : audit[j]["succeeded"] = 0 /\ audit[j]["failed"] = 0
  BY DEF MixedInit, Init, RepositoryInit, Workers, AuditEvents
<1>5. MixedLocksOK /\ HoldersOK /\ HandlersOK
  BY <1>3, <1>4
  DEF MixedLocksOK, HoldersOK, HandlersOK, InCommit, HoldsClaim, Handling, Worker!Processing
<1>6. ASSUME NEW j \in Jobs
      PROVE  ResultOK(jobs[j]) /\ AuditOK(j)
  <2>1. /\ jobs[j].result = 0 /\ jobs[j].status = "absent"
        /\ audit[j]["succeeded"] = 0 /\ audit[j]["failed"] = 0
    BY <1>4 DEF NoRow
  <2>2. \A s \in Terminal : audit[j][s] # 1
    BY <2>1 DEF Terminal
  <2> QED BY <2>1, <2>2 DEF ResultOK, AuditOK
<1>7. StartedJobsAreHandled
  BY <1>4 DEF StartedJobsAreHandled, StartedByConsumer, NoRow
<1>8. RefreshesOK
  BY <1>4 DEF RefreshesOK, Terminal
<1> QED BY <1>1, <1>2, <1>5, <1>6, <1>7, <1>8 DEF MixedInv

\* Every step of the consumer, of a worker and of time keeps the invariant.
LEMMA MixedInvStep == MixedInv /\ [MixedNext]_mixedVars => MixedInv'
<1> SUFFICES ASSUME MixedInv, [MixedNext]_mixedVars PROVE MixedInv'
  OBVIOUS
<1>1. CASE MixedNext
  BY <1>1, CombinedKeeps, WorkerKeeps, AgeKeeps DEF MixedNext
<1>2. CASE UNCHANGED mixedVars
  <2>1. UNCHANGED <<jobs, tx, app, submitting, queue, stops, pc, current, faults, audit,
                    depth, wpc, claimed, attempt, stopping>>
    BY <1>2 DEF mixedVars, vars, repositoryVars, processVars, consumerVars, workerVars
  <2>2. TypeOK' /\ WorkerTypeOK'
    BY <2>1 DEF MixedInv, TypeOK, RepositoryTypeOK, WorkerTypeOK
  <2>3. MixedLocksOK'
    BY <2>1
    DEF MixedInv, MixedLocksOK, LockOK, ConsumerLockOK, WorkerLockOK, Holds,
        Worker!SameButOlder
  <2>4. HoldersOK' /\ HandlersOK'
    BY <2>1
    DEF MixedInv, HoldersOK, HandlersOK, InCommit, Holds, Handling, Worker!Processing
  <2>5. \A j \in Jobs : ResultOK(jobs'[j]) /\ AuditOK(j)'
    BY <2>1 DEF MixedInv, ResultOK, AuditOK
  <2>6. StartedJobsAreHandled'
    BY <2>1 DEF MixedInv, StartedJobsAreHandled, StartedByConsumer, Handling
  <2>7. RefreshesOK'
    BY <2>1 DEF MixedInv, RefreshesOK
  <2> QED BY <2>2, <2>3, <2>4, <2>5, <2>6, <2>7 DEF MixedInv
<1> QED BY <1>1, <1>2

\* Every state of the mixed deployment satisfies its inductive invariant.
THEOREM MixedInvariance == MixedSpec => []MixedInv
  BY MixedInvInit, MixedInvStep, PTL DEF MixedSpec

\* For every number of workers, jobs and faults: the consumer and the workers
\* never overwrite each other's commits.
THEOREM MixedLocks == MixedSpec => []MixedNoLostUpdate
<1>1. MixedInv => MixedNoLostUpdate
  BY LockedRow, LockersAreBusy DEF MixedNoLostUpdate, LockOK
<1> QED BY <1>1, MixedInvariance, PTL

\* Of the consumer's and the workers' outcomes of a job only one is recorded,
\* and it is the row's; a result is stored only with success.
THEOREM MixedOutcomes == MixedSpec => []OneOutcomeRecorded
<1>1. MixedInv => OneOutcomeRecorded
  BY DEF MixedInv, OneOutcomeRecorded, Worker!TerminalEventsMatchRow,
         Worker!ResultIffSucceeded, AuditOK, ResultOK, Worker!Terminal, Terminal
<1> QED BY <1>1, MixedInvariance, PTL

\* Without faults, a job that the consumer has started stays in its hands until
\* it has an outcome, whatever stops, restarts and workers do.
THEOREM StartedAreHandled == MixedSpec => []StartedJobsAreHandled
<1>1. MixedInv => StartedJobsAreHandled
  BY DEF MixedInv
<1> QED BY <1>1, MixedInvariance, PTL

\* No worker takes a job that the consumer has started: neither a recovery nor a
\* claim changes its row.
THEOREM StartedAreNotTaken == MixedSpec => StartedJobsAreNotTaken
<1> DEFINE NotTaken == \A j \in Jobs : StartedByConsumer(j) =>
                         \/ jobs'[j] = jobs[j]
                         \/ /\ jobs'[j].status \in Terminal
                            /\ jobs'[j].attempt_count = jobs[j].attempt_count
<1>1. MixedInv /\ [MixedNext]_mixedVars => [NotTaken]_mixedVars
  <2> SUFFICES ASSUME MixedInv, MixedNext, NEW j \in Jobs, StartedByConsumer(j)
               PROVE  \/ jobs'[j] = jobs[j]
                      \/ /\ jobs'[j].status \in Terminal
                         /\ jobs'[j].attempt_count = jobs[j].attempt_count
    OBVIOUS
  <2>0. jobs[j].status = "running" /\ jobs[j].claimed_at = "null" /\ RepositoryTypeOK
    BY DEF StartedByConsumer, MixedInv, TypeOK
  <2>1. ASSUME NEW p \in Processes, TableStep(p)
        PROVE  RowStep(jobs[j], jobs'[j])
    BY <2>1 DEF TableStep, Quiet, Aside, Loads, Writes, Stored, RowStep
  <2>2. CASE RowStep(jobs[j], jobs'[j])
    BY <2>0, <2>2 DEF RowStep, Terminal
  <2>3. ASSUME NEW i \in Jobs, Create(i) \/ CreateLost(i) \/ Age(i)
        PROVE  jobs'[j] = jobs[j]
    <3>1. Insert(i) \/ GrowOld(i)
      BY <2>3, SameTable DEF Create, CreateLost, Age, Worker!Age
    <3>2. i # j
      BY <2>0, <3>1 DEF Insert, GrowOld, NoRow
    <3> QED BY <2>0, <3>1, <3>2 DEF Insert, GrowOld, RepositoryTypeOK
  <2>4. CASE CombinedMove /\ UNCHANGED workerVars
    BY <2>1, <2>2, <2>4, ConsumerForms, ConsumerAssumption
  <2>5. ASSUME NEW w \in Workers, WorkerStep(w) \/ WorkerEnvironment(w)
        PROVE  RowStep(jobs[j], jobs'[j])
    BY <2>1, <2>5, WorkerForms DEF Workers
  <2>6. (CombinedStep \/ StartRejected \/ SucceedRejected) =>
          \/ CombinedMove /\ UNCHANGED workerVars
          \/ \E i \in Jobs : Create(i) \/ CreateLost(i)
    BY DEF CombinedStep, Next, CombinedMove, StartRejected, SucceedRejected
  <2> QED BY <2>2, <2>3, <2>4, <2>5, <2>6 DEF MixedNext
<1>2. MixedSpec => [][MixedNext]_mixedVars
  BY PTL DEF MixedSpec
<1> QED BY <1>1, <1>2, MixedInvariance, PTL DEF StartedJobsAreNotTaken
=============================================================================
