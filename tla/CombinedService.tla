-------------------------- MODULE CombinedService --------------------------
(***************************************************************************)
(* The service in its default, combined role: one process whose API        *)
(* handlers create jobs and put their ids on an in-memory queue, and whose *)
(* one consumer task takes them off and evaluates them                     *)
(* (app/main.py lifespan, app/services/queue.py, job_service.process).     *)
(*                                                                         *)
(* The consumer's pc names the statement of InMemoryJobQueue._run and      *)
(* EvaluationJobService.process that it is about to execute:               *)
(*                                                                         *)
(*   get         await self._queue.get()                                   *)
(*   load        repository.get, outside the handler's try                 *)
(*   start       set_running            starting     its commit            *)
(*   scoring     evaluator.score                                           *)
(*   succeed     set_succeeded          succeeding   its commit            *)
(*   fail        set_failed             failing      its commit            *)
(*   returned    the task is over                                          *)
(***************************************************************************)
EXTENDS PostgresRepository, Sequences

CONSTANTS
  Consumer,   \* the process of this module, as it runs transactions
  NoJob,      \* the consumer handles nothing; on the queue, stop's sentinel
  Outcomes,   \* what evaluator.score may do: "scored", "error" (it raised)
  MaxFaults,  \* bound: how many faults the environment may inject
  MaxStops    \* bound: how often the process is asked to stop

ASSUME ConsumerAssumption == Consumer \in Processes
ASSUME NoJobAssumption == NoJob \notin Jobs
ASSUME OutcomesAssumption == Outcomes \subseteq {"scored", "error"}
ASSUME BoundsAssumption == MaxFaults \in Nat /\ MaxStops \in Nat

VARIABLES
  app,         \* the process: "up", "stopping" (queue.stop is waiting), "down"
  submitting,  \* the jobs whose submit has created the row, and not yet more
  queue,       \* the in-memory queue
  pc,          \* where the consumer is
  current,     \* the job it handles
  faults,      \* how many faults there have been
  stops,       \* how many stops there have been
  audit,       \* audit[j][e]: how often event e of job j was recorded
  depth        \* the gauge evaluation_queue_depth

processVars == <<app, submitting, queue, stops>>

consumerVars == <<pc, current>>

vars == <<repositoryVars, processVars, consumerVars, faults, audit, depth>>

PcValues ==
  {"get", "load", "start", "starting", "scoring", "succeed", "succeeding",
   "fail", "failing", "returned"}

AuditEvents == {"queued", "running", "succeeded", "failed"}

Handling == pc \notin {"get", "returned"}

TypeOK ==
  /\ RepositoryTypeOK
  /\ app \in {"up", "stopping", "down"}
  /\ submitting \in SUBSET Jobs
  /\ queue \in Seq(Jobs \cup {NoJob})
  /\ pc \in PcValues
  /\ current \in Jobs \cup {NoJob}
  /\ faults \in 0..MaxFaults
  /\ stops \in 0..MaxStops
  /\ audit \in [Jobs -> [AuditEvents -> Nat]]
  /\ depth \in Nat

Init ==
  /\ RepositoryInit
  /\ app = "up"
  /\ submitting = {}
  /\ queue = <<>>
  /\ pc = "get"
  /\ current = NoJob
  /\ faults = 0
  /\ stops = 0
  /\ audit = [j \in Jobs |-> [e \in AuditEvents |-> 0]]
  /\ depth = 0

Record(j, event) == audit' = [audit EXCEPT ![j][event] = @ + 1]

Fault ==
  /\ faults < MaxFaults
  /\ faults' = faults + 1
-----------------------------------------------------------------------------
(***************************************************************************)
(* submit: create commits the row, and enqueue comes after it has returned.*)
(***************************************************************************)
Create(j) ==
  /\ app = "up"
  /\ Insert(j)
  /\ submitting' = submitting \cup {j}
  /\ UNCHANGED <<app, queue, stops, consumerVars, faults, audit, depth>>

\* The row is committed but create raises: the client gets an error, and the
\* id never reaches the queue.
CreateLost(j) ==
  /\ Fault
  /\ app = "up"
  /\ Insert(j)
  /\ UNCHANGED <<processVars, consumerVars, audit, depth>>

\* Mutant of Enqueue: the id is put on the queue again by a retry.
EnqueueTwice(j) ==
  /\ j \in submitting
  /\ submitting' = submitting \ {j}
  /\ queue' = queue \o <<j, j>>
  /\ depth' = Len(queue')
  /\ Record(j, "queued")
  /\ UNCHANGED <<repositoryVars, app, stops, consumerVars, faults>>

Enqueue(j) ==
  /\ j \in submitting
  /\ submitting' = submitting \ {j}
  /\ queue' = Append(queue, j)
  /\ depth' = Len(queue')
  /\ Record(j, "queued")
  /\ UNCHANGED <<repositoryVars, app, stops, consumerVars, faults>>
-----------------------------------------------------------------------------
(***************************************************************************)
(* _run.  Between the handler's end and the next get nothing waits, so     *)
(* that task_done, the gauge and the loop test are part of the last step.  *)
(***************************************************************************)
Goto(label) == pc' = label /\ UNCHANGED current

\* Mutant of HandlerEnds: the gauge is updated by enqueue only.
HandlerEndsSilently ==
  /\ current' = NoJob
  /\ pc' = IF app = "stopping" THEN "returned" ELSE "get"
  /\ UNCHANGED depth

HandlerEnds ==
  /\ current' = NoJob
  /\ pc' = IF app = "stopping" THEN "returned" ELSE "get"
  /\ depth' = Len(queue)

\* Mutant of HandlerRaises: the consumer does not catch what the handler raises.
HandlerKillsConsumer ==
  /\ current' = NoJob
  /\ pc' = "returned"
  /\ depth' = Len(queue)

\* The handler raises; _run logs the error and goes on.
HandlerRaises == HandlerEnds

Take ==
  /\ pc = "get"
  /\ queue # <<>>
  /\ queue' = Tail(queue)
  /\ \/ /\ Head(queue) # NoJob
        /\ pc' = "load"
        /\ current' = Head(queue)
        /\ UNCHANGED depth
     \/ /\ Head(queue) = NoJob
        /\ pc' = "returned"
        /\ depth' = Len(queue')
        /\ UNCHANGED current
  /\ UNCHANGED <<repositoryVars, app, submitting, stops, faults, audit>>

LoadJob ==
  /\ pc = "load"
  /\ jobs[current] # NoRow
  /\ Goto("start")
  /\ UNCHANGED <<repositoryVars, processVars, faults, audit, depth>>
-----------------------------------------------------------------------------
(***************************************************************************)
(* process.  Every error after the load records a failure.  NotFoundError  *)
(* has no action, as nothing deletes rows.  A consumer that is alone is    *)
(* refused neither by set_running nor by set_succeeded (property           *)
(* ConsumerIsNeverRefused); MixedService adds these refusals.              *)
(***************************************************************************)
StartSelect ==
  /\ pc = "start"
  /\ SelectForTransition(Consumer, current, FromQueued)
  /\ Goto("starting")
  /\ UNCHANGED <<processVars, faults, audit, depth>>

StartCommit ==
  /\ pc = "starting"
  /\ CommitStarted(Consumer)
  /\ Record(current, "running")
  /\ Goto("scoring")
  /\ UNCHANGED <<processVars, faults, depth>>

\* The one evaluation a job gets in this role, which is not counted in its row.
Evaluation == 1

Score ==
  /\ pc = "scoring"
  /\ \E outcome \in Outcomes : Goto(IF outcome = "scored" THEN "succeed" ELSE "fail")
  /\ UNCHANGED <<repositoryVars, processVars, faults, audit, depth>>

SucceedSelect ==
  /\ pc = "succeed"
  /\ SelectForTransition(Consumer, current, FromRunning)
  /\ Goto("succeeding")
  /\ UNCHANGED <<processVars, faults, audit, depth>>

SucceedCommit ==
  /\ pc = "succeeding"
  /\ CommitSucceeded(Consumer, Evaluation)
  /\ Record(current, "succeeded")
  /\ HandlerEnds
  /\ UNCHANGED <<processVars, faults>>

FailSelect ==
  /\ pc = "fail"
  /\ SelectForTransition(Consumer, current, FromQueuedOrRunning)
  /\ Goto("failing")
  /\ UNCHANGED <<processVars, faults, audit, depth>>

FailRejected ==
  /\ pc = "fail"
  /\ TransitionRejected(current, FromQueuedOrRunning)
  /\ HandlerRaises
  /\ UNCHANGED <<processVars, faults, audit>>

FailCommit ==
  /\ pc = "failing"
  /\ CommitFailed(Consumer)
  /\ Record(current, "failed")
  /\ HandlerRaises
  /\ UNCHANGED <<processVars, faults>>
-----------------------------------------------------------------------------
(***************************************************************************)
(* Faults.  repository.get and _record_failure end the handler when they   *)
(* raise; any other call of process leads to _record_failure.              *)
(***************************************************************************)
CallRaises ==
  IF pc \in {"load", "fail", "failing"}
  THEN HandlerRaises
  ELSE Goto("fail") /\ UNCHANGED depth

DatabaseError ==
  /\ Fault
  /\ pc \in {"load", "start", "starting", "succeed", "succeeding", "fail", "failing"}
  /\ Rollback(Consumer)
  /\ CallRaises
  /\ UNCHANGED <<processVars, audit>>

AnswerLost ==
  /\ Fault
  /\ \/ pc = "starting" /\ CommitStarted(Consumer)
     \/ pc = "succeeding" /\ CommitSucceeded(Consumer, Evaluation)
     \/ pc = "failing" /\ CommitFailed(Consumer)
  /\ CallRaises
  /\ UNCHANGED <<processVars, audit>>

\* Everything in memory is gone.
Crash ==
  /\ Fault
  /\ app # "down"
  /\ Rollback(Consumer)
  /\ app' = "down"
  /\ submitting' = {}
  /\ queue' = <<>>
  /\ pc' = "returned"
  /\ current' = NoJob
  /\ depth' = 0
  /\ UNCHANGED <<stops, audit>>
-----------------------------------------------------------------------------
(***************************************************************************)
(* lifespan.  The server has answered the requests in flight before the    *)
(* shutdown part runs (external: the ASGI server).                         *)
(***************************************************************************)
\* Mutant of Stop: queue.stop without its sentinel.
StopWithoutSentinel ==
  /\ app = "up"
  /\ stops < MaxStops
  /\ stops' = stops + 1
  /\ submitting = {}
  /\ app' = "stopping"
  /\ UNCHANGED <<repositoryVars, submitting, queue, consumerVars, faults, audit, depth>>

Stop ==
  /\ app = "up"
  /\ stops < MaxStops
  /\ stops' = stops + 1
  /\ submitting = {}
  /\ app' = "stopping"
  /\ queue' = Append(queue, NoJob)
  /\ UNCHANGED <<repositoryVars, submitting, consumerVars, faults, audit, depth>>

\* Mutant of Down: the process leaves without awaiting the consumer task.
DownAtOnce ==
  /\ app = "stopping"
  /\ app' = "down"
  /\ queue' = <<>>
  /\ depth' = 0
  /\ Rollback(Consumer)
  /\ pc' = "returned"
  /\ current' = NoJob
  /\ UNCHANGED <<submitting, stops, faults, audit>>

\* queue.stop has awaited the task; what is left on the queue is dropped.
Down ==
  /\ app = "stopping"
  /\ pc = "returned"
  /\ app' = "down"
  /\ queue' = <<>>
  /\ depth' = 0
  /\ UNCHANGED <<repositoryVars, submitting, stops, consumerVars, faults, audit>>

\* A new process: a new queue and a new consumer, and the table as it was.
Start ==
  /\ app = "down"
  /\ app' = "up"
  /\ pc' = "get"
  /\ UNCHANGED <<repositoryVars, submitting, queue, stops, current, faults, audit, depth>>
-----------------------------------------------------------------------------
ConsumerStep ==
  \/ Take \/ LoadJob
  \/ StartSelect \/ StartCommit
  \/ Score
  \/ SucceedSelect \/ SucceedCommit
  \/ FailSelect \/ FailRejected \/ FailCommit

Next ==
  \/ \E j \in Jobs : Create(j) \/ CreateLost(j) \/ Enqueue(j)
  \/ ConsumerStep
  \/ DatabaseError \/ AnswerLost \/ Crash
  \/ Stop \/ Down \/ Start

Spec == Init /\ [][Next]_vars

(***************************************************************************)
(* The event loop runs every task that can run, and a request that has     *)
(* created its row goes on.  Nobody has to submit, to stop or to start.    *)
(***************************************************************************)
Fairness ==
  /\ \A j \in Jobs : WF_vars(Enqueue(j))
  /\ WF_vars(ConsumerStep)
  /\ WF_vars(Down)

FairSpec == Spec /\ Fairness
-----------------------------------------------------------------------------
(***************************************************************************)
(* Properties.                                                             *)
(***************************************************************************)
Places(j) ==
  {<<"submit", j>> : i \in submitting \cap {j}}
    \cup {<<"queue", n>> : n \in {m \in 1..Len(queue) : queue[m] = j}}
    \cup {<<"consumer", i>> : i \in {current} \cap {j}}

\* A job is in the hands of one task: its submit, or one entry of the queue, or
\* the consumer, and only a job not yet started is on the queue.  Without faults
\* and stops, none is dropped on the way.
JobsAreHandedOver ==
  \A j \in Jobs :
    /\ \A p, q \in Places(j) : p = q
    /\ \A n \in 1..Len(queue) : queue[n] = j => jobs[j].status = "queued"
    /\ (jobs[j].status = "queued" /\ faults = 0 /\ stops = 0) => Places(j) # {}

\* The row that the consumer reads, starts or finishes is as it expects it,
\* after any crash, lost answer or restart: repository.get finds it, and neither
\* set_running nor set_succeeded is refused.
ConsumerIsNeverRefused ==
  /\ pc = "load" => jobs[current] # NoRow
  /\ pc = "start" => jobs[current].status \in FromQueued
  /\ pc = "succeed" => jobs[current].status \in FromRunning

\* While nobody stops the process, the exported gauge is the number of jobs on the
\* queue.  get does not set it: until a submission or the handler's end does, it
\* may count the job that is being handled as well, and never more than that.
GaugeCountsWaitingJobs ==
  app = "up" =>
    /\ depth \in {Len(queue), Len(queue) + 1}
    /\ pc = "get" => depth = Len(queue)

Finished(j) == jobs[j].status \in Terminal

Created(j) == jobs[j].status # "absent"

\* As long as there is no fault and no stop, every created job gets an outcome:
\* a failed evaluation does not stop the consumer.
UndisturbedJobsFinish ==
  [](faults = 0 /\ stops = 0) => \A j \in Jobs : Created(j) ~> Finished(j)

\* A requested stop ends: the consumer, busy or waiting for work, returns and
\* the process leaves.
StopsEnd == app = "stopping" ~> app # "stopping"
=============================================================================
