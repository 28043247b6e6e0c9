--------------------------- MODULE MixedService ---------------------------
(***************************************************************************)
(* A process in the combined role and split workers over one table: the    *)
(* deployment on its way from one runtime shape to the other, and what the *)
(* default APP_PROCESS_ROLE gives when a worker is started beside it.      *)
(* main.py starts the consumer whatever else runs, and a worker claims any *)
(* queued row, so that both may want the same job.                         *)
(*                                                                         *)
(* The steps are those of CombinedService and of SplitService; they share  *)
(* the table, the audit log and the budget of faults.                      *)
(***************************************************************************)
EXTENDS CombinedService

CONSTANT Stoppable   \* the workers the deployment may send a signal

VARIABLES
  wpc,       \* where each worker is
  claimed,   \* the job it works on
  attempt,   \* the attempt it works on
  stopping   \* whether it has been signalled

Worker == INSTANCE SplitService WITH pc <- wpc

Workers == Processes \ {Consumer}

workerVars == <<wpc, claimed, attempt, stopping>>

mixedVars == <<vars, workerVars>>

MixedInit ==
  /\ Init
  /\ wpc = [p \in Processes |-> IF p \in Workers THEN "poll" ELSE "down"]
  /\ claimed = [p \in Processes |-> NoJob]
  /\ attempt = [p \in Processes |-> 0]
  /\ stopping = [p \in Processes |-> FALSE]

CombinedStep == Next /\ UNCHANGED workerVars

\* process: set_running or set_succeeded raises InvalidStateTransitionError, as a
\* worker has had the job, and _record_failure follows.
StartRejected ==
  /\ pc = "start"
  /\ TransitionRejected(current, FromQueued)
  /\ Goto("fail")
  /\ UNCHANGED <<processVars, faults, audit, depth, workerVars>>

SucceedRejected ==
  /\ pc = "succeed"
  /\ TransitionRejected(current, FromRunning)
  /\ Goto("fail")
  /\ UNCHANGED <<processVars, faults, audit, depth, workerVars>>

MixedConsumerStep ==
  (ConsumerStep /\ UNCHANGED workerVars) \/ StartRejected \/ SucceedRejected

WorkerStep(w) == Worker!WorkerStep(w) /\ UNCHANGED <<processVars, consumerVars>>

WorkerEnvironment(w) == Worker!Environment(w) /\ UNCHANGED <<processVars, consumerVars>>

Age(j) == Worker!Age(j) /\ UNCHANGED <<processVars, consumerVars>>

MixedNext ==
  \/ CombinedStep
  \/ StartRejected
  \/ SucceedRejected
  \/ \E w \in Workers : WorkerStep(w) \/ WorkerEnvironment(w)
  \/ \E j \in Jobs : Age(j)

\* The fairness of both modules.
MixedSpec ==
  /\ MixedInit
  /\ [][MixedNext]_mixedVars
  /\ \A j \in Jobs : WF_mixedVars(Enqueue(j) /\ UNCHANGED workerVars)
  /\ WF_mixedVars(MixedConsumerStep)
  /\ WF_mixedVars(Down /\ UNCHANGED workerVars)
  /\ \A w \in Workers : WF_mixedVars(WorkerStep(w))
  /\ \A j \in Jobs : WF_mixedVars(Age(j))
-----------------------------------------------------------------------------
(***************************************************************************)
(* Properties.                                                             *)
(***************************************************************************)
InTransaction(p) ==
  IF p = Consumer THEN pc \in {"starting", "succeeding", "failing"}
  ELSE Worker!InTransaction(p)

\* The consumer and the workers never overwrite each other's commits: a row a
\* transaction has loaded stays what it was, but for its age, until the one
\* process that holds it is done.
MixedNoLostUpdate ==
  \A p \in Processes, j \in Jobs :
    Holds(p, j) => /\ InTransaction(p)
                   /\ Worker!SameButOlder(tx[p][j], jobs[j])
                   /\ \A q \in Processes : Holds(q, j) => p = q

\* When the consumer and a worker both end up with a job, only one of their
\* outcomes is recorded, it is the row's, and a result is stored only with
\* success: _record_failure of the one cannot undo what the other stored.
OneOutcomeRecorded == Worker!TerminalEventsMatchRow /\ Worker!ResultIffSucceeded

\* set_running leaves claimed_at NULL.
StartedByConsumer(j) == jobs[j].status = "running" /\ jobs[j].claimed_at = "null"

\* Without faults, and in spite of stops and restarts, a job that the consumer
\* has started is in the consumer's hands until it has an outcome.
StartedJobsAreHandled ==
  faults = 0 => \A j \in Jobs : StartedByConsumer(j) => Handling /\ current = j

\* A job that the consumer has started is no worker's to take: no recovery puts
\* it back in the queue and no claim counts an attempt of it.
StartedJobsAreNotTaken ==
  [][\A j \in Jobs : StartedByConsumer(j) =>
       \/ jobs'[j] = jobs[j]
       \/ /\ jobs'[j].status \in Terminal
          /\ jobs'[j].attempt_count = jobs[j].attempt_count]_mixedVars

SomeWorkerPolls == []<>(\E w \in Workers : wpc[w] = "claim")

\* While some worker keeps polling, what a stop or a crash of the combined
\* process drops from its queue is picked up: the only jobs that never finish
\* are those its consumer had started, which recover_stale_running ignores.
WorkersFinishTheRest ==
  SomeWorkerPolls =>
    \A j \in Jobs : Created(j) ~> (Finished(j) \/ []StartedByConsumer(j))
=============================================================================
