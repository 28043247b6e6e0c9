# TLA+ verification of the LLM evaluation service

The service accepts evaluation jobs over HTTP, stores them in PostgreSQL and evaluates
them, either in the API process (role `combined`) or in separate worker processes (roles
`api` and `worker`). What can go wrong is in the interleaving: several processes over one
table, each repository call a transaction of two steps, evaluations that outlive their
claim, processes that die between two commits, and handlers that wait for the database
between two checks. The models keep that control and abstract the data.

## Inventory

| Part | State it keeps | Operations | What makes it correct |
|---|---|---|---|
| `app/storage/postgres.py` | rows of `evaluation_jobs`, row locks | `create`, `claim_next_queued`, `recover_stale_running`, `set_running`, `set_succeeded`, `set_failed`, reads | no lost update; an outcome is final; a running row can be recovered |
| `app/services/worker.py`, `app/worker.py` | the polling task, `_stopping` | recover, claim, process, stop | one worker per attempt; the attempt budget; every job ends |
| `app/services/job_service.py` | audit events | `submit`, `process`, `process_claimed`, `_record_failure` | audit events agree with the rows |
| `app/services/queue.py`, `app/main.py` | in-memory queue, consumer task, gauge | `enqueue`, `_run`, `start`, `stop` | a job is in one place; a stop ends; errors do not end the consumer |
| `app/core/rate_limit.py` | one window counter per key | `check` | bursts are bounded; refusals are earned |
| `app/api/routes.py`, `app/core/auth.py` | none of their own | four routes | tenant isolation; what was answered with 202 is found |
| `app/core/metrics.py`, `audit.py` | counters, gauge, event list | `record_*` | follow the transitions; every score is counted once |
| `app/storage/in_memory.py` | a dict and a lock | as PostgreSQL | answers and stores what PostgreSQL does |
| `app/domain/evaluation.py`, `app/core/resilience.py` | none | scoring, retry, timeout | score in range; bounded time and calls; nothing left running |
| `migrations/`, `app/storage/factory.py`, `app/api/health.py` | the table's columns and indexes, `alembic_version` | `create_all`, upgrade, downgrade, readiness | the version describes the table, whoever created it; commands are safe to repeat |

Interactions: the routes call the job service, which calls the repository and the queue;
the queue's consumer calls back `process`; workers meet the API and each other only in the
table, through row locks, `status` and `claimed_at`. The hard behaviours are listed, with
their source lines, as `hazards` in `PROJECT.json`.

## Modules

```
PostgresRepository      rows and two-step transactions (operators only)
  |- PostgresRepositoryProofs  what each operator does to a row (lemmas)
  |- SplitService       API + workers over the table           -> JobLifecycle
  |    |- MCSplitService, SplitServiceProofs (with the refinement)
  |- CombinedService    submit + queue + consumer in one process
  |    |- MCCombinedService
  |    |- MixedService  the combined process beside split workers
  |         |             (SplitService by INSTANCE)
  |         |- MCMixedService, CombinedServiceProofs (of both)
  |- RepositoryContract PostgreSQL and the in-memory backend side by side
       |                  (InMemoryRepository by INSTANCE)
       |- MCRepositoryContract, RepositoryContractProofs
RateLimiter             fixed-window counters
  |- MCRateLimiter, RateLimiterProofs
  |- ApiService         routes over the limiter and the table (INSTANCE)
       |- MCApiService, ApiServiceProofs (RateLimiterProofs by INSTANCE)
Scoring                 the mock score as an operator
  |- Evaluator          one call of score: retry, timeout, duration
       |- MCEvaluator, EvaluatorProofs
Schema                  create_all, Alembic, readiness
  |- MCSchema, SchemaProofs
JobLifecycle            abstract: what a polling client may see
```

Operators named as mutants (`...Late`, `...Unchecked` and so on, each with a comment) are
faulty variants of the definition that follows them. No specification uses them; substituted
for it, each makes one property fail.

### PostgresRepository

A repository call that changes rows is a `SELECT ... FOR UPDATE` that loads and locks them
into `tx[p]` and a `COMMIT` that writes `tx[p]`, as changed, to `jobs` and frees the locks.
`Locked`, `Load`, `Commit` and `Rollback` are PostgreSQL as the code uses it (external).
`SKIP LOCKED` is in `Claimable` and `Stale`; `set_*` wait for the lock
(`SelectForTransition`, `TransitionRejected`). At READ COMMITTED a row that was locked when
the statement began is read again when its lock is granted, so testing the status at the
moment of the lock is what PostgreSQL does. `claimed_at` has three values: NULL, not older
than the cutoff, older. `GrowOld` may happen at any time after a claim, so that slow
workers, clock differences and a small `APP_WORKER_STALE_JOB_SECONDS` are all included. A
result is represented by the number of the attempt that produced it. `NotFoundError` of the
`set_*` calls occurs only in RepositoryContract, as nothing deletes rows.

### SplitService

One `pc` per worker names the statement of `run` / `process_claimed` it is about to execute;
each `await` on the database is a place where others run. `set_succeeded` and `set_failed`
are three steps: the locking SELECT, the COMMIT, and the refresh of the row with which the
call returns; the event is recorded with the last (`SucceedRefresh`, `FailRefresh`), so that
for as long as the refresh takes others see an outcome that the audit log lacks. The claim's
refresh is left in the step of its commit: what follows it is the event of the start, of
which only an upper bound is stated. `Submit` is one step, as nothing
reads the API's in-memory queue in this role. Faults: a database call raises
(`DatabaseError`), a commit takes effect but its answer is lost (`AnswerLost`,
`SubmitLost`), a process is killed (`Crash`). `dead` is the state in which `run` has raised
and the process still waits for its signal. The audit log is the stream of recorded events,
which survives processes, and `evaluation_jobs_total` with it; the worker-local
`evaluation_worker_recovered_jobs_total` is left out. `evaluator.score` scores or raises in
one step; Evaluator has what happens inside.

### JobLifecycle

The promise to a client: statuses, attempt counts and results change in atomic steps, in the
order a client expects. The refinement mapping takes columns of the committed rows. `Fail`
is allowed from `queued` because the code does that (finding 2).

### CombinedService

`submit` is two steps, as the row is committed before the id is put on the queue.
`asyncio.Queue` is a sequence, `None` its sentinel. From the end of a handler to the next
`get` nothing waits, so `task_done`, the gauge and the loop test belong to the last step of
the handler. A restart has an empty queue and the table as it was. The refresh after a
commit is not a step of the consumer's, as nothing here bounds its events from below.

### MixedService

`APP_PROCESS_ROLE` is `combined` by default, and `main.py` starts the consumer whatever else
runs, so a worker beside such a process shares its table. The module is the interleaving of
CombinedService with SplitService's workers over one `jobs`, `tx`, `audit` and `faults`. A
worker may claim the row between `submit` and the consumer's `set_running`. The consumer is
then refused (`StartRejected`, which cannot happen to a consumer that is alone:
`ConsumerIsNeverRefused`) and fails the job from `running`; what is checked is that this is
as far as it goes: no commit is overwritten, one outcome is recorded, and a job that the
consumer has started is taken by nobody. `WorkersFinishTheRest` gives the exact extent of
what is lost when the combined process dies: rows `running` with `claimed_at` NULL, and
nothing else.

### InMemoryRepository and RepositoryContract

Each call of the in-memory backend is one step: no block under its `asyncio.Lock` awaits, so
the lock is never contended and taking it does not suspend; that includes the two blocks of
`set_succeeded` and `set_failed`. RepositoryContract lets one client make any sequence of
calls on both backends, each answered with what it returns or with the error it raises.
`create` may be called for an id that is there: PostgreSQL raises `IntegrityError`
(`InsertRefused`), the dict takes the new object and queues the job anew. After that the rows
differ, if the job had changed, and so may every later answer; the properties say what holds
up to there (`since`, a history variable), and that reads by tenant, order and limit agree
even then. The application never does this, as ids come from `uuid4`. `MaxSince` bounds the
calls made afterwards; past it only `recover_stale_running` is called.

PostgreSQL may return any of several rows with one `created_at`; it is taken to return the
one the other backend chose whenever that is among them. The listing of PostgreSQL is a
predicate on answers (`IsListing`) for the same reason.

### Scoring and Evaluator

A text is a set of tokens with a length and the term each becomes: the length test comes
before punctuation is stripped, so a term can be short or empty. Evaluator is one call of
`score` with integer time. An operation returns, raises or hangs; `asyncio.wait_for` cancels
it and waits for its end (external), so a timeout leaves nothing running. `attempts` and
`timeout_seconds` range over small sets that include zero; `score` itself passes 2 attempts.

### Schema

`create_all` and each Alembic command are one transaction, with the look at the catalogue a
step of its own. `alembic_version` is a set of rows, as Alembic inserts and updates it
without asking whether others have: its primary key and the count of updated rows are what
detects an overlap (`CanUpgrade`, `CanDowngrade`). The columns of revision 0001 are one
element. Upgrades, downgrades and starting processes overlap in any way, as `env.py` takes no
lock. `overtaken` and `undercut` are history variables: that somebody has committed since a
command's first look, and that 0002 was taken back between the inspection and the statements
of an upgrade. The second is the one way to version 0002 without its columns (see below).

### RateLimiter and ApiService

`check` awaits nothing and all handlers run on one event loop, so one check is one step. The
log of admissions is a history variable; it begins again when the process is replaced, as
the limiter is per process. In ApiService a request is decided (401, 400, 429, or accepted)
in one step, stamped and, later, served by one SQL statement. Callers are identified by
their token or, with authentication off, by the tenant they name. A tenant id and an address
are sequences of the parts between their colons, and the limiter's key joins them as
`client_key` does: `acme` at `eu:X` and `acme:eu` at `X` have one counter. Validation by
FastAPI (422) and the `project_id` filter are left out.

## Runs

| Run | Instance | Shows |
|---|---|---|
| `split_safety` | 2 workers, 2 jobs, 2 attempts, 2 faults, signals | the invariants of the split deployment |
| `split_lifecycle` | the same with 1 fault, fairness | refinement of JobLifecycle, outcomes are final, jobs finish while some worker polls |
| `worker_dies` | 1 worker, no fault (violation) | finding 1 |
| `slow_worker` | 2 workers, no fault, no failing evaluation (violation) | finding 2 |
| `combined` | 3 jobs, 2 faults, 1 stop, fairness | hand-over, gauge, stop, liveness of the combined role |
| `rate_limiter` | limits 0 and 2, window 3, 8 instants, restarts | bursts and refusals |
| `api` | 2 tenants, 2 addresses, 2 jobs, 3 requests, 3 instants, 1 restart | isolation, durability of 202, whose requests use up a limit |
| `mixed` | combined process and 2 workers, 1 job, 2 attempts, 2 faults, 1 stop, fairness | no overwriting, one outcome, who finishes what |
| `backends` | 3 jobs (2 of one instant), 2 tenants, 2 projects, 2 attempts | where both backends answer, store and list alike |
| `evaluator` | 0 to 3 attempts, timeouts 0 and 2, 864 requests, fairness | bounded in time and calls, recorded, score in range |
| `schema` | 2 operators, 2 auto-creating processes, 1 other, outages | what a version says of the table, when commands fail |
| `readiness` | 1 process without `auto_create_schema` (violation) | finding 3 |

Bounds. Two workers, two jobs and two attempts are the smallest instance with every hazard
of the split role: a claim race, a recovery that races its worker, a second attempt that
overlaps a first, a last attempt, and a job left over while another is in trouble. Two faults
let an error in `set_succeeded` be followed by one in `set_failed`, or by a crash. Three jobs
fill the combined role's queue with two entries behind a handled one. A window of three and a
clock of eight instants give the limiter two full windows and a part of a third. Two requests
are needed to submit and read, a third to be refused or to interleave; of the two tenants
one has a colon in its id, and of the two addresses one makes the other's key. In `mixed` the
consumer and the workers meet over one job; a second worker recovers it from the first, the
consumer starts it, and the first finishes it late (`SucceedRejected`). Three jobs give
`backends` a tie on `created_at` next to an order that is not the order of insertion; one
call after a changed job was overwritten is enough to read what it left.
`evaluator` has answers with up to five common terms, one more than the cap of the overlap,
and lengths at and beyond the caps. In `schema` two operators and two auto-creating
processes are the pairs that can collide, and two operators already produce the undercut
upgrade. Workers, operators and job ids are symmetric where SYMMETRY is given; no liveness
run uses symmetry. `MaxFaults`, `MaxStops`, `MaxTime`, `MaxRequests`, `MaxRestarts` and
`MaxSince` are the only bounds of the models. The largest instances are `backends` (2.8
million states), `api` (1.2 million), `split_safety` (0.5 million) and `schema` (0.4 million).

Deadlock is checked in the split runs, `rate_limiter`, `backends` and `schema`. It is
switched off where a model stops by its own bounds (`api`), where all jobs are done and
nobody stops the process (`combined`, `mixed`), where the one call has ended (`evaluator`),
and where the instance restarts nothing (`worker_dies`, `slow_worker`).

Fairness. Weak fairness of each worker's own steps and of the consumer: the event loop runs
a task that can run, `evaluator.score` is bounded by its timeout, a database call answers or
raises. Weak fairness of `Age`: time passes. No fairness on submissions, signals, restarts
or faults. `mixed` has the fairness of both its parts. `evaluator` has time that passes and
timers that fire; no operation has to return or raise, so `ScoreEnds` rests on the timeout
alone and is what justifies the fairness of `Score` elsewhere. `JobsFinish` has the
hypothesis that some worker keeps coming back to `claim_next_queued`; finding 1 is what
happens without it.

## Findings

1. `worker_dies`: a failed evaluation ends the worker task (`worker.py:52`), the process stays.
2. `slow_worker`: a worker whose claim was recovered fails the re-queued job, with attempts
   left and no evaluation that failed (`job_service.py:157`, `postgres.py:169`). It needs a
   worker paused for longer than `APP_WORKER_STALE_JOB_SECONDS`, or a setting below the time
   an evaluation takes.
3. `readiness`: `/health/ready` is `SELECT 1` (`postgres.py:181`). The runbook says that it
   checks the repository dependency and names a missing migration as a cause of 503; a
   process without `auto_create_schema` answers 200 with no table.

Seen while modelling, without a property of its own:

- A restart of the combined role does not resume queued jobs (`main.py:86`), which
  `docs/operations-runbook.md:95` names as the mitigation for stuck jobs;
  `docs/api-worker-split.md:41` does say that queued jobs are not durable.
- The combined role records no attempt metadata: `attempt_count` stays 0
  (`job_service.py:83`).
- In a mixed deployment the consumer, refused by `set_running`, fails a job that a worker is
  evaluating; the worker's result is then refused.
- Two database errors in a row leave a combined job `running` with `claimed_at` NULL, which
  `recover_stale_running` ignores. Rows `running` when revision 0002 is applied have the same
  shape.
- `error_message` of a recovered job stays after it succeeds. A job that has finished keeps
  `claimed_at` in the in-memory backend.
- In the `api` role the in-memory queue and its gauge only grow.
- A token of punctuation only, longer than three characters, becomes an empty term, which
  counts as overlap between question and answer.
- Overlapping Alembic commands can leave version 0002 on a table without its columns. At
  0001, one operator begins an upgrade; a second upgrades to 0002 and begins a downgrade; the
  first inspects the table, which is complete; the second takes 0002 back; the first adds
  nothing and stores 0002. From then on an upgrade has nothing to do and a downgrade fails
  on its first statement (`0002:48`). `VersionDescribesSchema` and `FailsOnlyWhenOvertaken`
  name this history (`undercut`) and nothing else as their exception; without it TLC finds
  these steps.
- Two callers share a counter of the limiter when tenant and address, joined by a colon, read
  alike (`rate_limit.py:48`). A tenant id is any string that is not empty, an IPv6
  address and `x-forwarded-for` may contain colons. Tenant ids without colons rule it out
  (`PlainTenantsAreSeparate`).
- `create` of an id that is there raises on PostgreSQL and replaces the job in memory.
- A client can see an outcome before its audit event, for the time of one refresh
  (`postgres.py:161`); when that refresh fails, the event is never recorded.
- A response to an unhandled exception passes neither `MetricsMiddleware` nor
  `RequestIdMiddleware`: it is not counted and has no `x-request-id` header.

## Proofs

Every invariant and every action property that a passing run checks is also a theorem, for
every value of the constants: any number of workers, jobs, tenants and processes, any limits,
timeouts and bounds. The assumptions are the named ones of the modules, which the runs
evaluate for their instances. They say that creation times, bounds and limits are numbers,
that a window and an attempt budget are not zero, that markers (`NoJob`, `None`, `NoTable`)
are not members of what they mark the absence of, that outcomes and requests are of
the kinds the code knows, and that ApiService has finitely many job ids and page sizes above
zero (`Query(ge=1)`), and Evaluator texts with finitely many tokens. The provers get each
module's assumptions by name, where they are needed.

None of the invariants is inductive alone. What each proof adds:

*SplitServiceProofs*: `Inv = TypeOK /\ RowsOK /\ LocksOK /\ HoldsClaim /\ ClaimsCounted /\
OneWorkerPerAttempt /\ AuditOK`. A commit writes what a transaction loaded some steps
ago, so anything about rows needs `LocksOK`: a loaded row is still the committed one but for
its age, is held by one process only, and only inside a call. `RowsOK` relates the columns
of a row (it gives `RunningIsRecoverable`, `ResultIffSucceeded` and the budget). That two
claims of a job differ in their attempt follows from `ClaimsCounted`: an attempt held by a
worker is never larger than the row's count, and a new claim takes the next number;
`HoldsClaim` says which row the transaction of a claiming or finishing worker holds.
`AuditOK` relates the events to the rows and to the claims not yet recorded. The argument is
in three layers: what the commit operators do to one row (PostgresRepositoryProofs), which
steps write rows at all, and one lemma per part of the invariant. `TerminalIsFinal` follows
from the same facts as an action property. `NoOrphanWithoutFault` and
`OnlyRecoveryIsUnaudited` are inductive relative to `Inv`: `faults` never decreases, so a
state without faults was reached without any (`FaultFreeStep`); a row begins to run only by
the commit of the claim of the worker that then works on it (`StartsByClaim`), that worker
leaves only when the row runs no more (`LeavesFinished`), and a row that gets an outcome gets
it from the commit of a worker that is then in the refresh, or from recovery
(`OutcomeIsPending`); that worker leaves the refresh by recording the event
(`RefreshRecords`).

`Refinement`, in the same module, is `Spec => ImplementsLifecycle`: inserts are `Submit`, the
four commits are `Claim`, `Recover` (of all rows held), `Succeed` and `Fail`, and every other
step, aging included, stutters.

*CombinedServiceProofs* has two invariants. Alone, the consumer is the only one to change a
row that has been created, so the status of the row it handles follows from where it is
(`ConsumerOK`), a job on the queue is there once and as `create` left it (`QueueOK`), and the
sentinel of `stop` is on the queue of a process that stops only (`ProcessOK`);
`NothingDropped` is `JobsAreHandedOver` with the places in between. Beside workers none of
this holds. `MixedInv` rests on the locks alone (`MixedLocksOK`, `HoldersOK`): who is between
its SELECT and its commit has the row to itself, with the status that the call tested. A row
that runs without `claimed_at` was started by the consumer, because recovery takes only rows
with an old `claimed_at`, and the two cannot be confused.

*ApiServiceProofs* takes the limiter's invariant from RateLimiterProofs, instantiated for the
routes' keys and limits, and adds what a handler keeps across its database call: the tenant
it was authorized for is the one it reads and writes for (`CallsOK`), so the `tenant_id` of a
row is its submitter (`OwnersOK`). The log of accepted requests has the times of the
limiter's log, since both are kept under `client_key`, and each entry's tenant and address
join to the key it is under (`AcceptedOK`). So a refusal has as many recent requests behind it
as the route admits, and if no other caller makes the same key they are all the caller's.
`PlainTenantsAreSeparate` adds that tenant ids with equally many colons never share a key.

*RateLimiterProofs* proves the two bounds of the limiter for every limit (zero and negative
included) and every window. `WindowOK` adds what is needed: the last `count` admissions of a
key began at `window_start`, and all but the last `Budget - 1` admissions before them are a
whole window older. From it, admission number `i + 2 * Budget - 1` comes at least
`window_seconds` after number `i`.

*RepositoryContractProofs* shows that the two backends agree for any jobs, creation times,
tenants and projects, up to the `create` that replaces a changed job (`Agreement`), and that
both have the same ids after it too (`Stored`), which is all that reads depend on. The
agreement holds also while a call is under way: the rows agree,
the call has locked exactly the rows that the in-memory backend is about to change
(`LoadedOK`, `CallOK`), and the dict has each stored job once (`OrderOK`). That both claim
the same job needs a unique earliest one (`EarliestExists`); that listings agree needs the
ranks of the selected jobs to be 1, 2, ..., each once, in the order of the sort (`Ranks`,
`ListingRanks`), so that cutting at the limit keeps the newest.

*EvaluatorProofs*: the time so far is at most that of the attempts made and the delays
between them (`OnTime`). The sum of the doubling delays needs `2^(n+1) = 2 * 2^n`, about
which the provers know nothing; it is derived from the library's fact that 2^n counts the
subsets of n elements. `SignalsCount` is arithmetic on the parts of the score, from the
finiteness of the texts.

*SchemaProofs*: a revision adds what it did not find, to the table as it is when it runs. The
result is complete because every table there ever is has what `create_all` and revision 0001
both make (`TableOK`), and because what a migrator found of 0002 is still there while 0001 is
the version (`FoundRemains`), as only the downgrade of 0002 drops it, and that sets `undercut`
if it happens under an upgrade that has looked. `LooksAreFresh` (what a command that nobody
has overtaken has read is how things are) gives `FailsOnlyWhenOvertaken`.

Only model-checked: liveness (`JobsFinish`, `UndisturbedJobsFinish`, `StopsEnd`,
`WorkersFinishTheRest`, `ScoreEnds`), which needs fairness and ENABLED and is out of the
prover's reach, and the three findings, which are counterexamples.

## Plan

Done: all modules above, and proofs of every safety property that a run checks. Left:

1. CombinedService: which of its steps are steps of JobLifecycle, and a proof of that
   refinement, as for the split workers.
2. The safety halves of the liveness properties: the steps that never undo progress, as
   action properties (an attempt count never falls, a queue only loses its head).
3. RateLimiter: an abstract limiter that ApiService could be proved against without its
   counters.

## Not modelled

Logging and tracing (output only), the HTTP middleware, CORS and the HTTP counters (library
call order and rendering), settings (constants of the models), the response models of
`domain/models.py` (selection of fields), Alembic's offline mode, the encoding of tokens,
the OpenAPI export, the validation scripts and the manifests. None keeps state the service
depends on.
