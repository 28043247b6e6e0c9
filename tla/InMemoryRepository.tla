------------------------ MODULE InMemoryRepository ------------------------
(***************************************************************************)
(* The in-memory backend (app/storage/in_memory.py): a dict of jobs that   *)
(* tasks of one event loop share.                                          *)
(*                                                                         *)
(* Every call is one step.  No block under the asyncio.Lock awaits         *)
(* anything, so that the lock is always free when it is asked for, and     *)
(* taking a free asyncio.Lock does not suspend the task: also the two      *)
(* blocks of set_succeeded and of set_failed run without a gap.            *)
(***************************************************************************)
EXTENDS Naturals, Sequences, FiniteSets

CONSTANTS
  Jobs,         \* job ids
  CreatedAt,    \* created_at of each job
  TenantOf,     \* tenant_id of each job
  ProjectOf,    \* project_id of each job
  AnyProject,   \* a listing without project_id
  MaxAttempts   \* max_attempts

VARIABLES
  memory,   \* the job objects
  order     \* the keys of the dict in the order of their insertion

Absent == [status |-> "absent", attempt_count |-> 0, claimed_at |-> "null",
           result |-> 0, error_message |-> "null"]

Stored(j) == memory[j] # Absent

InMemoryInit ==
  /\ memory = [j \in Jobs |-> Absent]
  /\ order = <<>>

\* A key that the dict has keeps its place and gets the new job.
Create(j) ==
  /\ memory' = [memory EXCEPT ![j] = [Absent EXCEPT !.status = "queued"]]
  /\ order' = IF Stored(j) THEN order ELSE Append(order, j)
-----------------------------------------------------------------------------
Position(j) == CHOOSE n \in 1..Len(order) : order[n] = j

\* sorted is stable: of two jobs with one created_at the first inserted leads,
\* also when the order is reversed.
Precedes(j, k) ==
  \/ CreatedAt[j] < CreatedAt[k]
  \/ CreatedAt[j] = CreatedAt[k] /\ Position(j) < Position(k)

PrecedesReversed(j, k) ==
  \/ CreatedAt[j] > CreatedAt[k]
  \/ CreatedAt[j] = CreatedAt[k] /\ Position(j) < Position(k)

Claimable ==
  {j \in Jobs : memory[j].status = "queued" /\ memory[j].attempt_count < MaxAttempts}

\* Mutant of NextQueued: the jobs are taken as the dict has them.
NextQueuedUnsorted == {j \in Claimable : \A k \in Claimable : Position(j) <= Position(k)}

\* The job that claim_next_queued returns, or none.
NextQueued == {j \in Claimable : \A k \in Claimable \ {j} : Precedes(j, k)}

ClaimNextQueued ==
  /\ memory' = [j \in Jobs |->
                  IF j \in NextQueued
                  THEN [memory[j] EXCEPT !.status = "running", !.attempt_count = @ + 1,
                                         !.claimed_at = "recent"]
                  ELSE memory[j]]
  /\ UNCHANGED order

Stale == {j \in Jobs : memory[j].status = "running" /\ memory[j].claimed_at = "old"}

Recovered(job) ==
  IF job.attempt_count >= MaxAttempts
  THEN [job EXCEPT !.status = "failed", !.error_message = "timed out", !.claimed_at = "null"]
  ELSE [job EXCEPT !.status = "queued", !.error_message = "stopped before completing",
                   !.claimed_at = "null"]

RecoverStaleRunning ==
  /\ memory' = [j \in Jobs |-> IF j \in Stale THEN Recovered(memory[j]) ELSE memory[j]]
  /\ UNCHANGED order
-----------------------------------------------------------------------------
\* _transition on j, and what the caller then stores: the call answers that it
\* returned, or which error it raised.
Transition(j, allowed_from, job, answer) ==
  /\ answer = IF ~Stored(j) THEN "NotFoundError"
              ELSE IF memory[j].status \notin allowed_from
                   THEN "InvalidStateTransitionError" ELSE "returned"
  /\ memory' = IF answer = "returned" THEN [memory EXCEPT ![j] = job] ELSE memory
  /\ UNCHANGED order

SetRunning(j, answer) ==
  Transition(j, {"queued"}, [memory[j] EXCEPT !.status = "running"], answer)

\* Mutant of SetSucceeded: the second block, which stores the result, is lost.
SetSucceededWithoutResult(j, result, answer) ==
  Transition(j, {"running"}, [memory[j] EXCEPT !.status = "succeeded"], answer)

\* claimed_at stays, here and in set_failed.
SetSucceeded(j, result, answer) ==
  Transition(j, {"running"},
             [memory[j] EXCEPT !.status = "succeeded", !.result = result], answer)

SetFailed(j, answer) ==
  Transition(j, {"queued", "running"},
             [memory[j] EXCEPT !.status = "failed", !.error_message = "evaluation failed"],
             answer)
-----------------------------------------------------------------------------
\* get, then the tenant is compared.
GetForTenant(j, tenant) == {k \in {j} : Stored(k) /\ TenantOf[k] = tenant}

Listed(tenant, project) ==
  {j \in Jobs : /\ Stored(j)
                /\ TenantOf[j] = tenant
                /\ project \in {ProjectOf[j], AnyProject}}

\* The first limit jobs of S, newest first.
Newest(S, limit) ==
  LET rank(j) == 1 + Cardinality({k \in S : PrecedesReversed(k, j)}) IN
  [n \in 1..(IF Cardinality(S) < limit THEN Cardinality(S) ELSE limit) |->
     CHOOSE j \in S : rank(j) = n]

\* Mutant of ListRecent: the list is cut before it is filtered.
ListRecentCutFirst(tenant, project, limit) ==
  SelectSeq(Newest({j \in Jobs : Stored(j)}, limit), LAMBDA j : j \in Listed(tenant, project))

ListRecent(tenant, project, limit) == Newest(Listed(tenant, project), limit)
=============================================================================
