------------------------ MODULE RepositoryContract ------------------------
(***************************************************************************)
(* The two implementations of the JobRepository protocol                   *)
(* (app/storage/base.py) side by side.  The contract tests and most other  *)
(* tests run on the in-memory backend, deployments run on PostgreSQL; what *)
(* the tests show carries over as far as the two agree.                    *)
(*                                                                         *)
(* One client makes any sequence of calls, also create of a job that is    *)
(* there already.  Each call is made on both: on PostgreSQL as its two     *)
(* steps, on the in-memory backend with the second.                        *)
(* Where PostgreSQL may return any of several rows created at one instant, *)
(* it returns the one the other chose, if that is one of them.             *)
(***************************************************************************)
EXTENDS PostgresRepository, Sequences, FiniteSets

CONSTANTS
  Client,      \* the one process that makes calls
  Results,     \* the results that set_succeeded may store
  Limits,      \* the limits of the listings
  TenantOf, ProjectOf, AnyProject,
  MaxSince     \* a bound: the calls made after a changed job was overwritten

ASSUME ClientAssumption == Processes = {Client}
ASSUME ResultsAssumption == Results \subseteq Nat \ {0}
ASSUME ReadersAssumption ==
  /\ DOMAIN TenantOf = Jobs
  /\ DOMAIN ProjectOf = Jobs
  /\ Limits \subseteq Nat \ {0}
ASSUME SinceAssumption == MaxSince \in Nat

VARIABLES
  memory, order,   \* the in-memory backend
  call,            \* the call that has begun on PostgreSQL
  differed,        \* the two answers of the last call, if they were not one
  since            \* history: 0 until create replaced a job that calls had
                   \* changed, then the calls from that one on

vars == <<repositoryVars, memory, order, call, differed, since>>

Memory == INSTANCE InMemoryRepository

NoCall == [op |-> "none", job |-> {}, result |-> 0]

Init ==
  /\ RepositoryInit
  /\ Memory!InMemoryInit
  /\ call = NoCall
  /\ differed = {}
  /\ since = 0

\* create replaced a job that other calls had changed: the rows may differ.
Overwritten == since # 0

\* The client makes a call.  Past the bound it makes only recover_stale_running.
MayCall == call = NoCall /\ since <= MaxSince

Begin(op, job, result) ==
  /\ call = NoCall
  /\ call' = [op |-> op, job |-> job, result |-> result]
  /\ UNCHANGED <<memory, order, differed, since>>

\* The call ends with what PostgreSQL and what the in-memory backend answer.
Answer(op, pg, mem) ==
  /\ call' = NoCall
  /\ differed' = IF pg = mem THEN {} ELSE {[op |-> op, pg |-> pg, mem |-> mem]}

Count(overwrites) ==
  since' = IF (Overwritten \/ overwrites) /\ since <= MaxSince THEN since + 1 ELSE since

\* The second create of an id fails on PostgreSQL and replaces the job in memory.
Create(j) ==
  /\ MayCall
  /\ \/ Insert(j) /\ Answer("create", "returned", "returned")
     \/ InsertRefused(j) /\ Answer("create", "IntegrityError", "returned")
  /\ Memory!Create(j)
  /\ Count(memory[j] \notin {NoRow, NewRow})

Claim ==
  \/ \E j \in Jobs :
       /\ MayCall
       /\ Memory!NextQueued \cap OldestClaimable # {} => j \in Memory!NextQueued
       /\ SelectOldestClaimable(Client, j)
       /\ Begin("claim", {j}, 0)
  \/ /\ MayCall
     /\ Claimable = {}
     /\ UNCHANGED repositoryVars
     /\ Memory!ClaimNextQueued
     /\ Answer("claim", {}, Memory!NextQueued)
     /\ Count(FALSE)

Claiming ==
  /\ call.op = "claim"
  /\ CommitClaim(Client)
  /\ Memory!ClaimNextQueued
  /\ Answer("claim", call.job, Memory!NextQueued)
  /\ Count(FALSE)

Recover ==
  /\ SelectStale(Client)
  /\ Begin("recover", Stale, 0)

Recovering ==
  /\ call.op = "recover"
  /\ CommitRecovery(Client)
  /\ Memory!RecoverStaleRunning
  /\ Answer("recover", Cardinality(call.job), Cardinality(Memory!Stale))
  /\ Count(FALSE)

\* set_running, set_succeeded and set_failed, of a job that may not exist.
Setters == {"start", "succeed", "fail"}

AllowedFrom(op) ==
  CASE op = "start"   -> FromQueued
    [] op = "succeed" -> FromRunning
    [] op = "fail"    -> FromQueuedOrRunning

SetterAnswers == {"returned", "NotFoundError", "InvalidStateTransitionError"}

MemorySet(op, j, result, answer) ==
  \/ op = "start" /\ Memory!SetRunning(j, answer)
  \/ op = "succeed" /\ Memory!SetSucceeded(j, result, answer)
  \/ op = "fail" /\ Memory!SetFailed(j, answer)

Set(op, j, result) ==
  /\ MayCall
  /\ SelectForTransition(Client, j, AllowedFrom(op))
  /\ Begin(op, {j}, result)

SetRefused(op, j, result) ==
  /\ MayCall
  /\ TransitionRejected(j, AllowedFrom(op))
  /\ \E answer \in SetterAnswers :
       /\ MemorySet(op, j, result, answer)
       /\ Answer(op, IF jobs[j] = NoRow THEN "NotFoundError"
                     ELSE "InvalidStateTransitionError", answer)
  /\ Count(FALSE)

Setting ==
  /\ \/ call.op = "start" /\ CommitStarted(Client)
     \/ call.op = "succeed" /\ CommitSucceeded(Client, call.result)
     \/ call.op = "fail" /\ CommitFailed(Client)
  /\ \E j \in call.job, answer \in SetterAnswers :
       MemorySet(call.op, j, call.result, answer) /\ Answer(call.op, "returned", answer)
  /\ Count(FALSE)

\* stale_job_seconds pass after j was claimed, on both; no time passes once they
\* differ, where only reads are compared.
Age(j) ==
  /\ call = NoCall /\ ~Overwritten
  /\ memory[j].claimed_at = "recent"
  /\ memory' = [memory EXCEPT ![j].claimed_at = "old"]
  /\ \/ GrowOld(j)
     \/ jobs[j].claimed_at # "recent" /\ UNCHANGED repositoryVars
  /\ UNCHANGED <<order, call, differed, since>>

Next ==
  \/ \E j \in Jobs : Create(j) \/ Age(j)
  \/ Claim \/ Claiming
  \/ Recover \/ Recovering
  \/ \E op \in Setters, j \in Jobs, result \in Results :
       Set(op, j, result) \/ SetRefused(op, j, result)
  \/ Setting

Spec == Init /\ [][Next]_vars
-----------------------------------------------------------------------------
(***************************************************************************)
(* The reads of PostgreSQL.                                                *)
(***************************************************************************)
GetForTenant(j, tenant) == {k \in {j} : jobs[k] # NoRow /\ TenantOf[k] = tenant}

Selected(tenant, project) ==
  {j \in Jobs : /\ jobs[j] # NoRow
                /\ TenantOf[j] = tenant
                /\ project \in {ProjectOf[j], AnyProject}}

\* ORDER BY created_at DESC LIMIT limit: list is one of the answers there may be.
IsListing(list, tenant, project, limit) ==
  LET S == Selected(tenant, project)
      answered == {list[n] : n \in 1..Len(list)}
  IN /\ answered \subseteq S
     /\ Cardinality(answered) = Len(list)
     /\ Len(list) = IF Cardinality(S) < limit THEN Cardinality(S) ELSE limit
     /\ \A n \in 1..Len(list) : \A m \in 1..n : CreatedAt[list[m]] >= CreatedAt[list[n]]
     /\ \A j \in answered, k \in S \ answered : CreatedAt[j] >= CreatedAt[k]
-----------------------------------------------------------------------------
(***************************************************************************)
(* Properties.                                                             *)
(***************************************************************************)
Finished(row) == row.status \in Terminal

\* After any sequence of calls both backends hold the same jobs, but for two
\* things: a job that succeeded or failed keeps its claimed_at in memory, where
\* PostgreSQL clears it, and nothing is said once create was called again for a
\* job that had changed since, which is queued anew in memory and stays as it is
\* on PostgreSQL.
BackendsAgree ==
  call = NoCall /\ ~Overwritten =>
    \A j \in Jobs :
      jobs[j] = IF Finished(memory[j]) THEN [memory[j] EXCEPT !.claimed_at = "null"]
                ELSE memory[j]

\* Every call answers the same on both: the same job is claimed, as many are
\* recovered, and the same transitions are refused with the same error.  The one
\* exception, until a changed job was overwritten, is the create of an id that is
\* there: PostgreSQL raises IntegrityError, the dict takes it.
AnswersAgree ==
  ~Overwritten => \A d \in differed : d.op = "create" /\ d.pg = "IntegrityError"

\* A read of the in-memory backend answers what PostgreSQL may answer: a job is
\* found by the same tenants, and listings are cut and sorted alike.
ReadsAgree ==
  call = NoCall =>
    \A j \in Jobs :
      LET tenant == TenantOf[j] IN
      /\ \A k \in Jobs : Memory!GetForTenant(k, tenant) = GetForTenant(k, tenant)
      /\ \A project \in {ProjectOf[j], AnyProject}, limit \in Limits :
           IsListing(Memory!ListRecent(tenant, project, limit), tenant, project, limit)
=============================================================================
