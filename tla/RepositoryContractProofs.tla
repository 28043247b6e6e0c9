---------------------- MODULE RepositoryContractProofs ----------------------
(***************************************************************************)
(* Proofs that the in-memory backend and PostgreSQL agree, for every set   *)
(* of jobs, whatever their creation times, tenants and projects, and after *)
(* every sequence of calls, up to the create of a job that is there.       *)
(***************************************************************************)
EXTENDS RepositoryContract, PostgresRepositoryProofs, FiniteSetTheorems, FunctionTheorems,
        TLAPS

(***************************************************************************)
(* The inductive invariant.  Always, both backends have the same keys.     *)
(* Until create has replaced a job that had changed, the rows agree too,   *)
(* also while a call is under way on PostgreSQL, since neither backend     *)
(* changes before its commit; what the call has locked is what the         *)
(* in-memory backend is about to change.                                   *)
(***************************************************************************)
TypeOK ==
  /\ RepositoryTypeOK
  /\ memory \in [Jobs -> Row]
  /\ order \in Seq(Jobs)
  /\ since \in Nat

\* A job object as PostgreSQL keeps it.
InTable(job) == IF Finished(job) THEN [job EXCEPT !.claimed_at = "null"] ELSE job

Agrees(j) == jobs[j] = InTable(memory[j])

\* The dict has the stored jobs, each once.
OrderOK ==
  /\ \A m, n \in 1..Len(order) : order[m] = order[n] => m = n
  /\ \A j \in Jobs : memory[j] # NoRow <=> \E n \in 1..Len(order) : order[n] = j

\* The call has locked and loaded the rows that it is about to write.
LoadedOK ==
  /\ \A j \in Jobs : tx[Client][j] = IF j \in call.job THEN jobs[j] ELSE NoRow
  /\ \A j \in call.job : j \in Jobs /\ jobs[j] # NoRow

\* They are the rows that the in-memory backend would choose.
CallOK ==
  \/ call = NoCall
  \/ call.op = "claim" /\ call.job = Memory!NextQueued
  \/ call.op = "recover" /\ call.job = Memory!Stale
  \/ /\ call.op \in Setters /\ call.result \in Results
     /\ \E j \in Jobs : call.job = {j} /\ memory[j].status \in AllowedFrom(call.op)

\* Only the create of an id that is there was answered differently.
DifferencesOK == \A d \in differed : d.op = "create" /\ d.pg = "IntegrityError"

Agreement ==
  /\ TypeOK
  /\ \A j \in Jobs : Agrees(j)
  /\ OrderOK
  /\ LoadedOK
  /\ CallOK
  /\ DifferencesOK

\* What holds also once a job was overwritten.
SameKeys == \A j \in Jobs : jobs[j] = NoRow <=> memory[j] = NoRow

SettingOK == call.op \in Setters => call.result \in Nat

Stored ==
  /\ TypeOK
  /\ OrderOK
  /\ LoadedOK
  /\ SameKeys
  /\ SettingOK

Inv == Stored /\ (~Overwritten => Agreement)

-----------------------------------------------------------------------------
(***************************************************************************)
(* What the agreement of two rows says.                                    *)
(***************************************************************************)
\* A job that is not in the dict and an id without a row are written alike.
LEMMA AbsentIsNoRow == Memory!Absent = NoRow
  BY DEF Memory!Absent, NoRow

\* The columns of a row and of a job object that agree.
LEMMA AgreeingRows ==
  ASSUME TypeOK, NEW j \in Jobs, Agrees(j)
  PROVE  /\ memory[j] \in Row /\ jobs[j] \in Row
         /\ jobs[j].status = memory[j].status
         /\ jobs[j].attempt_count = memory[j].attempt_count
         /\ memory[j].status \notin Terminal => jobs[j] = memory[j]
         /\ memory[j].status \in Terminal => jobs[j].claimed_at = "null"
         /\ jobs[j] = NoRow <=> memory[j] = NoRow
<1>1. memory[j] \in Row /\ jobs[j] \in Row
  BY DEF TypeOK, RepositoryTypeOK
<1>2. CASE memory[j].status \in Terminal
  <2>1. jobs[j] = [memory[j] EXCEPT !.claimed_at = "null"]
    BY <1>2 DEF Agrees, InTable, Finished
  <2>2. /\ jobs[j].status = memory[j].status
        /\ jobs[j].attempt_count = memory[j].attempt_count
        /\ jobs[j].claimed_at = "null"
    BY <1>1, <2>1 DEF Row
  <2>3. jobs[j] # NoRow /\ memory[j] # NoRow
    BY <1>2, <2>2 DEF NoRow, Terminal
  <2> QED BY <1>1, <1>2, <2>2, <2>3
<1>3. CASE memory[j].status \notin Terminal
  BY <1>1, <1>3 DEF Agrees, InTable, Finished
<1> QED BY <1>2, <1>3

\* Without a call under way nothing is locked, and both backends see the same
\* jobs to claim and to recover.
LEMMA SameChoices ==
  ASSUME Agreement, call = NoCall
  PROVE  /\ \A j \in Jobs : ~Locked(j)
         /\ Claimable = Memory!Claimable
         /\ Stale = Memory!Stale
<1>1. \A j \in Jobs : ~Locked(j)
  BY ClientAssumption DEF Agreement, LoadedOK, NoCall, Locked, Holds
<1>2. ASSUME NEW j \in Jobs
      PROVE  /\ jobs[j].status = memory[j].status
             /\ jobs[j].attempt_count = memory[j].attempt_count
             /\ jobs[j].status = "running" => jobs[j] = memory[j]
  BY AgreeingRows DEF Agreement, Terminal
<1>3. Claimable = Memory!Claimable
  BY <1>1, <1>2 DEF Claimable, Memory!Claimable
<1>4. Stale = Memory!Stale
  BY <1>1, <1>2 DEF Stale, Memory!Stale
<1> QED BY <1>1, <1>3, <1>4

(***************************************************************************)
(* The order of the dict.                                                  *)
(***************************************************************************)
\* A stored job has a place of its own in the dict.
LEMMA Positions ==
  ASSUME TypeOK, OrderOK
  PROVE  /\ \A j \in Jobs : memory[j] # NoRow => Memory!Position(j) \in 1..Len(order)
         /\ \A j, k \in Jobs :
              memory[j] # NoRow /\ memory[k] # NoRow /\ Memory!Position(j) = Memory!Position(k)
                => j = k
<1>1. ASSUME NEW j \in Jobs, memory[j] # NoRow
      PROVE  Memory!Position(j) \in 1..Len(order) /\ order[Memory!Position(j)] = j
  <2>1. \E n \in 1..Len(order) : order[n] = j
    BY <1>1 DEF OrderOK
  <2> QED BY <2>1 DEF Memory!Position
<1> QED BY <1>1

\* Some natural numbers have a smallest.
LEMMA Smallest ==
  ASSUME NEW T \in SUBSET Nat, T # {}
  PROVE  \E x \in T : \A y \in T : x <= y
<1>1. PICK x \in T : \A y \in T : <<y, x>> \notin OpToRel(<, Nat)
  BY NatLessThanWellFounded, WFMin, Zenon
<1>2. \A y \in T : ~(y < x)
  BY <1>1, Zenon DEF OpToRel
<1> QED BY <1>2

\* The earliest of some stored jobs, of those created at one instant the first
\* in the dict, is the only one that precedes all others.
LEMMA EarliestExists ==
  ASSUME TypeOK, OrderOK, NEW S \in SUBSET Jobs, S # {}, \A j \in S : memory[j] # NoRow
  PROVE  \E j \in S : /\ {i \in S : \A k \in S \ {i} : Memory!Precedes(i, k)} = {j}
                      /\ \A k \in S : CreatedAt[j] <= CreatedAt[k]
<1>1. \A j \in S : CreatedAt[j] \in Nat
  BY JobsAssumption
<1>2. PICK i \in S : \A k \in S : CreatedAt[i] <= CreatedAt[k]
  <2>1. {CreatedAt[j] : j \in S} \in SUBSET Nat /\ {CreatedAt[j] : j \in S} # {}
    BY <1>1
  <2>2. PICK x \in {CreatedAt[j] : j \in S} : \A y \in {CreatedAt[j] : j \in S} : x <= y
    BY <2>1, Smallest
  <2> QED BY <2>2
<1> DEFINE First == {j \in S : CreatedAt[j] = CreatedAt[i]}
<1>3. \A j \in S : Memory!Position(j) \in Nat
  <2>1. Len(order) \in Nat
    BY DEF TypeOK
  <2>2. \A j \in S : Memory!Position(j) \in 1..Len(order)
    BY Positions
  <2> QED BY <2>1, <2>2
<1>4. PICK j \in First : \A k \in First : Memory!Position(j) <= Memory!Position(k)
  <2>1. {Memory!Position(k) : k \in First} \in SUBSET Nat
    BY <1>3
  <2>2. {Memory!Position(k) : k \in First} # {}
    OBVIOUS
  <2>3. PICK x \in {Memory!Position(k) : k \in First} :
          \A y \in {Memory!Position(k) : k \in First} : x <= y
    BY <2>1, <2>2, Smallest
  <2> QED BY <2>3
<1>5. \A k \in S : CreatedAt[j] <= CreatedAt[k]
  BY <1>2, <1>4
<1>6. ASSUME NEW k \in S \ {j}
      PROVE  Memory!Precedes(j, k) /\ ~Memory!Precedes(k, j)
  <2>1. CASE CreatedAt[j] = CreatedAt[k]
    <3>1. k \in First
      BY <1>4, <2>1
    <3>2. Memory!Position(j) <= Memory!Position(k) /\ Memory!Position(j) # Memory!Position(k)
      BY <1>4, <3>1, Positions
    <3> QED BY <1>1, <1>3, <2>1, <3>2 DEF Memory!Precedes
  <2>2. CASE CreatedAt[j] # CreatedAt[k]
    BY <1>1, <1>5, <2>2 DEF Memory!Precedes
  <2> QED BY <2>1, <2>2
<1>7. {l \in S : \A k \in S \ {l} : Memory!Precedes(l, k)} = {j}
  BY <1>6
<1> QED BY <1>5, <1>7

\* The in-memory backend claims one of the jobs that PostgreSQL may claim.
LEMMA ClaimsAgree ==
  ASSUME Agreement, call = NoCall
  PROVE  /\ Claimable = {} => Memory!NextQueued = {}
         /\ Claimable # {} => \E j \in OldestClaimable : Memory!NextQueued = {j}
<1>1. Claimable = Memory!Claimable
  BY SameChoices
<1>2. \A j \in Memory!Claimable : j \in Jobs /\ memory[j] # NoRow
  BY DEF Memory!Claimable, NoRow
<1>3. CASE Claimable = {}
  BY <1>1, <1>3 DEF Memory!NextQueued
<1>4. CASE Claimable # {}
  <2>1. PICK j \in Memory!Claimable :
          /\ Memory!NextQueued = {j}
          /\ \A k \in Memory!Claimable : CreatedAt[j] <= CreatedAt[k]
    BY <1>1, <1>2, <1>4, EarliestExists DEF Agreement, Memory!NextQueued
  <2> QED BY <1>1, <1>4, <2>1 DEF OldestClaimable
<1> QED BY <1>3, <1>4

-----------------------------------------------------------------------------
(***************************************************************************)
(* The steps.                                                              *)
(***************************************************************************)
\* A call begins on PostgreSQL: the rows it locks are loaded.
LEMMA Beginning ==
  ASSUME Agreement, NEW S \in SUBSET Jobs, NEW op, NEW r,
         Load(Client, S), UNCHANGED jobs, Begin(op, S, r),
         \A j \in S : jobs[j] # NoRow
  PROVE  /\ UNCHANGED <<jobs, memory, order, differed, since>>
         /\ call'.op = op /\ call'.job = S /\ call'.result = r
         /\ TypeOK' /\ (\A j \in Jobs : Agrees(j)') /\ OrderOK' /\ LoadedOK' /\ DifferencesOK'
<1>0. Client \in Processes /\ RepositoryTypeOK
  BY ClientAssumption DEF Agreement, TypeOK
<1>1. /\ UNCHANGED <<jobs, memory, order, differed, since>>
      /\ call'.op = op /\ call'.job = S /\ call'.result = r
  BY DEF Begin
<1>2. RepositoryTypeOK'
  BY <1>0, LocksType
<1>3. LoadedOK'
  <2>1. \A j \in Jobs : tx'[Client][j] = IF j \in S THEN jobs[j] ELSE NoRow
    BY <1>0, LoadPointwise
  <2> QED BY <1>1, <2>1 DEF LoadedOK
<1> QED BY <1>1, <1>2, <1>3 DEF Agreement, TypeOK, Agrees, OrderOK, DifferencesOK

\* What is locked is what the call has loaded.
LEMMA LockedRows ==
  ASSUME Agreement, NEW j \in Jobs
  PROVE  /\ Holds(Client, j) <=> j \in call.job
         /\ j \in call.job => tx[Client][j] = jobs[j]
  BY DEF Agreement, LoadedOK, Holds

\* A call is counted, and what was overwritten stays so.
LEMMA Counting ==
  ASSUME since \in Nat, NEW b \in BOOLEAN, Count(b)
  PROVE  since' \in Nat /\ (Overwritten => Overwritten') /\ (~Overwritten' => ~b)
<1>1. since + 1 # 0
  OBVIOUS
<1>2. CASE since = 0
  BY <1>2, SinceAssumption DEF Count, Overwritten
<1>3. CASE since # 0
  BY <1>1, <1>3 DEF Count, Overwritten
<1> QED BY <1>2, <1>3

\* A call ends on both backends: each row changes on both or on none, and the
\* dict keeps its keys.
LEMMA Ending ==
  ASSUME Agreement, NEW changed \in [Jobs -> Row], Commit(Client, changed),
         memory' \in [Jobs -> Row], UNCHANGED order,
         \A j \in Jobs : j \notin call.job => memory'[j] = memory[j],
         \A j \in call.job : memory'[j].status # "absent" /\ changed[j] = InTable(memory'[j]),
         NEW op, NEW answer, Answer(op, answer, answer), Count(FALSE)
  PROVE  Agreement'
<1>0. Client \in Processes /\ RepositoryTypeOK /\ \A j \in call.job : j \in Jobs
  BY ClientAssumption DEF Agreement, TypeOK, LoadedOK
<1>1. /\ \A j \in Jobs : jobs'[j] = IF j \in call.job THEN changed[j] ELSE jobs[j]
      /\ \A j \in Jobs : tx'[Client][j] = NoRow
  BY <1>0, CommitPointwise, LockedRows DEF Released
<1>2. TypeOK'
  BY <1>0, CommitType, Counting DEF Agreement, TypeOK
<1>3. \A j \in Jobs : Agrees(j)'
  BY <1>1 DEF Agreement, Agrees
<1>4. OrderOK'
  <2>1. \A j \in Jobs : memory'[j] # NoRow <=> memory[j] # NoRow
    <3>1. ASSUME NEW j \in call.job
          PROVE  memory'[j] # NoRow /\ memory[j] # NoRow
      <4>1. memory'[j] # NoRow
        BY DEF NoRow
      <4>2. jobs[j] # NoRow
        BY DEF Agreement, LoadedOK
      <4> QED BY <1>0, <4>1, <4>2, AgreeingRows DEF Agreement
    <3> QED BY <3>1
  <2> QED BY <2>1 DEF Agreement, OrderOK
<1>5. LoadedOK' /\ CallOK' /\ DifferencesOK'
  BY <1>1 DEF Answer, LoadedOK, CallOK, DifferencesOK, NoCall
<1> QED BY <1>2, <1>3, <1>4, <1>5 DEF Agreement

\* Nothing changes on either.
LEMMA Refusing ==
  ASSUME Agreement, UNCHANGED <<jobs, tx, memory, order>>, call = NoCall,
         NEW op, NEW answer, Answer(op, answer, answer), Count(FALSE)
  PROVE  Agreement'
<1>1. call' = call /\ differed' = {} /\ since' \in Nat
  BY Counting DEF Answer, Agreement, TypeOK
<1>2. TypeOK' /\ (\A j \in Jobs : Agrees(j)') /\ OrderOK'
  BY <1>1 DEF Agreement, TypeOK, RepositoryTypeOK, Agrees, OrderOK
<1>3. LoadedOK' /\ CallOK' /\ DifferencesOK'
  BY <1>1 DEF Agreement, LoadedOK, CallOK, DifferencesOK
<1> QED BY <1>2, <1>3 DEF Agreement

\* claim_next_queued.
LEMMA ClaimKeeps ==
  ASSUME Agreement, Claim
  PROVE  Agreement'
<1>1. ASSUME NEW j \in Jobs,
             Memory!NextQueued \cap OldestClaimable # {} => j \in Memory!NextQueued,
             SelectOldestClaimable(Client, j), Begin("claim", {j}, 0)
      PROVE  Agreement'
  <2>1. call = NoCall /\ j \in OldestClaimable /\ Load(Client, {j}) /\ UNCHANGED jobs
    BY <1>1 DEF Begin, SelectOldestClaimable
  <2>2. Memory!NextQueued = {j}
    BY <1>1, <2>1, ClaimsAgree DEF OldestClaimable
  <2>3. jobs[j] # NoRow
    BY <2>1 DEF OldestClaimable, Claimable, NoRow
  <2>4. /\ UNCHANGED <<jobs, memory, order>>
        /\ call'.op = "claim" /\ call'.job = {j}
        /\ TypeOK' /\ (\A i \in Jobs : Agrees(i)') /\ OrderOK' /\ LoadedOK' /\ DifferencesOK'
    BY <1>1, <2>1, <2>3, Beginning
  <2>5. Memory!NextQueued' = Memory!NextQueued
    BY <2>4
    DEF Memory!NextQueued, Memory!Claimable, Memory!Precedes, Memory!Position
  <2> QED BY <2>2, <2>4, <2>5 DEF Agreement, CallOK
<1>2. CASE /\ call = NoCall
           /\ Claimable = {}
           /\ UNCHANGED repositoryVars
           /\ Memory!ClaimNextQueued
           /\ Answer("claim", {}, Memory!NextQueued)
           /\ Count(FALSE)
  <2>1. Memory!NextQueued = {}
    BY <1>2, ClaimsAgree
  <2>2. memory' = memory /\ UNCHANGED <<order, jobs, tx>>
    BY <1>2, <2>1 DEF Memory!ClaimNextQueued, repositoryVars, Agreement, TypeOK
  <2> QED BY <1>2, <2>1, <2>2, Refusing
<1> QED BY <1>1, <1>2 DEF Claim, MayCall

\* The commit of claim_next_queued.
LEMMA ClaimingKeeps ==
  ASSUME Agreement, Claiming
  PROVE  Agreement'
<1> DEFINE after(j) == [memory[j] EXCEPT !.status = "running", !.attempt_count = @ + 1,
                                         !.claimed_at = "recent"]
<1>0. call.job = Memory!NextQueued
  BY DEF Agreement, CallOK, Claiming, NoCall, Setters
<1>1. /\ call.job = Memory!NextQueued /\ UNCHANGED order
      /\ \A j \in Jobs : memory'[j] = IF j \in call.job THEN after(j) ELSE memory[j]
      /\ memory' = [j \in Jobs |-> memory'[j]]
  <2>1. /\ memory' = [j \in Jobs |-> IF j \in Memory!NextQueued THEN after(j) ELSE memory[j]]
        /\ UNCHANGED order
    BY DEF Claiming, Memory!ClaimNextQueued
  <2> HIDE DEF after
  <2> QED BY <1>0, <2>1
<1> DEFINE changed == [j \in Jobs |-> Claimed(tx[Client][j])]
<1>2. changed \in [Jobs -> Row]
  BY ClientAssumption, ClaimedType DEF Agreement, TypeOK, RepositoryTypeOK
<1>3. ASSUME NEW j \in call.job
      PROVE  /\ j \in Jobs /\ memory'[j].status = "running"
             /\ memory'[j] = changed[j] /\ memory'[j] \in Row
  <2>1. j \in Jobs /\ memory[j].status = "queued"
    BY <1>1 DEF Memory!NextQueued, Memory!Claimable
  <2>2. jobs[j] = memory[j] /\ memory[j] \in Row
    BY <2>1, AgreeingRows DEF Agreement, Terminal
  <2>3. changed[j] = Claimed(memory[j]) /\ Claimed(memory[j]) \in Row
    BY <1>2, <2>1, <2>2, LockedRows, ClaimedType
  <2>4. memory'[j] = Claimed(memory[j])
    BY <1>1, <2>1, <2>2 DEF Claimed, Row
  <2> QED BY <2>1, <2>3, <2>4 DEF Claimed
<1>4. memory' \in [Jobs -> Row]
  <2>1. \A j \in Jobs : memory'[j] \in Row
    BY <1>1, <1>3 DEF Agreement, TypeOK
  <2> QED BY <1>1, <2>1
<1>5. Commit(Client, changed) /\ Answer("claim", call.job, call.job) /\ Count(FALSE)
  BY <1>1 DEF Claiming, CommitClaim
<1>6. \A j \in call.job : InTable(memory'[j]) = memory'[j] /\ memory'[j].status # "absent"
  BY <1>3 DEF InTable, Finished, Terminal
<1>7. \A j \in Jobs : j \notin call.job => memory'[j] = memory[j]
  BY <1>1
<1> HIDE DEF changed
<1> QED BY <1>1, <1>2, <1>3, <1>4, <1>5, <1>6, <1>7, Ending

\* recover_stale_running.
LEMMA RecoverKeeps ==
  ASSUME Agreement, Recover
  PROVE  Agreement'
<1>1. call = NoCall /\ Load(Client, Stale) /\ UNCHANGED jobs /\ Begin("recover", Stale, 0)
  BY DEF Recover, Begin, SelectStale
<1>2. Stale = Memory!Stale
  BY <1>1, SameChoices
<1>3. Stale \in SUBSET Jobs /\ \A j \in Stale : jobs[j] # NoRow
  BY DEF Stale, NoRow
<1>4. /\ UNCHANGED <<jobs, memory, order>>
      /\ call'.op = "recover" /\ call'.job = Stale
      /\ TypeOK' /\ (\A i \in Jobs : Agrees(i)') /\ OrderOK' /\ LoadedOK' /\ DifferencesOK'
  BY <1>1, <1>3, Beginning
<1>5. Memory!Stale' = Memory!Stale
  BY <1>4 DEF Memory!Stale
<1> QED BY <1>2, <1>4, <1>5 DEF Agreement, CallOK

\* The commit of recover_stale_running.
LEMMA RecoveringKeeps ==
  ASSUME Agreement, Recovering
  PROVE  Agreement'
<1>1. /\ call.job = Memory!Stale /\ UNCHANGED order
      /\ \A j \in Jobs :
           memory'[j] = IF j \in call.job THEN Memory!Recovered(memory[j]) ELSE memory[j]
      /\ memory' = [j \in Jobs |-> memory'[j]]
  BY DEF Agreement, CallOK, Recovering, Memory!RecoverStaleRunning, NoCall, Setters
<1> DEFINE changed == [j \in Jobs |-> Recovered(tx[Client][j])]
<1>2. changed \in [Jobs -> Row]
  BY ClientAssumption, RecoveredType DEF Agreement, TypeOK, RepositoryTypeOK
<1>3. ASSUME NEW j \in call.job
      PROVE  /\ j \in Jobs /\ memory'[j].status # "absent" /\ memory'[j].claimed_at = "null"
             /\ memory'[j] = changed[j] /\ memory'[j] \in Row
  <2>1. j \in Jobs /\ memory[j].status = "running"
    BY <1>1 DEF Memory!Stale
  <2>2. jobs[j] = memory[j] /\ memory[j] \in Row
    BY <2>1, AgreeingRows DEF Agreement, Terminal
  <2>3. changed[j] = Recovered(memory[j]) /\ Recovered(memory[j]) \in Row
    BY <1>2, <2>1, <2>2, LockedRows, RecoveredType
  <2>4. memory'[j] = Recovered(memory[j])
    BY <1>1, <2>1, <2>2 DEF Memory!Recovered, Recovered, Row
  <2>5. Recovered(memory[j]).status # "absent" /\ Recovered(memory[j]).claimed_at = "null"
    BY DEF Recovered
  <2> QED BY <2>1, <2>3, <2>4, <2>5
<1>4. memory' \in [Jobs -> Row]
  <2>1. \A j \in Jobs : memory'[j] \in Row
    BY <1>1, <1>3 DEF Agreement, TypeOK
  <2> QED BY <1>1, <2>1
<1>5. /\ Commit(Client, changed)
      /\ Answer("recover", Cardinality(call.job), Cardinality(call.job))
      /\ Count(FALSE)
  BY <1>1 DEF Recovering, CommitRecovery
<1>6. \A j \in call.job : InTable(memory'[j]) = memory'[j]
  BY <1>3 DEF InTable, Row
<1>7. \A j \in Jobs : j \notin call.job => memory'[j] = memory[j]
  BY <1>1
<1> HIDE DEF changed
<1> QED BY <1>1, <1>2, <1>3, <1>4, <1>5, <1>6, <1>7, Ending

\* The statuses from which the setters may leave, on both backends.
LEMMA Allowed ==
  /\ AllowedFrom("start") = {"queued"}
  /\ AllowedFrom("succeed") = {"running"}
  /\ AllowedFrom("fail") = {"queued", "running"}
  BY DEF AllowedFrom, FromQueued, FromRunning, FromQueuedOrRunning

\* What the setters write in memory is what PostgreSQL writes, but for the
\* claimed_at of a job that has ended.
LEMMA SameWrites ==
  ASSUME NEW row \in Row, NEW r \in Nat, NEW new
  PROVE  /\ new = [row EXCEPT !.status = "running"] =>
              new \in Row /\ new.status = "running" /\ InTable(new) = Started(row)
         /\ new = [row EXCEPT !.status = "succeeded", !.result = r] =>
              new \in Row /\ new.status = "succeeded" /\ InTable(new) = Succeeded(row, r)
         /\ new = [row EXCEPT !.status = "failed", !.error_message = "evaluation failed"] =>
              new \in Row /\ new.status = "failed" /\ InTable(new) = Failed(row)
<1>0. /\ row.attempt_count \in Nat /\ row.claimed_at \in {"null", "recent", "old"}
      /\ row.result \in Nat /\ row.error_message \in ErrorMessages
  BY DEF Row
<1>1. /\ "running" \in JobStatus /\ "succeeded" \in JobStatus /\ "failed" \in JobStatus
      /\ "evaluation failed" \in ErrorMessages
  BY DEF JobStatus, ErrorMessages
<1>2. ASSUME new = [row EXCEPT !.status = "running"]
      PROVE  new \in Row /\ new.status = "running" /\ InTable(new) = Started(row)
  <2>1. new = Started(row)
    BY <1>2 DEF Row, Started
  <2>2. new.status = "running"
    BY <2>1 DEF Started
  <2>3. InTable(new) = new
    BY <2>2 DEF InTable, Finished, Terminal
  <2> QED BY <2>1, <2>2, <2>3, StartedType
<1>3. ASSUME new = [row EXCEPT !.status = "succeeded", !.result = r]
      PROVE  new \in Row /\ new.status = "succeeded" /\ InTable(new) = Succeeded(row, r)
  <2>1. new = [status |-> "succeeded", attempt_count |-> row.attempt_count,
               claimed_at |-> row.claimed_at, result |-> r,
               error_message |-> row.error_message]
    BY <1>3 DEF Row
  <2>2. new \in Row /\ new.status = "succeeded"
    BY <1>0, <1>1, <2>1 DEF Row
  <2>3. [new EXCEPT !.claimed_at = "null"] = Succeeded(row, r)
    BY <2>1 DEF Succeeded
  <2> QED BY <2>2, <2>3 DEF InTable, Finished, Terminal
<1>4. ASSUME new = [row EXCEPT !.status = "failed", !.error_message = "evaluation failed"]
      PROVE  new \in Row /\ new.status = "failed" /\ InTable(new) = Failed(row)
  <2>1. new = [status |-> "failed", attempt_count |-> row.attempt_count,
               claimed_at |-> row.claimed_at, result |-> row.result,
               error_message |-> "evaluation failed"]
    BY <1>4 DEF Row
  <2>2. new \in Row /\ new.status = "failed"
    BY <1>0, <1>1, <2>1 DEF Row
  <2>3. [new EXCEPT !.claimed_at = "null"] = Failed(row)
    <3>1. [new EXCEPT !.claimed_at = "null"] =
            [status |-> new.status, attempt_count |-> new.attempt_count,
             claimed_at |-> "null", result |-> new.result,
             error_message |-> new.error_message]
      BY <2>2 DEF Row
    <3>2. /\ new.status = "failed" /\ new.attempt_count = row.attempt_count
          /\ new.result = row.result /\ new.error_message = "evaluation failed"
      BY <2>1
    <3> QED BY <3>1, <3>2 DEF Failed
  <2> QED BY <2>2, <2>3 DEF InTable, Finished, Terminal
<1> QED BY <1>2, <1>3, <1>4

\* A transition in memory returns when the status allows it, and only then
\* changes the job.
LEMMA Transitions ==
  ASSUME TypeOK, NEW j \in Jobs, NEW S, "absent" \notin S, NEW job, NEW answer,
         Memory!Transition(j, S, job, answer)
  PROVE  /\ answer = "returned" <=> memory[j].status \in S
         /\ answer # "returned" =>
              answer = IF memory[j] = NoRow THEN "NotFoundError"
                       ELSE "InvalidStateTransitionError"
         /\ UNCHANGED order
         /\ answer # "returned" => memory' = memory
         /\ answer = "returned" => /\ \A i \in Jobs : i # j => memory'[i] = memory[i]
                                   /\ memory' = [i \in Jobs |-> memory'[i]]
                                   /\ memory'[j] = job
<1>1. memory[j] = NoRow => memory[j].status = "absent"
  BY DEF NoRow
<1>2. /\ answer = IF memory[j] = NoRow THEN "NotFoundError"
                  ELSE IF memory[j].status \notin S
                       THEN "InvalidStateTransitionError" ELSE "returned"
      /\ answer = "returned" => memory' = [memory EXCEPT ![j] = job]
      /\ answer # "returned" => memory' = memory
      /\ UNCHANGED order
  BY AbsentIsNoRow DEF Memory!Transition, Memory!Stored
<1> QED BY <1>1, <1>2 DEF TypeOK

\* What a setter does in memory.
LEMMA MemorySets ==
  ASSUME TypeOK, NEW op \in Setters, NEW j \in Jobs, NEW r \in Nat, NEW answer,
         MemorySet(op, j, r, answer)
  PROVE  /\ answer = "returned" <=> memory[j].status \in AllowedFrom(op)
         /\ answer # "returned" =>
              answer = IF memory[j] = NoRow THEN "NotFoundError"
                       ELSE "InvalidStateTransitionError"
         /\ UNCHANGED order
         /\ answer # "returned" => memory' = memory
         /\ answer = "returned" =>
              /\ \A i \in Jobs : i # j => memory'[i] = memory[i]
              /\ memory' = [i \in Jobs |-> memory'[i]]
              /\ memory'[j] \in Row /\ memory'[j].status # "absent"
              /\ op = "start" => InTable(memory'[j]) = Started(memory[j])
              /\ op = "succeed" => InTable(memory'[j]) = Succeeded(memory[j], r)
              /\ op = "fail" => InTable(memory'[j]) = Failed(memory[j])
<1>0. memory[j] \in Row
  BY DEF TypeOK
<1>1. CASE op = "start" /\ Memory!SetRunning(j, answer)
  <2> DEFINE new == [memory[j] EXCEPT !.status = "running"]
  <2>1. Memory!Transition(j, {"queued"}, new, answer)
    BY <1>1 DEF Memory!SetRunning
  <2>2. new \in Row /\ new.status = "running" /\ InTable(new) = Started(memory[j])
    BY <1>0, SameWrites
  <2> HIDE DEF new
  <2> QED BY <1>1, <2>1, <2>2, Transitions, Allowed
<1>2. CASE op = "succeed" /\ Memory!SetSucceeded(j, r, answer)
  <2> DEFINE new == [memory[j] EXCEPT !.status = "succeeded", !.result = r]
  <2>1. Memory!Transition(j, {"running"}, new, answer)
    BY <1>2 DEF Memory!SetSucceeded
  <2>2. new \in Row /\ new.status = "succeeded" /\ InTable(new) = Succeeded(memory[j], r)
    BY <1>0, SameWrites
  <2> HIDE DEF new
  <2> QED BY <1>2, <2>1, <2>2, Transitions, Allowed
<1>3. CASE op = "fail" /\ Memory!SetFailed(j, answer)
  <2> DEFINE new == [memory[j] EXCEPT !.status = "failed",
                                      !.error_message = "evaluation failed"]
  <2>1. Memory!Transition(j, {"queued", "running"}, new, answer)
    BY <1>3 DEF Memory!SetFailed
  <2>2. new \in Row /\ new.status = "failed" /\ InTable(new) = Failed(memory[j])
    BY <1>0, SameWrites
  <2> HIDE DEF new
  <2>3. /\ answer = "returned" <=> memory[j].status \in {"queued", "running"}
        /\ answer # "returned" =>
             answer = IF memory[j] = NoRow THEN "NotFoundError"
                      ELSE "InvalidStateTransitionError"
        /\ UNCHANGED order
        /\ answer # "returned" => memory' = memory
        /\ answer = "returned" => /\ \A i \in Jobs : i # j => memory'[i] = memory[i]
                                  /\ memory' = [i \in Jobs |-> memory'[i]]
                                  /\ memory'[j] = new
    BY <2>1, Transitions
  <2> QED BY <1>3, <2>2, <2>3, Allowed
<1> QED BY <1>1, <1>2, <1>3 DEF MemorySet

\* A setter begins.
LEMMA SetKeeps ==
  ASSUME Agreement, NEW op \in Setters, NEW j \in Jobs, NEW r \in Results, Set(op, j, r)
  PROVE  Agreement'
<1>1. /\ call = NoCall /\ Load(Client, {j}) /\ UNCHANGED jobs /\ Begin(op, {j}, r)
      /\ jobs[j].status \in AllowedFrom(op)
  BY DEF Set, Begin, SelectForTransition
<1>2. jobs[j] # NoRow
  BY <1>1, Allowed DEF Setters, NoRow
<1>3. /\ UNCHANGED <<jobs, memory, order>>
      /\ call'.op = op /\ call'.job = {j} /\ call'.result = r
      /\ TypeOK' /\ (\A i \in Jobs : Agrees(i)') /\ OrderOK' /\ LoadedOK' /\ DifferencesOK'
  BY <1>1, <1>2, Beginning
<1>4. memory[j].status \in AllowedFrom(op)
  BY <1>1, AgreeingRows DEF Agreement
<1>5. CallOK'
  BY <1>3, <1>4 DEF CallOK, AllowedFrom
<1> QED BY <1>3, <1>5 DEF Agreement

\* A setter is refused.
LEMMA SetRefusedKeeps ==
  ASSUME Agreement, NEW op \in Setters, NEW j \in Jobs, NEW r \in Results, SetRefused(op, j, r)
  PROVE  Agreement'
<1> DEFINE refusal == IF jobs[j] = NoRow THEN "NotFoundError"
                      ELSE "InvalidStateTransitionError"
<1>1. PICK answer \in SetterAnswers : MemorySet(op, j, r, answer) /\ Answer(op, refusal, answer)
  BY DEF SetRefused
<1>2. /\ call = NoCall /\ jobs[j].status \notin AllowedFrom(op) /\ UNCHANGED <<jobs, tx>>
      /\ Count(FALSE)
  BY DEF SetRefused, MayCall, TransitionRejected, repositoryVars
<1>3. /\ memory[j].status \notin AllowedFrom(op)
      /\ jobs[j] = NoRow <=> memory[j] = NoRow
  BY <1>2, AgreeingRows DEF Agreement
<1>4. answer = refusal /\ UNCHANGED <<memory, order>>
  BY <1>1, <1>3, MemorySets, ResultsAssumption DEF Agreement
<1> HIDE DEF refusal
<1>5. Answer(op, refusal, refusal)
  BY <1>1, <1>4, Zenon
<1> QED BY <1>2, <1>4, <1>5, Refusing

\* The commit of a setter.
LEMMA SettingKeeps ==
  ASSUME Agreement, Setting
  PROVE  Agreement'
<1>0. call.op \in Setters
  BY DEF Setting, Setters
<1>1. PICK j \in call.job, answer \in SetterAnswers :
        MemorySet(call.op, j, call.result, answer) /\ Answer(call.op, "returned", answer)
  BY DEF Setting
<1>2. /\ j \in Jobs /\ call.job = {j} /\ call.result \in Nat
      /\ memory[j].status \in AllowedFrom(call.op)
  <2>1. call # NoCall /\ call.op # "claim" /\ call.op # "recover"
    BY <1>0 DEF NoCall, Setters
  <2>2. /\ call.result \in Results
        /\ \E i \in Jobs : call.job = {i} /\ memory[i].status \in AllowedFrom(call.op)
    BY <2>1 DEF Agreement, CallOK
  <2> QED BY <2>2, ResultsAssumption
<1>3. answer = "returned"
  BY <1>0, <1>1, <1>2, MemorySets DEF Agreement
<1>4. /\ UNCHANGED order
      /\ \A i \in Jobs : i # j => memory'[i] = memory[i]
      /\ memory' = [i \in Jobs |-> memory'[i]]
      /\ memory'[j] \in Row /\ memory'[j].status # "absent"
      /\ call.op = "start" => InTable(memory'[j]) = Started(memory[j])
      /\ call.op = "succeed" => InTable(memory'[j]) = Succeeded(memory[j], call.result)
      /\ call.op = "fail" => InTable(memory'[j]) = Failed(memory[j])
  BY <1>0, <1>1, <1>2, <1>3, MemorySets DEF Agreement
<1>5. memory[j].status \in {"queued", "running"}
  BY <1>0, <1>2, Allowed DEF Setters
<1>6. tx[Client][j] = memory[j]
  BY <1>2, <1>5, AgreeingRows, LockedRows DEF Agreement, Terminal
<1>7. \A i \in Jobs : tx[Client][i] \in Row
  BY ClientAssumption DEF Agreement, TypeOK, RepositoryTypeOK
<1>8. ASSUME NEW changed \in [Jobs -> Row], Commit(Client, changed),
             changed[j] = InTable(memory'[j])
      PROVE  Agreement'
  <2>1. memory' \in [Jobs -> Row]
    <3>1. \A i \in Jobs : memory'[i] \in Row
      BY <1>4 DEF Agreement, TypeOK
    <3> QED BY <1>4, <3>1
  <2>2. Answer(call.op, "returned", "returned") /\ Count(FALSE)
    BY <1>1, <1>3, Zenon DEF Setting
  <2>3. \A i \in Jobs : i \notin call.job => memory'[i] = memory[i]
    BY <1>2, <1>4
  <2>4. \A i \in call.job : memory'[i].status # "absent" /\ changed[i] = InTable(memory'[i])
    BY <1>2, <1>4, <1>8
  <2> QED BY <1>4, <1>8, <2>1, <2>2, <2>3, <2>4, Ending
<1>9. CASE call.op = "start" /\ CommitStarted(Client)
  <2> DEFINE changed == [i \in Jobs |-> Started(tx[Client][i])]
  <2>1. changed \in [Jobs -> Row] /\ Commit(Client, changed)
    BY <1>7, <1>9, StartedType DEF CommitStarted
  <2>2. changed[j] = InTable(memory'[j])
    BY <1>2, <1>4, <1>6, <1>9
  <2> HIDE DEF changed
  <2> QED BY <1>8, <2>1, <2>2
<1>10. CASE call.op = "succeed" /\ CommitSucceeded(Client, call.result)
  <2> DEFINE changed == [i \in Jobs |-> Succeeded(tx[Client][i], call.result)]
  <2>1. changed \in [Jobs -> Row] /\ Commit(Client, changed)
    BY <1>2, <1>7, <1>10, SucceededType DEF CommitSucceeded
  <2>2. changed[j] = InTable(memory'[j])
    BY <1>2, <1>4, <1>6, <1>10
  <2> HIDE DEF changed
  <2> QED BY <1>8, <2>1, <2>2
<1>11. CASE call.op = "fail" /\ CommitFailed(Client)
  <2> DEFINE changed == [i \in Jobs |-> Failed(tx[Client][i])]
  <2>1. changed \in [Jobs -> Row] /\ Commit(Client, changed)
    BY <1>7, <1>11, FailedType DEF CommitFailed
  <2>2. changed[j] = InTable(memory'[j])
    BY <1>2, <1>4, <1>6, <1>11
  <2> HIDE DEF changed
  <2> QED BY <1>8, <2>1, <2>2
<1> QED BY <1>9, <1>10, <1>11 DEF Setting

\* What create does in memory, whether the job is there or not.
LEMMA MemoryCreates ==
  ASSUME TypeOK, OrderOK, NEW j \in Jobs, Memory!Create(j)
  PROVE  /\ NewRow.status = "queued" /\ NewRow \in Row /\ NewRow # NoRow
         /\ \A i \in Jobs : memory'[i] = IF i = j THEN NewRow ELSE memory[i]
         /\ memory' \in [Jobs -> Row]
         /\ memory' = [memory EXCEPT ![j] = NewRow]
         /\ order' \in Seq(Jobs)
         /\ memory[j] # NoRow => order' = order
         /\ OrderOK'
<1>0. memory \in [Jobs -> Row] /\ order \in Seq(Jobs)
  BY DEF TypeOK
<1>1. NewRow.status = "queued" /\ NewRow \in Row /\ NewRow # NoRow
  BY NewRowType DEF NewRow, NoRow
<1>2. /\ memory' = [memory EXCEPT ![j] = NewRow]
      /\ order' = IF memory[j] # NoRow THEN order ELSE Append(order, j)
  BY AbsentIsNoRow DEF Memory!Create, Memory!Stored, NewRow
<1>3. /\ \A i \in Jobs : memory'[i] = IF i = j THEN NewRow ELSE memory[i]
      /\ memory' \in [Jobs -> Row]
  BY <1>0, <1>1, <1>2
<1>4. CASE memory[j] # NoRow
  <2>1. order' = order
    BY <1>2, <1>4
  <2>2. \A i \in Jobs : memory'[i] # NoRow <=> memory[i] # NoRow
    BY <1>1, <1>3, <1>4
  <2>3. OrderOK'
    BY <2>1, <2>2 DEF OrderOK
  <2> QED BY <1>0, <1>1, <1>2, <1>3, <2>1, <2>3
<1>5. CASE memory[j] = NoRow
  <2>0. order' = Append(order, j)
    BY <1>2, <1>5
  <2>1. /\ Len(order) \in Nat /\ Len(order') = Len(order) + 1
        /\ \A n \in 1..Len(order) : order'[n] = order[n]
        /\ order'[Len(order) + 1] = j
    BY <1>0, <2>0
  <2>2. \A n \in 1..Len(order) : order[n] # j
    BY <1>5 DEF OrderOK
  <2>3. ASSUME NEW m \in 1..Len(order'), NEW n \in 1..Len(order'), order'[m] = order'[n]
        PROVE  m = n
    BY <2>1, <2>2, <2>3 DEF OrderOK
  <2>4. ASSUME NEW i \in Jobs
        PROVE  memory'[i] # NoRow <=> \E n \in 1..Len(order') : order'[n] = i
    <3>1. CASE i = j
      BY <1>1, <1>3, <2>1, <3>1
    <3>2. CASE i # j
      <4>1. memory'[i] = memory[i]
        BY <1>3, <3>2
      <4>2. memory[i] # NoRow <=> \E n \in 1..Len(order) : order[n] = i
        BY DEF OrderOK
      <4> QED BY <2>1, <3>2, <4>1, <4>2
    <3> QED BY <3>1, <3>2
  <2>5. OrderOK'
    BY <2>3, <2>4 DEF OrderOK
  <2>6. order' \in Seq(Jobs)
    BY <1>0, <2>0
  <2> QED BY <1>1, <1>2, <1>3, <1>5, <2>5, <2>6
<1> QED BY <1>4, <1>5

\* create, of a new job or of one that no call has changed.
LEMMA CreateKeeps ==
  ASSUME Agreement, NEW j \in Jobs, Create(j), ~Overwritten'
  PROVE  Agreement'
<1>0. /\ TypeOK /\ OrderOK /\ RepositoryTypeOK /\ memory \in [Jobs -> Row]
      /\ call = NoCall /\ call' = NoCall /\ Memory!Create(j)
      /\ Count(memory[j] \notin {NoRow, NewRow})
  BY DEF Agreement, TypeOK, Create, MayCall, Answer
<1>1. memory[j] \in {NoRow, NewRow} /\ since' \in Nat
  BY <1>0, Counting DEF TypeOK
<1>2. /\ NewRow.status = "queued" /\ NewRow \in Row /\ NewRow # NoRow
      /\ \A i \in Jobs : memory'[i] = IF i = j THEN NewRow ELSE memory[i]
      /\ memory' \in [Jobs -> Row] /\ order' \in Seq(Jobs) /\ OrderOK'
  BY <1>0, MemoryCreates
<1>3. InTable(NewRow) = NewRow
  BY <1>2 DEF InTable, Finished, Terminal
<1>4. CASE Insert(j) /\ Answer("create", "returned", "returned")
  <2>1. /\ \A i \in Jobs : jobs'[i] = IF i = j THEN NewRow ELSE jobs[i]
        /\ tx' = tx /\ differed' = {} /\ jobs[j] = NoRow
    BY <1>0, <1>4 DEF Insert, RepositoryTypeOK, Answer
  <2>2. TypeOK'
    BY <1>0, <1>1, <1>2, <1>4, RowStepsType DEF TypeOK
  <2>3. \A i \in Jobs : Agrees(i)'
    BY <1>2, <1>3, <2>1 DEF Agreement, Agrees
  <2>4. LoadedOK' /\ CallOK' /\ DifferencesOK'
    BY <1>0, <1>2, <2>1 DEF Agreement, LoadedOK, CallOK, DifferencesOK, NoCall
  <2> QED BY <1>2, <2>2, <2>3, <2>4 DEF Agreement
<1>5. CASE InsertRefused(j) /\ Answer("create", "IntegrityError", "returned")
  <2>1. /\ jobs' = jobs /\ tx' = tx /\ jobs[j] # NoRow
        /\ differed' = {[op |-> "create", pg |-> "IntegrityError", mem |-> "returned"]}
    BY <1>5 DEF InsertRefused, repositoryVars, Answer
  <2>2. memory[j] = NewRow
    BY <1>1, <2>1, AgreeingRows DEF Agreement
  <2>3. \A i \in Jobs : memory'[i] = memory[i]
    BY <1>2, <2>2
  <2>4. TypeOK'
    BY <1>0, <1>1, <1>2, <2>1 DEF TypeOK, RepositoryTypeOK
  <2>5. \A i \in Jobs : Agrees(i)'
    BY <2>1, <2>3 DEF Agreement, Agrees
  <2>6. LoadedOK' /\ CallOK' /\ DifferencesOK'
    BY <1>0, <2>1 DEF Agreement, LoadedOK, CallOK, DifferencesOK, NoCall
  <2> QED BY <1>2, <2>4, <2>5, <2>6 DEF Agreement
<1> QED BY <1>4, <1>5 DEF Create

\* Time passes.
LEMMA AgeKeeps ==
  ASSUME Agreement, NEW j \in Jobs, Age(j)
  PROVE  Agreement'
<1>0. /\ RepositoryTypeOK /\ memory \in [Jobs -> Row]
      /\ call = NoCall /\ memory[j].claimed_at = "recent"
      /\ UNCHANGED <<order, call, differed, since>>
  BY DEF Agreement, TypeOK, Age
<1> DEFINE aged == [memory[j] EXCEPT !.claimed_at = "old"]
<1>1. memory' = [memory EXCEPT ![j] = aged]
  BY <1>0 DEF Age
<1>2. memory[j] \in Row /\ aged = Aged(memory[j]) /\ aged \in Row /\ aged.status = memory[j].status
  <2>1. memory[j] \in Row
    BY <1>0
  <2>2. aged = Aged(memory[j])
    BY <2>1 DEF Row, Aged
  <2> QED BY <2>1, <2>2, AgedType DEF Aged
<1> HIDE DEF aged
<1>3. /\ \A i \in Jobs : memory'[i] = IF i = j THEN aged ELSE memory[i]
      /\ memory' \in [Jobs -> Row]
  BY <1>0, <1>1, <1>2
<1>4. /\ RepositoryTypeOK' /\ tx' = tx
      /\ \A i \in Jobs : jobs'[i] = IF i = j THEN InTable(aged) ELSE jobs[i]
  <2>1. CASE memory[j].status \in Terminal
    <3>1. jobs[j].claimed_at = "null"
      BY <2>1, AgreeingRows DEF Agreement
    <3>2. UNCHANGED <<jobs, tx>>
      BY <3>1 DEF Age, GrowOld, repositoryVars
    <3>3. InTable(aged) = InTable(memory[j])
      <4>1. [aged EXCEPT !.claimed_at = "null"] = [memory[j] EXCEPT !.claimed_at = "null"]
        BY <1>2 DEF Aged, Row
      <4> QED BY <1>2, <2>1, <4>1 DEF InTable, Finished
    <3>4. jobs[j] = InTable(memory[j])
      BY DEF Agreement, Agrees
    <3> QED BY <1>0, <3>2, <3>3, <3>4 DEF RepositoryTypeOK
  <2>2. CASE memory[j].status \notin Terminal
    <3>1. jobs[j] = memory[j]
      BY <2>2, AgreeingRows DEF Agreement
    <3>2. GrowOld(j)
      BY <1>0, <3>1 DEF Age
    <3>3. InTable(aged) = Aged(jobs[j])
      BY <1>2, <2>2, <3>1 DEF InTable, Finished
    <3>4. \A i \in Jobs : jobs'[i] = IF i = j THEN Aged(jobs[j]) ELSE jobs[i]
      BY <1>0, <3>2 DEF GrowOld, RepositoryTypeOK
    <3>5. RepositoryTypeOK' /\ tx' = tx
      BY <1>0, <3>2, RowStepsType DEF GrowOld
    <3> QED BY <3>3, <3>4, <3>5
  <2> QED BY <2>1, <2>2
<1>5. TypeOK'
  BY <1>0, <1>3, <1>4 DEF Agreement, TypeOK
<1>6. \A i \in Jobs : Agrees(i)'
  BY <1>3, <1>4 DEF Agreement, Agrees
<1>7. OrderOK'
  <2>1. aged # NoRow /\ memory[j] # NoRow
    BY <1>0, <1>2 DEF NoRow, Aged
  <2>2. \A i \in Jobs : memory'[i] # NoRow <=> memory[i] # NoRow
    BY <1>3, <2>1
  <2> QED BY <1>0, <2>2 DEF Agreement, OrderOK
<1>8. LoadedOK' /\ CallOK' /\ DifferencesOK'
  BY <1>0, <1>4 DEF Agreement, LoadedOK, CallOK, DifferencesOK, NoCall
<1> QED BY <1>5, <1>6, <1>7, <1>8 DEF Agreement

-----------------------------------------------------------------------------
\* Nothing is stored at the start.
LEMMA InvInit == Init => Agreement
<1> SUFFICES ASSUME Init PROVE Agreement
  OBVIOUS
<1>1. /\ jobs = [j \in Jobs |-> NoRow] /\ memory = [j \in Jobs |-> NoRow]
      /\ tx = [p \in Processes |-> [j \in Jobs |-> NoRow]]
      /\ order = <<>> /\ call = NoCall /\ differed = {} /\ since = 0
  BY AbsentIsNoRow DEF Init, RepositoryInit, Memory!InMemoryInit
<1>2. TypeOK
  BY <1>1, NewRowType DEF TypeOK, RepositoryTypeOK
<1>3. \A j \in Jobs : Agrees(j)
  <2>1. InTable(NoRow) = NoRow
    BY DEF InTable, Finished, Terminal, NoRow
  <2> QED BY <1>1, <2>1 DEF Agrees
<1>4. OrderOK
  BY <1>1 DEF OrderOK
<1>5. LoadedOK
  BY <1>1, ClientAssumption DEF LoadedOK, NoCall
<1> QED BY <1>1, <1>2, <1>3, <1>4, <1>5 DEF Agreement, CallOK, DifferencesOK

\* What every step keeps until a job is overwritten.
LEMMA AgreementStep ==
  ASSUME Agreement, [Next]_vars, ~Overwritten'
  PROVE  Agreement'
<1>1. CASE UNCHANGED vars
  <2>1. UNCHANGED <<jobs, tx, memory, order, call, differed, since>>
    BY <1>1 DEF vars, repositoryVars
  <2>2. TypeOK' /\ (\A j \in Jobs : Agrees(j)') /\ OrderOK' /\ LoadedOK' /\ DifferencesOK'
    BY <2>1 DEF Agreement, TypeOK, RepositoryTypeOK, Agrees, OrderOK, LoadedOK, DifferencesOK
  <2>3. CallOK'
    <3>1. Memory!NextQueued' = Memory!NextQueued /\ Memory!Stale' = Memory!Stale
      BY <2>1 DEF Memory!NextQueued, Memory!Claimable, Memory!Precedes, Memory!Position,
                  Memory!Stale
    <3> QED BY <2>1, <3>1 DEF Agreement, CallOK, AllowedFrom
  <2> QED BY <2>2, <2>3 DEF Agreement
<1>2. CASE Claim
  BY <1>2, ClaimKeeps
<1>3. CASE Claiming
  BY <1>3, ClaimingKeeps
<1>4. CASE Recover
  BY <1>4, RecoverKeeps
<1>5. CASE Recovering
  BY <1>5, RecoveringKeeps
<1>6. CASE Setting
  BY <1>6, SettingKeeps
<1>7. ASSUME NEW j \in Jobs, Create(j) \/ Age(j)
      PROVE  Agreement'
  BY <1>7, CreateKeeps, AgeKeeps
<1>8. ASSUME NEW op \in Setters, NEW j \in Jobs, NEW r \in Results,
             Set(op, j, r) \/ SetRefused(op, j, r)
      PROVE  Agreement'
  BY <1>8, SetKeeps, SetRefusedKeeps
<1> QED BY <1>1, <1>2, <1>3, <1>4, <1>5, <1>6, <1>7, <1>8 DEF Next

(***************************************************************************)
(* The keys, whatever the rows: a call changes rows that are there.        *)
(***************************************************************************)
\* The two backends agree on the keys as long as they agree on the rows.
LEMMA AgreementStored == Agreement => Stored
<1> SUFFICES ASSUME Agreement PROVE Stored
  OBVIOUS
<1>1. SameKeys
  BY AgreeingRows DEF Agreement, SameKeys
<1>2. SettingOK
  <2> SUFFICES ASSUME call.op \in Setters PROVE call.result \in Nat
    BY DEF SettingOK
  <2>1. call # NoCall /\ call.op # "claim" /\ call.op # "recover"
    BY DEF NoCall, Setters
  <2>2. call.result \in Results
    BY <2>1 DEF Agreement, CallOK
  <2> QED BY <2>2, ResultsAssumption
<1> QED BY <1>1, <1>2 DEF Agreement, Stored

\* The in-memory backend keeps its keys.
MemoryKeeps ==
  /\ memory' \in [Jobs -> Row]
  /\ UNCHANGED order
  /\ \A j \in Jobs : memory'[j] = NoRow <=> memory[j] = NoRow

\* A claim writes the same in memory and on PostgreSQL.
LEMMA ClaimedInMemory ==
  ASSUME NEW row \in Row, NEW new,
         new = [row EXCEPT !.status = "running", !.attempt_count = @ + 1,
                           !.claimed_at = "recent"]
  PROVE  new = Claimed(row)
  BY DEF Claimed, Row

\* claim_next_queued in memory.
LEMMA MemoryClaims ==
  ASSUME TypeOK, Memory!ClaimNextQueued
  PROVE  MemoryKeeps
<1> DEFINE after(j) == [memory[j] EXCEPT !.status = "running", !.attempt_count = @ + 1,
                                         !.claimed_at = "recent"]
<1>1. ASSUME NEW j \in Jobs, j \in Memory!NextQueued
      PROVE  after(j) \in Row /\ after(j) # NoRow /\ memory[j] # NoRow
  <2>1. memory[j] \in Row /\ memory[j].status = "queued"
    BY <1>1 DEF TypeOK, Memory!NextQueued, Memory!Claimable
  <2>2. after(j) = Claimed(memory[j])
    BY <2>1, ClaimedInMemory
  <2>3. Claimed(memory[j]) \in Row /\ Claimed(memory[j]).status = "running"
    BY <2>1, ClaimedType DEF Claimed
  <2> QED BY <2>1, <2>2, <2>3 DEF NoRow
<1>2. /\ memory' = [j \in Jobs |-> IF j \in Memory!NextQueued THEN after(j) ELSE memory[j]]
      /\ UNCHANGED order
  BY DEF Memory!ClaimNextQueued
<1> HIDE DEF after
<1> QED BY <1>1, <1>2 DEF MemoryKeeps, TypeOK

\* recover_stale_running in memory.
LEMMA MemoryRecovers ==
  ASSUME TypeOK, Memory!RecoverStaleRunning
  PROVE  MemoryKeeps
<1>1. ASSUME NEW j \in Jobs, j \in Memory!Stale
      PROVE  /\ Memory!Recovered(memory[j]) \in Row /\ Memory!Recovered(memory[j]) # NoRow
             /\ memory[j] # NoRow
  <2>1. memory[j] \in Row /\ memory[j].status = "running"
    BY <1>1 DEF TypeOK, Memory!Stale
  <2>2. Memory!Recovered(memory[j]) = Recovered(memory[j])
    BY <2>1 DEF Memory!Recovered, Recovered, Row
  <2>3. Recovered(memory[j]) \in Row /\ Recovered(memory[j]).status # "absent"
    BY <2>1, RecoveredType DEF Recovered
  <2> QED BY <2>1, <2>2, <2>3 DEF NoRow
<1>2. /\ memory' = [j \in Jobs |-> IF j \in Memory!Stale THEN Memory!Recovered(memory[j])
                                  ELSE memory[j]]
      /\ UNCHANGED order
  BY DEF Memory!RecoverStaleRunning
<1> QED BY <1>1, <1>2 DEF MemoryKeeps, TypeOK

\* The setters in memory.
LEMMA MemorySetsKeep ==
  ASSUME TypeOK, NEW op \in Setters, NEW j \in Jobs, NEW r \in Nat, NEW answer,
         MemorySet(op, j, r, answer)
  PROVE  MemoryKeeps
<1>1. CASE answer # "returned"
  <2>1. memory' = memory /\ UNCHANGED order
    BY <1>1, MemorySets
  <2> QED BY <2>1 DEF MemoryKeeps, TypeOK
<1>2. CASE answer = "returned"
  <2>1. /\ UNCHANGED order /\ memory[j].status \in AllowedFrom(op)
        /\ \A i \in Jobs : i # j => memory'[i] = memory[i]
        /\ memory' = [i \in Jobs |-> memory'[i]]
        /\ memory'[j] \in Row /\ memory'[j].status # "absent"
    BY <1>2, MemorySets
  <2>2. memory[j] # NoRow /\ memory'[j] # NoRow
    BY <2>1, Allowed DEF NoRow, Setters
  <2>3. \A i \in Jobs : memory'[i] \in Row
    BY <2>1 DEF TypeOK
  <2>4. memory' \in [Jobs -> Row]
    BY <2>1, <2>3
  <2> QED BY <2>1, <2>2, <2>4 DEF MemoryKeeps
<1> QED BY <1>1, <1>2

\* A call begins.
LEMMA StoredBegins ==
  ASSUME Stored, NEW S \in SUBSET Jobs, NEW op, NEW r,
         Load(Client, S), UNCHANGED jobs, Begin(op, S, r),
         \A j \in S : jobs[j] # NoRow, op \in Setters => r \in Nat
  PROVE  Stored'
<1>0. Client \in Processes /\ RepositoryTypeOK
  BY ClientAssumption DEF Stored, TypeOK
<1>1. /\ UNCHANGED <<jobs, memory, order, since>>
      /\ call'.op = op /\ call'.job = S /\ call'.result = r
  BY DEF Begin
<1>2. RepositoryTypeOK'
  BY <1>0, LocksType
<1>3. LoadedOK'
  <2>1. \A j \in Jobs : tx'[Client][j] = IF j \in S THEN jobs[j] ELSE NoRow
    BY <1>0, LoadPointwise
  <2> QED BY <1>1, <2>1 DEF LoadedOK
<1> QED BY <1>1, <1>2, <1>3 DEF Stored, TypeOK, OrderOK, SameKeys, SettingOK

\* A call ends that both backends make on jobs that are there.
LEMMA StoredEnds ==
  ASSUME Stored, MemoryKeeps, call' = NoCall, Count(FALSE),
         \/ UNCHANGED repositoryVars /\ call = NoCall
         \/ \E changed \in [Jobs -> Row] :
              /\ \A j \in Jobs : changed[j].status # "absent"
              /\ Commit(Client, changed)
  PROVE  Stored'
<1>0. Client \in Processes /\ RepositoryTypeOK /\ since' \in Nat
  BY ClientAssumption, Counting DEF Stored, TypeOK
<1>1. /\ RepositoryTypeOK'
      /\ \A j \in Jobs : jobs'[j] = NoRow <=> jobs[j] = NoRow
      /\ \A j \in Jobs : tx'[Client][j] = NoRow
  <2>1. CASE UNCHANGED repositoryVars /\ call = NoCall
    <3>1. \A j \in Jobs : tx[Client][j] = NoRow
      BY <2>1 DEF Stored, LoadedOK, NoCall
    <3> QED BY <1>0, <2>1, <3>1 DEF repositoryVars, RepositoryTypeOK
  <2>2. ASSUME NEW changed \in [Jobs -> Row], Commit(Client, changed),
               \A j \in Jobs : changed[j].status # "absent"
        PROVE  /\ RepositoryTypeOK'
               /\ \A j \in Jobs : jobs'[j] = NoRow <=> jobs[j] = NoRow
               /\ \A j \in Jobs : tx'[Client][j] = NoRow
    <3>1. /\ \A j \in Jobs : jobs'[j] = IF Holds(Client, j) THEN changed[j] ELSE jobs[j]
          /\ \A j \in Jobs : tx'[Client][j] = NoRow
      BY <1>0, <2>2, CommitPointwise DEF Released
    <3>2. \A j \in Jobs : Holds(Client, j) => jobs[j] # NoRow
      BY DEF Stored, LoadedOK, Holds
    <3>3. \A j \in Jobs : changed[j] # NoRow
      BY <2>2 DEF NoRow
    <3> QED BY <1>0, <2>2, <3>1, <3>2, <3>3, CommitType
  <2> QED BY <2>1, <2>2
<1>2. TypeOK'
  BY <1>0, <1>1 DEF MemoryKeeps, Stored, TypeOK
<1>3. OrderOK' /\ SameKeys'
  BY <1>1 DEF MemoryKeeps, Stored, OrderOK, SameKeys
<1>4. LoadedOK' /\ SettingOK'
  BY <1>1 DEF LoadedOK, SettingOK, NoCall, Setters
<1> QED BY <1>2, <1>3, <1>4 DEF Stored

\* What PostgreSQL commits are rows.
LEMMA Committing ==
  ASSUME Stored
  PROVE  /\ CommitClaim(Client) \/ CommitRecovery(Client) \/ CommitStarted(Client)
              \/ (call.result \in Nat /\ CommitSucceeded(Client, call.result))
              \/ CommitFailed(Client)
            => \E changed \in [Jobs -> Row] :
                 /\ \A j \in Jobs : changed[j].status # "absent"
                 /\ Commit(Client, changed)
<1>1. \A j \in Jobs : tx[Client][j] \in Row
  BY ClientAssumption DEF Stored, TypeOK, RepositoryTypeOK
<1>2. ASSUME CommitClaim(Client)
      PROVE  \E changed \in [Jobs -> Row] :
               (\A j \in Jobs : changed[j].status # "absent") /\ Commit(Client, changed)
  <2> DEFINE changed == [j \in Jobs |-> Claimed(tx[Client][j])]
  <2>1. changed \in [Jobs -> Row] /\ \A j \in Jobs : changed[j].status # "absent"
    BY <1>1, ClaimedType DEF Claimed
  <2>2. Commit(Client, changed)
    BY <1>2 DEF CommitClaim
  <2> HIDE DEF changed
  <2> QED BY <2>1, <2>2
<1>3. ASSUME CommitRecovery(Client)
      PROVE  \E changed \in [Jobs -> Row] :
               (\A j \in Jobs : changed[j].status # "absent") /\ Commit(Client, changed)
  <2> DEFINE changed == [j \in Jobs |-> Recovered(tx[Client][j])]
  <2>1. changed \in [Jobs -> Row] /\ \A j \in Jobs : changed[j].status # "absent"
    BY <1>1, RecoveredType DEF Recovered
  <2>2. Commit(Client, changed)
    BY <1>3 DEF CommitRecovery
  <2> HIDE DEF changed
  <2> QED BY <2>1, <2>2
<1>4. ASSUME CommitStarted(Client)
      PROVE  \E changed \in [Jobs -> Row] :
               (\A j \in Jobs : changed[j].status # "absent") /\ Commit(Client, changed)
  <2> DEFINE changed == [j \in Jobs |-> Started(tx[Client][j])]
  <2>1. changed \in [Jobs -> Row] /\ \A j \in Jobs : changed[j].status # "absent"
    BY <1>1, StartedType DEF Started
  <2>2. Commit(Client, changed)
    BY <1>4 DEF CommitStarted
  <2> HIDE DEF changed
  <2> QED BY <2>1, <2>2
<1>5. ASSUME call.result \in Nat, CommitSucceeded(Client, call.result)
      PROVE  \E changed \in [Jobs -> Row] :
               (\A j \in Jobs : changed[j].status # "absent") /\ Commit(Client, changed)
  <2> DEFINE changed == [j \in Jobs |-> Succeeded(tx[Client][j], call.result)]
  <2>1. changed \in [Jobs -> Row] /\ \A j \in Jobs : changed[j].status # "absent"
    BY <1>1, <1>5, SucceededType DEF Succeeded
  <2>2. Commit(Client, changed)
    BY <1>5 DEF CommitSucceeded
  <2> HIDE DEF changed
  <2> QED BY <2>1, <2>2
<1>6. ASSUME CommitFailed(Client)
      PROVE  \E changed \in [Jobs -> Row] :
               (\A j \in Jobs : changed[j].status # "absent") /\ Commit(Client, changed)
  <2> DEFINE changed == [j \in Jobs |-> Failed(tx[Client][j])]
  <2>1. changed \in [Jobs -> Row] /\ \A j \in Jobs : changed[j].status # "absent"
    BY <1>1, FailedType DEF Failed
  <2>2. Commit(Client, changed)
    BY <1>6 DEF CommitFailed
  <2> HIDE DEF changed
  <2> QED BY <2>1, <2>2
<1> QED BY <1>2, <1>3, <1>4, <1>5, <1>6

\* create, whatever is there.
LEMMA StoredCreates ==
  ASSUME Stored, NEW j \in Jobs, Create(j)
  PROVE  Stored'
<1>0. /\ TypeOK /\ OrderOK /\ RepositoryTypeOK
      /\ call = NoCall /\ call' = NoCall /\ Memory!Create(j)
      /\ Count(memory[j] \notin {NoRow, NewRow})
  BY DEF Stored, TypeOK, Create, MayCall, Answer
<1>1. since' \in Nat
  BY <1>0, Counting DEF TypeOK
<1>2. /\ NewRow \in Row /\ NewRow # NoRow
      /\ \A i \in Jobs : memory'[i] = IF i = j THEN NewRow ELSE memory[i]
      /\ memory' \in [Jobs -> Row] /\ order' \in Seq(Jobs) /\ OrderOK'
  BY <1>0, MemoryCreates
<1>3. /\ RepositoryTypeOK' /\ tx' = tx
      /\ \A i \in Jobs : jobs'[i] = NoRow <=> jobs[i] = NoRow /\ i # j
  <2>1. CASE Insert(j)
    BY <1>0, <1>2, <2>1, RowStepsType DEF Insert, RepositoryTypeOK
  <2>2. CASE InsertRefused(j)
    BY <1>0, <2>2 DEF InsertRefused, repositoryVars, RepositoryTypeOK
  <2> QED BY <2>1, <2>2 DEF Create
<1>4. LoadedOK' /\ SettingOK'
  BY <1>0, <1>3 DEF Stored, LoadedOK, SettingOK, NoCall, Setters
<1>5. SameKeys'
  BY <1>2, <1>3 DEF Stored, SameKeys
<1> QED BY <1>0, <1>1, <1>2, <1>3, <1>4, <1>5 DEF Stored, TypeOK

\* Every step keeps the keys; no time passes once a job was overwritten.
LEMMA StoredStep ==
  ASSUME Stored, Overwritten, [Next]_vars
  PROVE  Stored'
<1>0. TypeOK
  BY DEF Stored
<1>1. CASE UNCHANGED vars
  BY <1>1 DEF vars, repositoryVars, Stored, TypeOK, RepositoryTypeOK, OrderOK, LoadedOK,
              SameKeys, SettingOK
<1>2. CASE Claim
  <2>1. ASSUME NEW j \in Jobs, SelectOldestClaimable(Client, j), Begin("claim", {j}, 0)
        PROVE  Stored'
    <3>1. Load(Client, {j}) /\ UNCHANGED jobs /\ jobs[j] # NoRow
      BY <2>1 DEF SelectOldestClaimable, OldestClaimable, Claimable, NoRow
    <3> QED BY <2>1, <3>1, StoredBegins DEF Setters
  <2>2. CASE /\ UNCHANGED repositoryVars /\ Memory!ClaimNextQueued /\ call = NoCall
             /\ call' = NoCall /\ Count(FALSE)
    BY <1>0, <2>2, MemoryClaims, StoredEnds
  <2> QED BY <1>2, <2>1, <2>2 DEF Claim, MayCall, Answer
<1>3. CASE Claiming
  <2>1. CommitClaim(Client) /\ Memory!ClaimNextQueued /\ call' = NoCall /\ Count(FALSE)
    BY <1>3 DEF Claiming, Answer
  <2> QED BY <1>0, <2>1, MemoryClaims, Committing, StoredEnds
<1>4. CASE Recover
  <2>1. /\ Load(Client, Stale) /\ UNCHANGED jobs /\ Begin("recover", Stale, 0)
        /\ Stale \in SUBSET Jobs /\ \A j \in Stale : jobs[j] # NoRow
    BY <1>4 DEF Recover, SelectStale, Stale, NoRow
  <2> QED BY <2>1, StoredBegins DEF Setters
<1>5. CASE Recovering
  <2>1. CommitRecovery(Client) /\ Memory!RecoverStaleRunning /\ call' = NoCall /\ Count(FALSE)
    BY <1>5 DEF Recovering, Answer
  <2> QED BY <1>0, <2>1, MemoryRecovers, Committing, StoredEnds
<1>6. CASE Setting
  <2>1. PICK j \in call.job, answer \in SetterAnswers :
          MemorySet(call.op, j, call.result, answer) /\ call' = NoCall
    BY <1>6 DEF Setting, Answer
  <2>2. /\ call.op \in Setters /\ call.result \in Nat /\ j \in Jobs /\ Count(FALSE)
        /\ CommitStarted(Client) \/ CommitSucceeded(Client, call.result)
             \/ CommitFailed(Client)
    BY <1>6 DEF Setting, Setters, Stored, SettingOK, LoadedOK
  <2>3. MemoryKeeps
    BY <1>0, <2>1, <2>2, MemorySetsKeep
  <2> QED BY <2>1, <2>2, <2>3, Committing, StoredEnds
<1>7. ASSUME NEW j \in Jobs, Create(j) \/ Age(j)
      PROVE  Stored'
  BY <1>7, StoredCreates DEF Age
<1>8. ASSUME NEW op \in Setters, NEW j \in Jobs, NEW r \in Results,
             Set(op, j, r) \/ SetRefused(op, j, r)
      PROVE  Stored'
  <2>0. r \in Nat
    BY ResultsAssumption
  <2>1. CASE Set(op, j, r)
    <3>1. /\ Load(Client, {j}) /\ UNCHANGED jobs /\ Begin(op, {j}, r)
          /\ jobs[j].status \in AllowedFrom(op)
      BY <2>1 DEF Set, SelectForTransition
    <3>2. jobs[j] # NoRow
      BY <3>1, Allowed DEF Setters, NoRow
    <3> QED BY <2>0, <3>1, <3>2, StoredBegins
  <2>2. CASE SetRefused(op, j, r)
    <3>1. PICK answer \in SetterAnswers : MemorySet(op, j, r, answer)
      BY <2>2 DEF SetRefused
    <3>2. call = NoCall /\ call' = NoCall /\ UNCHANGED repositoryVars /\ Count(FALSE)
      BY <2>2 DEF SetRefused, MayCall, TransitionRejected, Answer
    <3>3. MemoryKeeps
      BY <1>0, <2>0, <3>1, MemorySetsKeep
    <3> QED BY <3>2, <3>3, StoredEnds
  <2> QED BY <1>8, <2>1, <2>2
<1> QED BY <1>1, <1>2, <1>3, <1>4, <1>5, <1>6, <1>7, <1>8 DEF Next

-----------------------------------------------------------------------------
\* What was overwritten stays so, and a step that overwrites is a create.
LEMMA OverwrittenStays ==
  ASSUME since \in Nat, [Next]_vars
  PROVE  /\ Overwritten => Overwritten'
         /\ ~Overwritten /\ Overwritten' => \E j \in Jobs : Create(j)
<1>1. ASSUME Count(FALSE)
      PROVE  Overwritten' <=> Overwritten
  BY <1>1, Counting DEF Count, Overwritten
<1>2. ASSUME NEW j \in Jobs, Create(j)
      PROVE  Overwritten => Overwritten'
  BY <1>2, Counting DEF Create
<1>3. CASE \E j \in Jobs : Create(j)
  BY <1>2, <1>3
<1>4. CASE ~\E j \in Jobs : Create(j)
  <2>1. since' = since \/ Count(FALSE)
    BY <1>4 DEF Next, Age, Claim, Claiming, Recover, Recovering, Set, SetRefused, Setting,
                Begin, vars
  <2> QED BY <1>1, <2>1 DEF Overwritten
<1> QED BY <1>3, <1>4

\* Every step keeps the invariant.
LEMMA InvStep == Inv /\ [Next]_vars => Inv'
<1> SUFFICES ASSUME Inv, [Next]_vars PROVE Inv'
  OBVIOUS
<1>0. Stored /\ since \in Nat
  BY DEF Inv, Stored, TypeOK
<1>1. CASE ~Overwritten'
  <2>1. Agreement'
    BY <1>0, <1>1, OverwrittenStays, AgreementStep DEF Inv
  <2>2. Stored'
    BY <2>1, AgreementStored, PTL
  <2> QED BY <2>1, <2>2 DEF Inv
<1>2. CASE Overwritten'
  <2>1. Stored'
    BY <1>0, OverwrittenStays, StoredStep, StoredCreates, <1>2
  <2> QED BY <1>2, <2>1 DEF Inv
<1> QED BY <1>1, <1>2

\* The invariant holds in every state of every behaviour.
THEOREM Invariance == Spec => []Inv
<1>1. Init => Inv
  BY InvInit, AgreementStored DEF Inv
<1> QED BY <1>1, InvStep, PTL DEF Spec

\* Both backends hold the same jobs after any sequence of calls, but for the
\* claimed_at of the jobs that have ended, until create is called for a job that
\* is there and has changed.
THEOREM SameJobs == Spec => []BackendsAgree
<1>1. Inv => BackendsAgree
  BY DEF Inv, Agreement, Agrees, InTable, BackendsAgree
<1> QED BY <1>1, Invariance, PTL

\* Until then every call answers the same on both backends, down to the error it
\* raises, but for the create of a job that is there.
THEOREM SameAnswers == Spec => []AnswersAgree
<1>1. Inv => AnswersAgree
  BY DEF Inv, Agreement, DifferencesOK, AnswersAgree
<1> QED BY <1>1, Invariance, PTL

-----------------------------------------------------------------------------
(***************************************************************************)
(* The reads.  A listing is read off the ranks of the selected jobs: the   *)
(* lemmas below say that the ranks are 1, 2, ... and follow the order.     *)
(***************************************************************************)

\* Numbers that grow with a total order of n elements, and are at most n, are
\* 1, 2, ..., n.  below[j] are the elements smaller than j.
LEMMA RanksAreDistinct ==
  ASSUME NEW S, IsFiniteSet(S), NEW below \in [S -> SUBSET S],
         \A j, k \in S : j # k => j \in below[k] \/ k \in below[j],
         NEW rank \in [S -> 1..Cardinality(S)],
         \A j, k \in S : j \in below[k] => rank[j] < rank[k]
  PROVE  /\ \A n \in 1..Cardinality(S) : \E j \in S : rank[j] = n
         /\ \A j, k \in S : j \in below[k] <=> rank[j] < rank[k]
         /\ \A j, k \in S : rank[j] = rank[k] => j = k
<1>0. Cardinality(S) \in Nat
  BY FS_CardinalityType
<1>1. \A j \in S : rank[j] \in Nat
  BY <1>0
<1>2. \A j, k \in S : rank[j] = rank[k] => j = k
  BY <1>1
<1>3. \A j, k \in S : j \in below[k] <=> rank[j] < rank[k]
  BY <1>1
<1>4. \A n \in 1..Cardinality(S) : \E j \in S : rank[j] = n
  <2>1. rank \in Injection(S, 1..Cardinality(S))
    BY <1>2, Fun_IsInj
  <2>2. /\ IsFiniteSet(1..Cardinality(S))
        /\ Cardinality(1..Cardinality(S)) = Cardinality(S)
    BY <1>0, FS_Interval
  <2>3. rank \in Surjection(S, 1..Cardinality(S))
    BY <2>1, <2>2, FS_Injection
  <2> QED BY <2>3, Zenon DEF Surjection
<1> QED BY <1>2, <1>3, <1>4

\* In a finite set that is strictly and totally ordered, the elements have the
\* ranks 1, 2, ..., n, each once, and smaller elements have smaller ranks.
LEMMA Ranks ==
  ASSUME NEW S, IsFiniteSet(S), NEW below \in [S -> SUBSET S],
         \A j \in S : j \notin below[j],
         \A i, j, k \in S : i \in below[j] /\ j \in below[k] => i \in below[k],
         \A j, k \in S : j # k => j \in below[k] \/ k \in below[j],
         NEW rank, rank = [j \in S |-> 1 + Cardinality(below[j])]
  PROVE  /\ rank \in [S -> 1..Cardinality(S)]
         /\ \A n \in 1..Cardinality(S) : \E j \in S : rank[j] = n
         /\ \A j, k \in S : j \in below[k] <=> rank[j] < rank[k]
         /\ \A j, k \in S : rank[j] = rank[k] => j = k
<1>0. Cardinality(S) \in Nat
  BY FS_CardinalityType
<1>1. ASSUME NEW j \in S
      PROVE  /\ IsFiniteSet(below[j]) /\ Cardinality(below[j]) \in Nat
             /\ Cardinality(below[j]) < Cardinality(S)
  <2>1. below[j] \in SUBSET S /\ j \notin below[j]
    OBVIOUS
  <2>2. /\ IsFiniteSet(below[j]) /\ Cardinality(below[j]) <= Cardinality(S)
        /\ Cardinality(S) # Cardinality(below[j])
    BY <2>1, FS_Subset
  <2>3. Cardinality(below[j]) \in Nat
    BY <2>2, FS_CardinalityType
  <2> QED BY <1>0, <2>2, <2>3
<1>2. ASSUME NEW j \in S, NEW k \in S, j \in below[k]
      PROVE  rank[j] < rank[k]
  <2>1. below[j] \in SUBSET below[k] /\ j \notin below[j]
    BY <1>2
  <2>2. /\ IsFiniteSet(below[k])
        /\ Cardinality(below[j]) \in Nat /\ Cardinality(below[k]) \in Nat
    BY <1>1
  <2>3. /\ Cardinality(below[j]) <= Cardinality(below[k])
        /\ Cardinality(below[j]) # Cardinality(below[k])
    BY <1>2, <2>1, <2>2, FS_Subset
  <2> QED BY <2>2, <2>3
<1>3. rank \in [S -> 1..Cardinality(S)]
  BY <1>0, <1>1
<1> QED BY <1>2, <1>3, RanksAreDistinct

\* The dict is finite, and so is every set of stored jobs.
LEMMA StoredIsFinite ==
  ASSUME TypeOK, OrderOK, NEW S \in SUBSET Jobs, \A j \in S : memory[j] # NoRow
  PROVE  IsFiniteSet(S)
<1>1. Len(order) \in Nat /\ order \in [1..Len(order) -> Jobs]
  BY DEF TypeOK
<1>2. order \in Surjection(1..Len(order), Range(order))
  BY <1>1, Fun_RangeProperties
<1>3. IsFiniteSet(1..Len(order))
  BY <1>1, FS_Interval
<1>4. IsFiniteSet(Range(order))
  BY <1>2, <1>3, FS_Surjection
<1>5. S \in SUBSET Range(order)
  BY <1>1 DEF OrderOK, Range
<1> QED BY <1>4, <1>5, FS_Subset

\* The order in which jobs are listed is strict and total.
LEMMA ListingOrder ==
  ASSUME TypeOK, OrderOK, NEW S \in SUBSET Jobs, \A j \in S : memory[j] # NoRow
  PROVE  /\ \A j \in S : ~Memory!PrecedesReversed(j, j)
         /\ \A i, j, k \in S :
              Memory!PrecedesReversed(i, j) /\ Memory!PrecedesReversed(j, k)
                => Memory!PrecedesReversed(i, k)
         /\ \A j, k \in S :
              j # k => Memory!PrecedesReversed(j, k) \/ Memory!PrecedesReversed(k, j)
<1>1. \A j \in S : CreatedAt[j] \in Nat
  BY JobsAssumption
<1>2. \A j \in S : Memory!Position(j) \in Nat
  <2>1. Len(order) \in Nat
    BY DEF TypeOK
  <2>2. \A j \in S : Memory!Position(j) \in 1..Len(order)
    BY Positions
  <2> QED BY <2>1, <2>2
<1>3. \A j, k \in S : Memory!Position(j) = Memory!Position(k) => j = k
  BY Positions
<1> QED BY <1>1, <1>2, <1>3 DEF Memory!PrecedesReversed

\* The ranks of the jobs of S in the order of a listing.
Rank(S) == [j \in S |-> 1 + Cardinality({k \in S : Memory!PrecedesReversed(k, j)})]

\* Some stored jobs have ranks 1, 2, ... in the order of a listing.
LEMMA ListingRanks ==
  ASSUME TypeOK, OrderOK, NEW S \in SUBSET Jobs, \A j \in S : memory[j] # NoRow,
         NEW rank, rank = Rank(S)
  PROVE  /\ rank \in [S -> 1..Cardinality(S)]
         /\ \A n \in 1..Cardinality(S) : \E j \in S : rank[j] = n
         /\ \A j, k \in S : Memory!PrecedesReversed(j, k) <=> rank[j] < rank[k]
         /\ \A j, k \in S : rank[j] = rank[k] => j = k
<1> DEFINE below == [j \in S |-> {k \in S : Memory!PrecedesReversed(k, j)}]
<1>1. below \in [S -> SUBSET S]
  OBVIOUS
<1>2. \A j, k \in S : j \in below[k] <=> Memory!PrecedesReversed(j, k)
  OBVIOUS
<1>3. rank = [j \in S |-> 1 + Cardinality(below[j])]
  BY DEF Rank
<1>4. IsFiniteSet(S)
  BY StoredIsFinite
<1>5. /\ \A j \in S : j \notin below[j]
      /\ \A i, j, k \in S : i \in below[j] /\ j \in below[k] => i \in below[k]
      /\ \A j, k \in S : j # k => j \in below[k] \/ k \in below[j]
  <2> HIDE DEF below
  <2> QED BY <1>2, ListingOrder
<1> HIDE DEF below
<1>6. /\ rank \in [S -> 1..Cardinality(S)]
      /\ \A n \in 1..Cardinality(S) : \E j \in S : rank[j] = n
      /\ \A j, k \in S : j \in below[k] <=> rank[j] < rank[k]
      /\ \A j, k \in S : rank[j] = rank[k] => j = k
  BY <1>1, <1>3, <1>4, <1>5, Ranks
<1> QED BY <1>2, <1>6

\* Cardinality is the same operator in the instantiated module.
LEMMA SameCardinality == ASSUME NEW S PROVE Memory!Cardinality(S) = Cardinality(S)
  BY Zenon DEF Cardinality, Memory!Cardinality

\* As many jobs as a listing of S has.
Cut(S, limit) == IF Cardinality(S) < limit THEN Cardinality(S) ELSE limit

\* The list has len of the jobs of S, the n-th is the one of rank n.
ByRank(list, S, rank, len) ==
  /\ len \in Nat /\ len <= Cardinality(S) /\ Cardinality(S) \in Nat
  /\ list \in [1..len -> S]
  /\ Len(list) = len
  /\ \A n \in 1..len : rank[list[n]] = n

\* A listing is in the order of the ranks.
LEMMA ListedByRank ==
  ASSUME TypeOK, OrderOK, NEW S \in SUBSET Jobs, \A j \in S : memory[j] # NoRow,
         NEW limit \in Nat,
         NEW rank, rank = Rank(S), NEW list, list = Memory!Newest(S, limit)
  PROVE  ByRank(list, S, rank, Cut(S, limit))
<1>1. Cardinality(S) \in Nat
  BY StoredIsFinite, FS_CardinalityType
<1>2. Cut(S, limit) \in Nat /\ Cut(S, limit) <= Cardinality(S)
  BY <1>1 DEF Cut
<1> DEFINE len == Cut(S, limit)
<1>3. list = [n \in 1..len |->
                CHOOSE j \in S :
                  1 + Memory!Cardinality({k \in S : Memory!PrecedesReversed(k, j)}) = n]
  <2>1. len = IF Memory!Cardinality(S) < limit THEN Memory!Cardinality(S) ELSE limit
    BY SameCardinality, Zenon DEF Cut
  <2> HIDE DEF len
  <2> QED BY <2>1, Zenon DEF Memory!Newest
<1>4. \A n \in 1..Cardinality(S) : \E j \in S : rank[j] = n
  BY ListingRanks
<1> HIDE DEF len
<1>5. ASSUME NEW n \in 1..len
      PROVE  list[n] \in S /\ rank[list[n]] = n
  <2>1. list[n] = CHOOSE j \in S :
                    1 + Memory!Cardinality({k \in S : Memory!PrecedesReversed(k, j)}) = n
    BY <1>3, <1>5, Zenon
  <2>2. n \in 1..Cardinality(S)
    BY <1>1, <1>2 DEF len
  <2>3. PICK i \in S : rank[i] = n
    BY <1>4, <2>2
  <2>4. 1 + Memory!Cardinality({k \in S : Memory!PrecedesReversed(k, i)}) = n
    BY <2>3, SameCardinality DEF Rank
  <2>5. /\ list[n] \in S
        /\ 1 + Memory!Cardinality({k \in S : Memory!PrecedesReversed(k, list[n])}) = n
    BY <2>1, <2>4, Zenon
  <2> QED BY <2>5, SameCardinality DEF Rank
<1>6. list \in [1..len -> S]
  <2>1. list = [n \in 1..len |-> list[n]]
    BY <1>3, Zenon
  <2> QED BY <1>5, <2>1
<1>7. Len(list) = len
  BY <1>2, <1>6 DEF len
<1> QED BY <1>1, <1>2, <1>5, <1>6, <1>7 DEF len, ByRank

\* The jobs on a list.
Answered(list) == {list[n] : n \in 1..Len(list)}

\* A listing has the jobs of the smallest ranks, each once and in their order.
LEMMA ListingIsCut ==
  ASSUME TypeOK, OrderOK, NEW S \in SUBSET Jobs, \A j \in S : memory[j] # NoRow,
         NEW limit \in Nat, NEW list, list = Memory!Newest(S, limit),
         NEW answered, answered = Answered(list)
  PROVE  /\ answered \subseteq S
         /\ Cardinality(answered) = Len(list)
         /\ Len(list) = Cut(S, limit)
         /\ \A n \in 1..Len(list) : \A m \in 1..n : CreatedAt[list[m]] >= CreatedAt[list[n]]
         /\ \A j \in answered, k \in S \ answered : CreatedAt[j] >= CreatedAt[k]
<1> DEFINE rank == Rank(S)
           len == Cut(S, limit)
<1>1. /\ rank \in [S -> 1..Cardinality(S)]
      /\ \A j, k \in S : Memory!PrecedesReversed(j, k) <=> rank[j] < rank[k]
      /\ \A j, k \in S : rank[j] = rank[k] => j = k
  BY ListingRanks
<1>2. /\ len \in Nat /\ len <= Cardinality(S) /\ Cardinality(S) \in Nat
      /\ list \in [1..len -> S]
      /\ Len(list) = len
      /\ \A n \in 1..len : rank[list[n]] = n
  <2>1. ByRank(list, S, rank, len)
    BY ListedByRank
  <2> HIDE DEF rank, len
  <2> QED BY <2>1 DEF ByRank
<1> HIDE DEF rank, len
<1>3. answered = Range(list) /\ answered \subseteq S
  BY <1>2 DEF Range, Answered
<1>4. \A j, k \in S : rank[j] < rank[k] => CreatedAt[j] >= CreatedAt[k]
  BY <1>1, JobsAssumption DEF Memory!PrecedesReversed
<1>5. \A j \in S : CreatedAt[j] \in Nat /\ rank[j] \in Nat /\ rank[j] >= 1
  BY <1>1, <1>2, JobsAssumption
<1>6. Cardinality(answered) = Len(list)
  <2>1. list \in Injection(1..len, S)
    BY <1>2, Fun_IsInj
  <2>2. list \in Bijection(1..len, answered)
    BY <1>3, <2>1, Fun_InjMeansBijImage
  <2>3. ExistsBijection(1..len, answered)
    BY <2>2, Zenon DEF ExistsBijection
  <2> QED BY <1>2, <2>3, FS_CountingElements
<1>7. ASSUME NEW n \in 1..Len(list), NEW m \in 1..n
      PROVE  CreatedAt[list[m]] >= CreatedAt[list[n]]
  <2>1. m \in 1..len /\ n \in 1..len /\ list[m] \in S /\ list[n] \in S
    BY <1>2
  <2>2. rank[list[m]] = m /\ rank[list[n]] = n
    BY <1>2, <2>1
  <2>3. CASE m = n
    BY <1>5, <2>1, <2>3
  <2>4. CASE m < n
    BY <1>4, <2>1, <2>2, <2>4
  <2> QED BY <2>3, <2>4
<1>8. ASSUME NEW j \in answered, NEW k \in S \ answered
      PROVE  CreatedAt[j] >= CreatedAt[k]
  <2>1. PICK n \in 1..len : j = list[n]
    BY <1>2 DEF Answered
  <2>2. rank[j] = n /\ n <= len /\ j \in S
    BY <1>2, <2>1
  <2>3. ~(rank[k] <= len)
    <3> SUFFICES ASSUME rank[k] <= len PROVE FALSE
      OBVIOUS
    <3>1. rank[k] \in 1..len
      BY <1>2, <1>5
    <3>2. rank[list[rank[k]]] = rank[k] /\ list[rank[k]] \in S
      BY <1>2, <3>1
    <3>3. list[rank[k]] = k
      BY <1>1, <3>2
    <3> QED BY <1>2, <3>1, <3>3 DEF Answered
  <2> QED BY <1>2, <1>4, <1>5, <2>2, <2>3
<1> QED BY <1>2, <1>3, <1>6, <1>7, <1>8 DEF len

\* The same jobs are found, whoever asks, and listed alike.
LEMMA ReadsAgreeInv == Inv => ReadsAgree
<1> SUFFICES ASSUME Inv PROVE ReadsAgree
  OBVIOUS
<1>1. \A j \in Jobs : jobs[j] = NoRow <=> memory[j] = NoRow
  BY DEF Inv, Stored, SameKeys
<1>2. ASSUME NEW k \in Jobs, NEW tenant
      PROVE  Memory!GetForTenant(k, tenant) = GetForTenant(k, tenant)
  BY <1>1, AbsentIsNoRow DEF GetForTenant, Memory!GetForTenant, Memory!Stored
<1>3. ASSUME NEW tenant, NEW project, NEW limit \in Limits
      PROVE  IsListing(Memory!ListRecent(tenant, project, limit), tenant, project, limit)
  <2> DEFINE S == Selected(tenant, project)
             list == Memory!ListRecent(tenant, project, limit)
             answered == Answered(list)
  <2>1. S \in SUBSET Jobs /\ \A j \in S : memory[j] # NoRow
    BY <1>1 DEF Selected
  <2>2. list = Memory!Newest(S, limit)
    <3>1. Memory!Listed(tenant, project) = S
      BY <1>1, AbsentIsNoRow DEF Selected, Memory!Listed, Memory!Stored
    <3> QED BY <3>1, Zenon DEF Memory!ListRecent
  <2>3. limit \in Nat
    BY ReadersAssumption
  <2> HIDE DEF S, list
  <2>4. /\ answered \subseteq S
        /\ Cardinality(answered) = Len(list)
        /\ Len(list) = Cut(S, limit)
        /\ \A n \in 1..Len(list) : \A m \in 1..n : CreatedAt[list[m]] >= CreatedAt[list[n]]
        /\ \A j \in answered, k \in S \ answered : CreatedAt[j] >= CreatedAt[k]
    <3>1. TypeOK /\ OrderOK
      BY DEF Inv, Stored
    <3> QED BY <2>1, <2>2, <2>3, <3>1, ListingIsCut
  <2> QED BY <2>4, Zenon DEF IsListing, Cut, Answered, S, list
<1> QED BY <1>2, <1>3 DEF ReadsAgree

\* What is read from the in-memory backend PostgreSQL might have answered too,
\* whatever was created twice.
THEOREM SameReads == Spec => []ReadsAgree
<1> QED BY Invariance, ReadsAgreeInv, PTL
=============================================================================
