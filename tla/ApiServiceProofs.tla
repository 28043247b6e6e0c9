------------------------- MODULE ApiServiceProofs -------------------------
(***************************************************************************)
(* Proofs about the evaluation routes, for every set of tenants, requests, *)
(* limits and deployments.  What the limiter guarantees is taken from      *)
(* RateLimiterProofs, for the keys and limits that the routes use.         *)
(***************************************************************************)
EXTENDS ApiService, FiniteSetTheorems, SequenceTheorems, TLAPS

LimiterProofs ==
  INSTANCE RateLimiterProofs
    WITH Keys <- ClientKeys, Limit <- [k \in ClientKeys |-> RouteLimit[k[1]]]

\* A key is a route and the joined parts of a tenant and an address.
LEMMA KeyParts ==
  /\ \A k \in ClientKeys : k[1] \in Routes
  /\ \A r \in Routes, t \in Tenants, a \in Addresses :
       /\ JoinedKey(r, t, a) \in ClientKeys
       /\ JoinedKey(r, t, a)[1] = r /\ JoinedKey(r, t, a)[2] = Joined(t, a)
  BY DEF ClientKeys, JoinedKey

\* The limiter's assumptions hold here.
LEMMA LimitType == [k \in ClientKeys |-> RouteLimit[k[1]]] \in [ClientKeys -> Int]
  BY KeyParts, RouteLimitAssumption

\* The limiter's steps, as the routes take them, keep its invariant.
LEMMA LimiterStep ==
  ASSUME LimiterProofs!Inv,
         \/ \E k \in ClientKeys : Limiter!Admit(k)
         \/ Limiter!Tick
         \/ Limiter!Forget
         \/ UNCHANGED <<now, counters, log>>
  PROVE  LimiterProofs!Inv'
<1>1. LimiterProofs!Inv /\ [LimiterProofs!Next]_(LimiterProofs!vars) => LimiterProofs!Inv'
  BY LimitType, WindowAssumption, ApiBoundsAssumption, LimiterProofs!NextInv
<1>2. CASE \E k \in ClientKeys : Limiter!Admit(k)
  <2>1. \E k \in ClientKeys : LimiterProofs!Admit(k)
    BY <1>2
    DEF Limiter!Admit, Limiter!OpenWindow, Limiter!CountRequest, Limiter!Expired,
        Limiter!NoCounter, LimiterProofs!Admit, LimiterProofs!OpenWindow,
        LimiterProofs!CountRequest, LimiterProofs!Expired, LimiterProofs!NoCounter
  <2> QED BY <1>1, <2>1 DEF LimiterProofs!Next
<1>3. CASE Limiter!Tick
  BY <1>1, <1>3 DEF Limiter!Tick, LimiterProofs!Tick, LimiterProofs!Next
<1>4. CASE Limiter!Forget
  BY <1>1, <1>4
  DEF Limiter!Forget, Limiter!NoCounter, LimiterProofs!Forget, LimiterProofs!NoCounter,
      LimiterProofs!Next
<1>5. CASE UNCHANGED <<now, counters, log>>
  BY <1>1, <1>5 DEF LimiterProofs!vars
<1> QED BY <1>2, <1>3, <1>4, <1>5

\* A new limiter.
LEMMA LimiterInit == Limiter!Init => LimiterProofs!Inv
<1>1. LimiterProofs!Init => LimiterProofs!Inv
  BY LimitType, WindowAssumption, ApiBoundsAssumption, LimiterProofs!InitInv
<1> QED
  BY <1>1 DEF Limiter!Init, Limiter!NoCounter, LimiterProofs!Init, LimiterProofs!NoCounter

\* What the limiter's invariant says of its types and of a refusal.
LEMMA LimiterFacts ==
  ASSUME LimiterProofs!Inv
  PROVE  /\ Limiter!TypeOK
         /\ now \in Nat /\ log \in [ClientKeys -> Seq(Nat)]
         /\ \A k \in ClientKeys :
              Limiter!Exceeded(k) =>
                /\ RouteLimit[k[1]] <= Len(log[k])
                /\ \A i \in 1..Len(log[k]) :
                     i > Len(log[k]) - RouteLimit[k[1]] => now - log[k][i] < Window
<1>1. LimiterProofs!TypeOK
  BY DEF LimiterProofs!Inv
<1>2. Limiter!TypeOK
  BY <1>1
  DEF LimiterProofs!TypeOK, LimiterProofs!WindowCounter, Limiter!TypeOK, Limiter!WindowCounter
<1>3. now \in Nat /\ log \in [ClientKeys -> Seq(Nat)]
  BY <1>2, ApiBoundsAssumption DEF Limiter!TypeOK
<1>4. LimiterProofs!RefusalsAreEarned
  BY LimitType, WindowAssumption, ApiBoundsAssumption, LimiterProofs!RefusalsFollow
<1>5. ASSUME NEW k \in ClientKeys, Limiter!Exceeded(k)
      PROVE  LimiterProofs!Exceeded(k)
  BY <1>5
  DEF Limiter!Exceeded, Limiter!Expired, Limiter!NoCounter, LimiterProofs!Exceeded,
      LimiterProofs!Expired, LimiterProofs!NoCounter
<1> QED BY <1>2, <1>3, <1>4, <1>5 DEF LimiterProofs!RefusalsAreEarned

\* The same after a step.
LEMMA LimiterTypes ==
  ASSUME LimiterProofs!Inv'
  PROVE  Limiter!TypeOK' /\ log' \in [ClientKeys -> Seq(Nat)]
  BY DEF LimiterProofs!Inv, LimiterProofs!TypeOK, LimiterProofs!WindowCounter,
         Limiter!TypeOK, Limiter!WindowCounter
-----------------------------------------------------------------------------
(***************************************************************************)
(* The inductive invariant.                                                *)
(*                                                                         *)
(* Isolation rests on what a handler keeps across its database call: the   *)
(* tenant it was authorized for is the one it reads and writes for.  Then  *)
(* a row's tenant_id is its submitter, and what a query by tenant_id finds *)
(* is the caller's.  The log of the limiter holds the times of the         *)
(* accepted requests because both are kept under the same key, and that    *)
(* key is all that the requests of one counter have in common.             *)
(***************************************************************************)
\* The routes that read one job.
Reads == {"get_evaluation", "get_evaluation_details"}

CallOK(c) ==
  /\ c.caller = c.tenant_id
  /\ c.route = "submit_evaluation" => c.job_id \in Jobs
  /\ c.route \in Reads => c.job_id \in Jobs /\ c.limit = 0

CallsOK == \A c \in inflight : CallOK(c)

OwnersOK == \A j \in Jobs : owner[j] = rows[j].tenant_id

AcceptedOK ==
  /\ accepted \in [ClientKeys -> Seq(Admission)]
  /\ \A k \in ClientKeys :
       /\ Len(accepted[k]) = Len(log[k])
       /\ \A i \in 1..Len(log[k]) :
            /\ accepted[k][i].at = log[k][i]
            /\ Joined(accepted[k][i].caller, accepted[k][i].client_ip) = k[2]

RefusalsOK ==
  answer.code = 429 =>
    /\ answer.key \in ClientKeys /\ Limiter!Exceeded(answer.key)
    /\ answer.caller \in Tenants /\ answer.client_ip \in Addresses
    /\ answer.key[2] = Joined(answer.caller, answer.client_ip)

Inv ==
  /\ TypeOK
  /\ LimiterProofs!Inv
  /\ AcceptedOK
  /\ CallsOK
  /\ OwnersOK
  /\ RefusalsOK
  /\ TenantsSeeTheirOwn
  /\ AckedJobsAreFound

\* A step that answers nothing that the properties of answers are about.
Silent == answer'.code \notin {200, 404, 429} /\ answer'.found = {}

\* Such an answer breaks none of them.
LEMMA SilentAnswer ==
  ASSUME Silent
  PROVE  RefusalsOK' /\ TenantsSeeTheirOwn' /\ AckedJobsAreFound'
  BY DEF Silent, RefusalsOK, TenantsSeeTheirOwn, AckedJobsAreFound

\* The fixed answers are of this kind.
LEMMA FixedAnswers ==
  /\ NoAnswer.code = 0 /\ NoAnswer.found = {}
  /\ \A n : Refusal(n).code = n /\ Refusal(n).found = {}
  BY DEF Refusal, NoAnswer

\* An authorized request with a tenant: who calls, and for whom.
LEMMA CallerType ==
  ASSUME NEW q \in Requests, Authorized(q), TenantFromContextOrRequest(q) # None
  PROVE  /\ Caller(q) = TenantFromContextOrRequest(q)
         /\ Caller(q) \in Tenants
         /\ q \in Request /\ WellFormed(q)
         /\ q.route \in Routes /\ q.client_ip \in Addresses
         /\ ClientKey(q) = JoinedKey(q.route, Caller(q), q.client_ip)
         /\ ClientKey(q) \in ClientKeys
         /\ ClientKey(q)[2] = Joined(Caller(q), q.client_ip)
<1>1. q \in Request /\ WellFormed(q)
  BY RequestsAssumption
<1>2. Caller(q) = TenantFromContextOrRequest(q)
  BY DEF Caller, TenantFromContextOrRequest
<1>3. Caller(q) \in Tenants
  <2>1. CASE settings.auth_enabled
    BY <2>1 DEF Caller, Authorized, ValidToken, Tokens
  <2>2. CASE ~settings.auth_enabled
    BY <1>1, <1>2, <2>2 DEF Caller, Request
  <2> QED BY <2>1, <2>2
<1>4. q.route \in Routes /\ q.client_ip \in Addresses
  BY <1>1 DEF Request
<1>5. ClientKey(q) = JoinedKey(q.route, Caller(q), q.client_ip)
  BY <1>2 DEF ClientKey
<1> QED BY <1>1, <1>2, <1>3, <1>4, <1>5, KeyParts

\* What an arriving request leaves alone.
LEMMA ArriveKeeps ==
  ASSUME Inv, Arrive
  PROVE  /\ settings' \in Deployments
         /\ now' = now
         /\ rows' \in [Jobs -> RowType]
         /\ arrived' \in 0..MaxRequests /\ arrived \in Nat
         /\ restarts' \in 0..MaxRestarts
         /\ owner' \in [Jobs -> Tenants \cup {None}]
         /\ acked' \subseteq Jobs
         /\ OwnersOK'
<1>1. arrived' \in 0..MaxRequests /\ arrived \in Nat
  BY ApiBoundsAssumption DEF Inv, TypeOK, Arrive
<1>2. OwnersOK'
  BY DEF Inv, OwnersOK, Arrive
<1> QED BY <1>1, <1>2 DEF Inv, TypeOK, Arrive

\* A request that is answered at once: refused, or over the limit.
LEMMA RefusedStep ==
  ASSUME Inv, NEW q \in Requests, Unauthorized(q) \/ TenantMissing(q) \/ RateLimited(q)
  PROVE  Inv'
<1>0. Arrive /\ inflight' = inflight /\ accepted' = accepted /\ log' = log /\ counters' = counters
  BY DEF Unauthorized, TenantMissing, RateLimited, limiterVars, Limiter!Refuse, Limiter!vars
<1>1. /\ settings' \in Deployments /\ now' = now /\ rows' \in [Jobs -> RowType]
      /\ arrived' \in 0..MaxRequests /\ restarts' \in 0..MaxRestarts
      /\ owner' \in [Jobs -> Tenants \cup {None}] /\ acked' \subseteq Jobs
      /\ OwnersOK'
  BY <1>0, ArriveKeeps
<1>2. LimiterProofs!Inv'
  BY <1>0, <1>1, LimiterStep DEF Inv
<1>3. Limiter!TypeOK'
  BY <1>0, <1>1 DEF Inv, TypeOK, Limiter!TypeOK
<1>4. CallsOK' /\ AcceptedOK'
  BY <1>0 DEF Inv, CallsOK, CallOK, AcceptedOK
<1>5. answer'.code \in {400, 401, 429} /\ answer'.found = {}
  <2>1. CASE Unauthorized(q)
    BY <2>1, FixedAnswers DEF Unauthorized
  <2>2. CASE TenantMissing(q)
    BY <2>2, FixedAnswers DEF TenantMissing
  <2>3. CASE RateLimited(q)
    BY <2>3 DEF RateLimited, Refusal, NoAnswer
  <2> QED BY <2>1, <2>2, <2>3
<1>6. TypeOK'
  BY <1>0, <1>1, <1>3, <1>5 DEF Inv, TypeOK
<1>7. RefusalsOK'
  <2>1. CASE Unauthorized(q) \/ TenantMissing(q)
    BY <2>1, FixedAnswers DEF Unauthorized, TenantMissing, RefusalsOK
  <2>2. CASE RateLimited(q)
    <3>1. /\ answer'.key = JoinedKey(q.route, Caller(q), q.client_ip)
          /\ answer'.caller = Caller(q) /\ answer'.client_ip = q.client_ip
      BY <2>2 DEF RateLimited, Refusal, NoAnswer
    <3>2. /\ answer'.key = ClientKey(q) /\ answer'.key \in ClientKeys
          /\ answer'.caller \in Tenants /\ answer'.client_ip \in Addresses
          /\ answer'.key[2] = Joined(answer'.caller, answer'.client_ip)
      BY <2>2, <3>1, CallerType DEF RateLimited
    <3>3. Limiter!Exceeded(answer'.key)
      BY <2>2, <3>2 DEF RateLimited, Limiter!Refuse
    <3>4. Limiter!Exceeded(answer.key)'
      BY <1>0, <1>1, <3>3 DEF Limiter!Exceeded, Limiter!Expired
    <3> QED BY <3>2, <3>4 DEF RefusalsOK
  <2> QED BY <2>1, <2>2
<1>8. TenantsSeeTheirOwn' /\ AckedJobsAreFound'
  BY <1>5 DEF TenantsSeeTheirOwn, AckedJobsAreFound
<1> QED BY <1>1, <1>2, <1>4, <1>6, <1>7, <1>8 DEF Inv

\* A request that is accepted: the limiter counts it and the handler keeps the
\* caller's tenant.
LEMMA AcceptStep ==
  ASSUME Inv, NEW q \in Requests, Accept(q)
  PROVE  Inv'
<1>0. Arrive /\ Authorized(q) /\ TenantFromContextOrRequest(q) # None /\ answer' = NoAnswer
  BY DEF Accept
<1>1. /\ settings' \in Deployments /\ now' = now /\ rows' \in [Jobs -> RowType]
      /\ arrived' \in 0..MaxRequests /\ arrived \in Nat /\ restarts' \in 0..MaxRestarts
      /\ owner' \in [Jobs -> Tenants \cup {None}] /\ acked' \subseteq Jobs
      /\ OwnersOK'
  BY <1>0, ArriveKeeps
<1>2. /\ Caller(q) = TenantFromContextOrRequest(q) /\ Caller(q) \in Tenants
      /\ q \in Request /\ WellFormed(q)
      /\ q.client_ip \in Addresses
      /\ ClientKey(q) = JoinedKey(q.route, Caller(q), q.client_ip) /\ ClientKey(q) \in ClientKeys
      /\ ClientKey(q)[2] = Joined(Caller(q), q.client_ip)
  BY <1>0, CallerType
<1>3. \/ Limiter!Admit(ClientKey(q)) /\ settings.rate_limit_enabled
      \/ UNCHANGED <<limiterVars, accepted>>
  BY DEF Accept
<1>4. LimiterProofs!Inv'
  BY <1>1, <1>2, <1>3, LimiterStep DEF Inv, limiterVars
<1>5. AcceptedOK'
  <2>1. CASE Limiter!Admit(ClientKey(q)) /\ settings.rate_limit_enabled
    <3> DEFINE e == [caller |-> Caller(q), client_ip |-> q.client_ip, at |-> now]
    <3>1. log' = [log EXCEPT ![ClientKey(q)] = Append(@, now)]
      BY <2>1 DEF Limiter!Admit, Limiter!OpenWindow, Limiter!CountRequest
    <3>2. accepted' = [accepted EXCEPT ![ClientKey(q)] = Append(@, e)]
      BY <1>2, <2>1 DEF Accept
    <3>3. e \in Admission /\ e.at = now /\ Joined(e.caller, e.client_ip) = ClientKey(q)[2]
      BY <1>2, LimiterFacts DEF Admission, Inv
    <3> HIDE DEF e
    <3>4. log \in [ClientKeys -> Seq(Nat)] /\ now \in Nat /\ AcceptedOK
      BY LimiterFacts DEF Inv
    <3>5. accepted' \in [ClientKeys -> Seq(Admission)]
      BY <1>2, <3>2, <3>3, <3>4 DEF AcceptedOK
    <3>6. ASSUME NEW k \in ClientKeys
          PROVE  /\ Len(accepted'[k]) = Len(log'[k])
                 /\ \A i \in 1..Len(log'[k]) :
                      /\ accepted'[k][i].at = log'[k][i]
                      /\ Joined(accepted'[k][i].caller, accepted'[k][i].client_ip) = k[2]
      <4>1. CASE k = ClientKey(q)
        <5>1. accepted'[k] = Append(accepted[k], e) /\ log'[k] = Append(log[k], now)
          BY <1>2, <3>1, <3>2, <3>4, <4>1 DEF AcceptedOK
        <5>2. /\ accepted[k] \in Seq(Admission) /\ log[k] \in Seq(Nat)
              /\ Len(accepted[k]) = Len(log[k])
          BY <3>4 DEF AcceptedOK
        <5>3. \A i \in 1..Len(log[k]) :
                /\ accepted[k][i].at = log[k][i]
                /\ Joined(accepted[k][i].caller, accepted[k][i].client_ip) = k[2]
          BY <3>4 DEF AcceptedOK
        <5> QED
          BY <3>3, <3>4, <4>1, <5>1, <5>2, <5>3
      <4>2. CASE k # ClientKey(q)
        BY <3>1, <3>2, <3>4, <4>2 DEF AcceptedOK
      <4> QED BY <4>1, <4>2
    <3> QED BY <3>5, <3>6 DEF AcceptedOK
  <2>2. CASE UNCHANGED <<limiterVars, accepted>>
    BY <2>2 DEF Inv, limiterVars, AcceptedOK
  <2> QED BY <1>3, <2>1, <2>2
<1>6. Limiter!TypeOK' /\ log' \in [ClientKeys -> Seq(Nat)]
  BY <1>4, LimiterTypes
<1>7. PICK j \in Jobs :
        /\ IF q.route = "submit_evaluation" THEN FreshJob(j) ELSE q.job_id \in {j, None}
        /\ inflight' = inflight \cup
             {[id |-> arrived, route |-> q.route, caller |-> Caller(q),
               tenant_id |-> TenantFromContextOrRequest(q),
               job_id |-> IF q.route = "list_evaluations" THEN None ELSE j,
               limit |-> q.limit,
               created_at |-> IF q.route = "submit_evaluation" THEN now ELSE 0]}
  BY DEF Accept
<1> DEFINE c == [id |-> arrived, route |-> q.route, caller |-> Caller(q),
                 tenant_id |-> TenantFromContextOrRequest(q),
                 job_id |-> IF q.route = "list_evaluations" THEN None ELSE j,
                 limit |-> q.limit,
                 created_at |-> IF q.route = "submit_evaluation" THEN now ELSE 0]
<1>8. c \in Call
  <2>1. now \in Nat
    BY LimiterFacts DEF Inv
  <2>2. q.route \in Routes /\ q.limit \in Pages \cup {0}
    BY <1>2 DEF Request
  <2> QED BY <1>1, <1>2, <2>1, <2>2 DEF Call
<1>9. CallOK(c)
  BY <1>2 DEF CallOK, Reads, WellFormed
<1>10. inflight' \subseteq Call /\ CallsOK'
  BY <1>7, <1>8, <1>9 DEF Inv, TypeOK, CallsOK, CallOK
<1>11. answer'.code = 0 /\ Silent
  BY <1>0, FixedAnswers DEF Silent
<1>12. TypeOK'
  BY <1>1, <1>5, <1>6, <1>10, <1>11 DEF TypeOK, AcceptedOK
<1> QED BY <1>1, <1>4, <1>5, <1>10, <1>11, <1>12, SilentAnswer DEF Inv

(***************************************************************************)
(* The database calls.  A handler that ends leaves the limiter alone.      *)
(***************************************************************************)
LEMMA FinishKeeps ==
  ASSUME Inv, NEW c \in inflight, NEW code \in {200, 202, 404, 500}, NEW found,
         Finish(c, code, found)
  PROVE  /\ settings' \in Deployments
         /\ LimiterProofs!Inv' /\ Limiter!TypeOK' /\ AcceptedOK'
         /\ accepted' \in [ClientKeys -> Seq(Admission)]
         /\ inflight' \subseteq Call /\ CallsOK'
         /\ arrived' \in 0..MaxRequests /\ restarts' \in 0..MaxRestarts
         /\ answer'.code = code /\ answer'.caller = c.tenant_id
         /\ answer'.job_id = c.job_id /\ answer'.limit = c.limit
         /\ answer'.found = found
         /\ RefusalsOK'
         /\ c \in Call /\ CallOK(c)
<1>1. settings' = settings /\ UNCHANGED <<now, counters, log, accepted, arrived, restarts>>
  BY DEF Finish, limiterVars
<1>2. LimiterProofs!Inv' /\ Limiter!TypeOK' /\ log' \in [ClientKeys -> Seq(Nat)]
  BY <1>1, LimiterStep, LimiterTypes DEF Inv
<1>3. c \in Call /\ CallOK(c)
  BY DEF Inv, TypeOK, CallsOK
<1>4. inflight' \subseteq inflight
  BY DEF Finish
<1>5. inflight' \subseteq Call /\ CallsOK'
  BY <1>4 DEF Inv, TypeOK, CallsOK, CallOK
<1>6. /\ answer'.code = code /\ answer'.caller = c.caller
      /\ answer'.job_id = c.job_id /\ answer'.limit = c.limit
      /\ answer'.found = found
  BY DEF Finish, NoAnswer
<1>7. RefusalsOK'
  BY <1>6 DEF RefusalsOK
<1>8. c.caller = c.tenant_id
  BY <1>3 DEF CallOK
<1>9. /\ AcceptedOK' /\ settings' \in Deployments
      /\ accepted' \in [ClientKeys -> Seq(Admission)]
  BY <1>1 DEF Inv, TypeOK, AcceptedOK
<1>10. arrived' \in 0..MaxRequests /\ restarts' \in 0..MaxRestarts
  BY <1>1 DEF Inv, TypeOK
<1> QED BY <1>2, <1>3, <1>5, <1>6, <1>7, <1>8, <1>9, <1>10

\* The row that a submission writes is its caller's.
LEMMA InsertKeeps ==
  ASSUME Inv, NEW c \in Call, CallOK(c), c.route = "submit_evaluation", InsertRow(c)
  PROVE  /\ rows' \in [Jobs -> RowType]
         /\ owner' \in [Jobs -> Tenants \cup {None}]
         /\ OwnersOK'
         /\ owner'[c.job_id] = c.tenant_id
<1> DEFINE row == [tenant_id |-> c.tenant_id, created_at |-> c.created_at]
<1>1. c.job_id \in Jobs /\ c.caller = c.tenant_id
  BY DEF CallOK
<1>2. c.tenant_id \in Tenants /\ c.created_at \in Nat
  BY DEF Call
<1>3. row \in RowType /\ row.tenant_id = c.tenant_id
  BY <1>2 DEF RowType
<1> HIDE DEF row
<1>4. rows \in [Jobs -> RowType] /\ owner \in [Jobs -> Tenants \cup {None}]
  BY DEF Inv, TypeOK
<1>5. /\ rows' = [rows EXCEPT ![c.job_id] = row]
      /\ owner' = [owner EXCEPT ![c.job_id] = c.tenant_id]
  BY <1>1 DEF InsertRow, row
<1>6. OwnersOK'
  BY <1>1, <1>3, <1>4, <1>5 DEF Inv, OwnersOK
<1> QED BY <1>1, <1>2, <1>3, <1>4, <1>5, <1>6

\* A submission that is answered.
LEMMA SubmitStep ==
  ASSUME Inv, NEW c \in inflight, Submit(c)
  PROVE  Inv'
<1>1. Finish(c, 202, {c.job_id}) /\ InsertRow(c) /\ acked' = acked \cup {c.job_id}
  BY DEF Submit
<1>2. c \in Call /\ CallOK(c) /\ answer'.code = 202 /\ answer'.caller = c.tenant_id
      /\ answer'.found = {c.job_id}
  BY <1>1, FinishKeeps
<1>3. c.route = "submit_evaluation" /\ c.job_id \in Jobs
  BY <1>2 DEF Submit, CallOK
<1>4. /\ rows' \in [Jobs -> RowType] /\ owner' \in [Jobs -> Tenants \cup {None}]
      /\ OwnersOK' /\ owner'[c.job_id] = c.tenant_id
  BY <1>1, <1>2, <1>3, InsertKeeps
<1>5. acked' \subseteq Jobs
  BY <1>1, <1>3 DEF Inv, TypeOK
<1>6. TypeOK'
  BY <1>1, <1>2, <1>4, <1>5, FinishKeeps DEF TypeOK
<1>7. TenantsSeeTheirOwn' /\ AckedJobsAreFound'
  BY <1>2, <1>4 DEF TenantsSeeTheirOwn, AckedJobsAreFound
<1> QED BY <1>1, <1>4, <1>6, <1>7, FinishKeeps DEF Inv

\* What a read keeps, whatever it finds.
LEMMA ReadKeeps ==
  ASSUME Inv, NEW c \in inflight, NEW code \in {200, 202, 404, 500}, NEW found,
         Finish(c, code, found), UNCHANGED <<rows, owner, acked>>
  PROVE  /\ TypeOK' /\ LimiterProofs!Inv' /\ AcceptedOK'
         /\ CallsOK' /\ OwnersOK' /\ RefusalsOK'
<1>1. OwnersOK'
  BY DEF Inv, OwnersOK
<1>2. /\ rows' \in [Jobs -> RowType] /\ owner' \in [Jobs -> Tenants \cup {None}]
      /\ acked' \subseteq Jobs
  BY DEF Inv, TypeOK
<1>3. TypeOK'
  BY <1>2, FinishKeeps DEF TypeOK
<1> QED BY <1>1, <1>3, FinishKeeps

\* A listing's limit is a number.
LEMMA LimitIsNat == ASSUME NEW c \in Call PROVE c.limit \in Nat
<1>1. Pages \cup {0} \subseteq Nat
  BY PagesAssumption
<1>2. c.limit \in Pages \cup {0}
  BY DEF Call
<1> QED BY <1>1, <1>2

\* A listing finds rows of the caller's tenant; with room to spare, all.
LEMMA ListStep ==
  ASSUME Inv, NEW c \in inflight, List(c)
  PROVE  Inv'
<1>1. PICK S \in ListRecent(c.tenant_id, c.limit) : Finish(c, 200, S)
  BY DEF List
<1>2. UNCHANGED <<rows, owner, acked>>
  BY DEF List
<1> DEFINE M == Matching(c.tenant_id)
<1>3. /\ c \in Call /\ answer'.code = 200 /\ answer'.caller = c.tenant_id
      /\ answer'.found = S /\ answer'.limit = c.limit
  BY <1>1, FinishKeeps
<1>4. c.limit \in Nat
  BY <1>3, LimitIsNat
<1>5. S \subseteq M /\ Cardinality(S) = IF Cardinality(M) < c.limit THEN Cardinality(M) ELSE c.limit
  BY DEF ListRecent
<1>6. M \subseteq Jobs /\ \A j \in Jobs : j \in M <=> owner[j] = c.tenant_id
  BY DEF Matching, Inv, OwnersOK
<1> HIDE DEF M
<1>7. IsFiniteSet(M) /\ IsFiniteSet(S) /\ (Cardinality(S) = Cardinality(M) => S = M)
  BY <1>5, <1>6, JobsAssumption, FS_Subset
<1>8. Cardinality(S) < c.limit => S = M
  BY <1>4, <1>5, <1>7
<1>9. TenantsSeeTheirOwn'
  BY <1>2, <1>3, <1>5, <1>6 DEF TenantsSeeTheirOwn
<1>10. AckedJobsAreFound'
  <2>1. acked \subseteq Jobs
    BY DEF Inv, TypeOK
  <2> QED BY <1>2, <1>3, <1>6, <1>8, <2>1 DEF AckedJobsAreFound
<1> QED BY <1>1, <1>2, <1>9, <1>10, ReadKeeps DEF Inv

\* A read by id answers 404 for the jobs of others only.
LEMMA GetStep ==
  ASSUME Inv, NEW c \in inflight, Get(c)
  PROVE  Inv'
<1> DEFINE found == GetForTenant(c.job_id, c.tenant_id)
<1> DEFINE code == IF found = {} THEN 404 ELSE 200
<1>1. Finish(c, code, found) /\ UNCHANGED <<rows, owner, acked>> /\ c.route \in Reads
  BY DEF Get, Reads
<1>2. code \in {200, 202, 404, 500} /\ (code = 404 <=> found = {})
  OBVIOUS
<1>3. found \subseteq {c.job_id} /\ (c.job_id \in found <=> rows[c.job_id].tenant_id = c.tenant_id)
  BY DEF GetForTenant
<1> HIDE DEF found, code
<1>4. /\ c \in Call /\ CallOK(c) /\ answer'.code = code /\ answer'.caller = c.tenant_id
      /\ answer'.job_id = c.job_id /\ answer'.limit = c.limit /\ answer'.found = found
  BY <1>1, <1>2, FinishKeeps
<1>5. c.job_id \in Jobs /\ c.limit = 0
  BY <1>1, <1>4 DEF CallOK
<1>6. owner[c.job_id] = rows[c.job_id].tenant_id
  BY <1>5 DEF Inv, OwnersOK
<1>7. TenantsSeeTheirOwn'
  BY <1>1, <1>3, <1>4, <1>6 DEF TenantsSeeTheirOwn
<1>8. ~(Cardinality(found) < 0)
  <2>1. IsFiniteSet({c.job_id})
    BY FS_Singleton
  <2> QED BY <1>3, <2>1, FS_Subset, FS_CardinalityType
<1>9. AckedJobsAreFound'
  BY <1>1, <1>2, <1>3, <1>4, <1>5, <1>6, <1>8 DEF AckedJobsAreFound
<1> QED BY <1>1, <1>2, <1>7, <1>9, ReadKeeps DEF Inv

\* A call that raises answers 500, with or without the new row committed.
LEMMA DatabaseErrorStep ==
  ASSUME Inv, NEW c \in inflight, DatabaseError(c)
  PROVE  Inv'
<1>1. Finish(c, 500, {}) /\ UNCHANGED acked
  BY DEF DatabaseError
<1>2. c \in Call /\ CallOK(c) /\ answer'.code = 500 /\ answer'.found = {}
  BY <1>1, FinishKeeps
<1>3. RefusalsOK' /\ TenantsSeeTheirOwn' /\ AckedJobsAreFound'
  BY <1>2, SilentAnswer DEF Silent
<1>4. CASE c.route = "submit_evaluation" /\ InsertRow(c)
  <2>1. /\ rows' \in [Jobs -> RowType] /\ owner' \in [Jobs -> Tenants \cup {None}]
        /\ OwnersOK'
    BY <1>2, <1>4, InsertKeeps
  <2>2. acked' \subseteq Jobs
    BY <1>1 DEF Inv, TypeOK
  <2>3. TypeOK'
    BY <1>1, <1>2, <2>1, <2>2, FinishKeeps DEF TypeOK
  <2> QED BY <1>1, <1>3, <2>1, <2>3, FinishKeeps DEF Inv
<1>5. CASE UNCHANGED <<rows, owner>>
  BY <1>1, <1>3, <1>5, ReadKeeps DEF Inv
<1> QED BY <1>4, <1>5 DEF DatabaseError

\* Time passes, or the process is replaced.
LEMMA EnvironmentStep ==
  ASSUME Inv, Tick \/ Restart
  PROVE  Inv'
<1>1. answer' = NoAnswer /\ UNCHANGED <<settings, rows, arrived, owner, acked>>
  BY DEF Tick, Restart, historyVars
<1>2. LimiterProofs!Inv'
  BY LimiterStep DEF Inv, Tick, Restart
<1>3. Limiter!TypeOK' /\ log' \in [ClientKeys -> Seq(Nat)]
  BY <1>2, LimiterTypes
<1>4. AcceptedOK'
  <2>1. CASE Tick
    BY <2>1 DEF Inv, Tick, historyVars, Limiter!Tick, AcceptedOK
  <2>2. CASE Restart
    BY <2>2 DEF Restart, Limiter!Forget, AcceptedOK
  <2> QED BY <2>1, <2>2
<1>5. inflight' \subseteq Call /\ CallsOK'
  BY DEF Inv, TypeOK, Tick, Restart, CallsOK, CallOK
<1>6. restarts' \in 0..MaxRestarts
  BY ApiBoundsAssumption DEF Inv, TypeOK, Tick, Restart
<1>7. answer'.code = 0 /\ Silent
  BY <1>1, FixedAnswers DEF Silent
<1>8. TypeOK'
  BY <1>1, <1>3, <1>4, <1>5, <1>6, <1>7 DEF Inv, TypeOK, AcceptedOK
<1>9. OwnersOK'
  BY <1>1 DEF Inv, OwnersOK
<1> QED BY <1>2, <1>4, <1>5, <1>7, <1>8, <1>9, SilentAnswer DEF Inv

\* A new process with an empty table.
LEMMA InvInit == Init => Inv
<1> SUFFICES ASSUME Init PROVE Inv
  OBVIOUS
<1>1. LimiterProofs!Inv
  BY LimiterInit DEF Init
<1>2. Limiter!TypeOK /\ log \in [ClientKeys -> Seq(Nat)]
  BY <1>1, LimiterFacts
<1>3. AcceptedOK
  BY DEF Init, Limiter!Init, AcceptedOK
<1>4. rows \in [Jobs -> RowType] /\ owner \in [Jobs -> Tenants \cup {None}] /\ OwnersOK
  BY DEF Init, RowType, NoRow, OwnersOK
<1>5. answer.code = 0 /\ answer.found = {}
  BY FixedAnswers DEF Init
<1>6. TypeOK
  BY <1>2, <1>3, <1>4, <1>5, ApiBoundsAssumption DEF Init, TypeOK, AcceptedOK
<1>7. CallsOK /\ RefusalsOK /\ TenantsSeeTheirOwn /\ AckedJobsAreFound
  BY <1>5 DEF Init, CallsOK, RefusalsOK, TenantsSeeTheirOwn, AckedJobsAreFound
<1> QED BY <1>1, <1>3, <1>4, <1>6, <1>7 DEF Inv

\* Every step keeps the invariant.
LEMMA InvStep == Inv /\ [Next]_vars => Inv'
<1> SUFFICES ASSUME Inv, [Next]_vars PROVE Inv'
  OBVIOUS
<1>1. ASSUME NEW q \in Requests, Unauthorized(q) \/ TenantMissing(q) \/ RateLimited(q)
      PROVE  Inv'
  BY <1>1, RefusedStep
<1>2. ASSUME NEW q \in Requests, Accept(q)
      PROVE  Inv'
  BY <1>2, AcceptStep
<1>3. ASSUME NEW c \in inflight, Submit(c) \/ List(c) \/ Get(c) \/ DatabaseError(c)
      PROVE  Inv'
  BY <1>3, SubmitStep, ListStep, GetStep, DatabaseErrorStep
<1>4. CASE Tick \/ Restart
  BY <1>4, EnvironmentStep
<1>5. CASE UNCHANGED vars
  <2>1. LimiterProofs!Inv'
    BY <1>5, LimiterStep DEF Inv, vars, limiterVars
  <2>2. TypeOK'
    BY <1>5 DEF Inv, TypeOK, vars, limiterVars, historyVars, Limiter!TypeOK
  <2>3. CallsOK' /\ OwnersOK' /\ AcceptedOK'
    BY <1>5 DEF Inv, vars, limiterVars, historyVars, CallsOK, CallOK, OwnersOK, AcceptedOK
  <2>4. RefusalsOK'
    BY <1>5 DEF Inv, vars, limiterVars, RefusalsOK, Limiter!Exceeded, Limiter!Expired
  <2>5. TenantsSeeTheirOwn' /\ AckedJobsAreFound'
    BY <1>5 DEF Inv, vars, historyVars, TenantsSeeTheirOwn, AckedJobsAreFound
  <2> QED BY <2>1, <2>2, <2>3, <2>4, <2>5 DEF Inv
<1> QED BY <1>1, <1>2, <1>3, <1>4, <1>5 DEF Next

\* Every state the routes reach satisfies the inductive invariant.
THEOREM Invariance == Spec => []Inv
  BY InvInit, InvStep, PTL DEF Spec

\* The state of the routes and the limiter is well formed, and every answer
\* has one of the status codes of the routes.
THEOREM TypeCorrect == Spec => []TypeOK
<1>1. Inv => TypeOK
  BY DEF Inv
<1> QED BY <1>1, Invariance, PTL

\* For every set of tenants and requests, with auth enabled or not: the jobs
\* in an answer of the routes were submitted by the caller it is sent to.
THEOREM TenantIsolation == Spec => []TenantsSeeTheirOwn
<1>1. Inv => TenantsSeeTheirOwn
  BY DEF Inv
<1> QED BY <1>1, Invariance, PTL

\* A submission answered with 202 is found by every later read of its caller,
\* whatever restarts and database errors come in between.
THEOREM AckedJobsStay == Spec => []AckedJobsAreFound
<1>1. Inv => AckedJobsAreFound
  BY DEF Inv
<1> QED BY <1>1, Invariance, PTL

\* Behind a 429 stand as many recent requests with the caller's key as the route
\* admits; each is of the caller's own, unless others make the same key.
LEMMA RefusalsAreEarned ==
  ASSUME Inv, answer.code = 429
  PROVE  /\ Cardinality(Recent) >= RouteLimit[answer.key[1]]
         /\ SharesKey(answer.caller, answer.client_ip) \/ Own = Recent
<1> DEFINE k == answer.key
<1> DEFINE n == Len(log[k])
<1> DEFINE L == RouteLimit[k[1]]
<1>1. /\ k \in ClientKeys /\ Limiter!Exceeded(k) /\ AcceptedOK
      /\ answer.caller \in Tenants /\ answer.client_ip \in Addresses
      /\ k[2] = Joined(answer.caller, answer.client_ip)
  BY DEF Inv, RefusalsOK
<1>2. /\ log \in [ClientKeys -> Seq(Nat)]
      /\ L <= n /\ \A i \in 1..n : i > n - L => now - log[k][i] < Window
  BY <1>1, LimiterFacts DEF Inv
<1>3. L \in Nat
  BY <1>1, KeyParts, RouteLimitAssumption
<1>4. n \in Nat
  BY <1>1, <1>2
<1>5. /\ accepted[k] \in Seq(Admission) /\ Len(accepted[k]) = n
      /\ \A i \in 1..n : /\ accepted[k][i].at = log[k][i]
                         /\ Joined(accepted[k][i].caller, accepted[k][i].client_ip) = k[2]
  BY <1>1 DEF AcceptedOK
<1>6. Recent = {i \in 1..n : now - log[k][i] < Window}
  BY <1>5 DEF Recent
<1> HIDE DEF n, L
<1>7. (n - L + 1)..n \subseteq Recent
  BY <1>2, <1>3, <1>4, <1>6
<1>8. IsFiniteSet(1..n) /\ Recent \subseteq 1..n
  <2>1. 1 \in Int /\ n \in Int
    BY <1>4
  <2>2. IsFiniteSet(1..n)
    BY <2>1, FS_Interval
  <2> QED BY <1>6, <2>2
<1>9. IsFiniteSet(Recent) /\ Cardinality((n - L + 1)..n) <= Cardinality(Recent)
  BY <1>7, <1>8, FS_Subset
<1>10. Cardinality((n - L + 1)..n) = L
  BY <1>3, <1>4, FS_Interval
<1>11. Cardinality(Recent) \in Nat
  BY <1>9, FS_CardinalityType
<1>12. Cardinality(Recent) >= L
  BY <1>3, <1>9, <1>10, <1>11
<1>13. ASSUME ~SharesKey(answer.caller, answer.client_ip), NEW i \in Recent
       PROVE  i \in Own
  <2>1. i \in 1..n
    BY <1>8
  <2>2. accepted[k][i] \in Admission
    BY <1>5, <2>1
  <2>3. accepted[k][i].caller \in Tenants /\ accepted[k][i].client_ip \in Addresses
    BY <2>2 DEF Admission
  <2>4. Joined(accepted[k][i].caller, accepted[k][i].client_ip)
          = Joined(answer.caller, answer.client_ip)
    BY <1>1, <1>5, <2>1
  <2>5. <<accepted[k][i].caller, accepted[k][i].client_ip>> = <<answer.caller, answer.client_ip>>
    BY <1>13, <2>3, <2>4 DEF SharesKey
  <2> QED BY <2>5 DEF Own
<1>14. SharesKey(answer.caller, answer.client_ip) \/ Own = Recent
  BY <1>13 DEF Own
<1> QED BY <1>12, <1>14 DEF L

\* A 429 of a route is earned by requests of the same caller on the same route
\* from the same address, or, where tenants and addresses joined by colons read
\* alike, by those of the callers that share the counter.
THEOREM RefusalsAreOwn == Spec => []RefusedForOwnRequests
<1>1. Inv => RefusedForOwnRequests
  BY RefusalsAreEarned DEF RefusedForOwnRequests
<1> QED BY <1>1, Invariance, PTL

\* Tenant ids with the same number of colons, and so in particular without any,
\* never share a key, whatever the addresses.
LEMMA PlainTenantsShareNoKey ==
  ASSUME \A t, u \in Tenants : Len(t) = Len(u),
         NEW c \in Tenants, NEW b \in Addresses
  PROVE  ~SharesKey(c, b)
<1> SUFFICES ASSUME NEW t \in Tenants, NEW a \in Addresses, t \o a = c \o b
             PROVE  t = c /\ a = b
  BY DEF SharesKey, Joined
<1>1. /\ t \in Seq(STRING) /\ a \in Seq(STRING) /\ c \in Seq(STRING) /\ b \in Seq(STRING)
      /\ Len(t) = Len(c)
  BY NamesAssumption
<1>2. \A s1, s2 \in Seq(STRING) :
        /\ Len(s1 \o s2) = Len(s1) + Len(s2)
        /\ \A i \in 1..Len(s1) : (s1 \o s2)[i] = s1[i]
        /\ \A i \in 1..Len(s2) : (s1 \o s2)[Len(s1) + i] = s2[i]
  OBVIOUS
<1>3. Len(a) = Len(b) /\ Len(t) \in Nat /\ Len(a) \in Nat /\ Len(b) \in Nat
  <2>1. Len(t) \in Nat /\ Len(a) \in Nat /\ Len(b) \in Nat
    BY <1>1
  <2> QED BY <1>1, <1>2, <2>1
<1>4. \A i \in 1..Len(t) : t[i] = c[i]
  BY <1>1, <1>2
<1>5. ASSUME NEW i \in 1..Len(a)
      PROVE  a[i] = b[i]
  <2>1. (t \o a)[Len(t) + i] = a[i]
    BY <1>1, <1>2
  <2>2. (c \o b)[Len(c) + i] = b[i]
    BY <1>1, <1>2, <1>3
  <2> QED BY <1>1, <2>1, <2>2
<1> QED BY <1>1, <1>3, <1>4, <1>5, SeqEqual

\* With such tenant ids the exception is void: a 429 of a route is earned by requests
\* of the caller's own, on that route and from that address.
THEOREM PlainTenantsAreSeparate ==
  ASSUME \A t, u \in Tenants : Len(t) = Len(u)
  PROVE  Spec => [](answer.code = 429 => Cardinality(Own) >= RouteLimit[answer.key[1]])
<1>1. Inv => (answer.code = 429 => Cardinality(Own) >= RouteLimit[answer.key[1]])
  <2> SUFFICES ASSUME Inv, answer.code = 429
               PROVE  Cardinality(Own) >= RouteLimit[answer.key[1]]
    OBVIOUS
  <2>1. answer.caller \in Tenants /\ answer.client_ip \in Addresses
    BY DEF Inv, RefusalsOK
  <2>2. ~SharesKey(answer.caller, answer.client_ip)
    BY <2>1, PlainTenantsShareNoKey
  <2> QED BY <2>2, RefusalsAreEarned
<1> QED BY <1>1, Invariance, PTL
=============================================================================
