---------------------------- MODULE ApiService ----------------------------
(***************************************************************************)
(* The evaluation routes of the API process (app/api/routes.py) with the   *)
(* token check (app/core/auth.py) and the rate limiter before them and the *)
(* repository behind them.                                                 *)
(*                                                                         *)
(* Up to its first database call a handler runs in one step: the token,    *)
(* the tenant and the limit are checked and the new job is stamped.  The   *)
(* database call is a second step, and other requests run in between.      *)
(* A token that expires between its check, which runs before the handler,  *)
(* and the handler would be accepted as well: no property tells the two    *)
(* apart.                                                                  *)
(***************************************************************************)
EXTENDS Integers, Sequences, FiniteSets

CONSTANTS
  Tenants,      \* tenant ids, each as the sequence of its parts between colons
  Addresses,    \* client addresses, as x-forwarded-for or the connection gives them,
                \* as sequences of parts too
  Jobs,         \* job ids that uuid4 may give
  None,         \* a header or a parameter that is absent
  BadToken,     \* a header or token that validate_demo_jwt refuses at any time
  Expiries,     \* the exp claims of the tokens in use
  Pages,        \* the values of the limit parameter of a listing
  Deployments,  \* the settings auth_enabled and rate_limit_enabled to consider
  Requests,     \* the requests that may arrive
  RouteLimit,   \* RouteLimit[route]: the settings rate_limit_*_per_minute
  Window,       \* window_seconds
  MaxTime,      \* bound: how far the clock runs
  MaxRequests,  \* bound: how many requests arrive
  MaxRestarts   \* bound: how often the process is restarted

Routes ==
  {"submit_evaluation", "list_evaluations", "get_evaluation_details", "get_evaluation"}

Tokens == [tenant_id : Tenants, exp : Expiries]

(***************************************************************************)
(* The limiter's key is route_name:tenant_part:client_ip.  No route has a  *)
(* colon in its name, but tenants and addresses may (IPv6): what follows   *)
(* the route is the parts of the tenant and then those of the address, and *)
(* does not tell where the one ends.                                       *)
(***************************************************************************)
Joined(tenant, address) == tenant \o address

JoinedKey(route, tenant, address) == <<route, Joined(tenant, address)>>

ClientKeys == {JoinedKey(r, t, a) : r \in Routes, t \in Tenants, a \in Addresses}

(***************************************************************************)
(* A request: its route, its headers, its peer and its parameters.         *)
(***************************************************************************)
Request ==
  [route         : Routes,
   authorization : Tokens \cup {None, BadToken},
   client_ip     : Addresses,
   tenant_id     : Tenants \cup {None},
   job_id        : Jobs \cup {None},
   limit         : Pages \cup {0}]

\* The parameters a route takes; 0 and None stand for those it does not.
WellFormed(q) ==
  /\ q.job_id # None <=> q.route \in {"get_evaluation", "get_evaluation_details"}
  /\ q.limit # 0 <=> q.route = "list_evaluations"

ASSUME NamesAssumption == Tenants \cup Addresses \subseteq Seq(STRING) \ {<<>>}
ASSUME NoneAssumption == None \notin Tenants \cup Jobs
ASSUME JobsAssumption == IsFiniteSet(Jobs)
ASSUME PagesAssumption == Pages \subseteq Nat \ {0}
ASSUME RouteLimitAssumption == RouteLimit \in [Routes -> Nat]
ASSUME WindowAssumption == Window \in Nat \ {0}
ASSUME ApiBoundsAssumption == MaxRequests \in Nat /\ MaxRestarts \in Nat /\ MaxTime \in Nat
ASSUME DeploymentsAssumption ==
  Deployments \subseteq [auth_enabled : BOOLEAN, rate_limit_enabled : BOOLEAN]
ASSUME RequestsAssumption ==
  \A q \in Requests : q \in Request /\ WellFormed(q)

VARIABLES
  settings,  \* auth_enabled and rate_limit_enabled of this deployment
  now,       \* the clock of the tokens, the limiter and created_at
  counters,  \* the limiter's counters
  log,       \* when the limiter admitted requests (history)
  rows,      \* the evaluation_jobs table, as far as the routes read it
  inflight,  \* the handlers that wait for the database
  answer,    \* the response sent by the last step, if it sent one
  arrived,   \* how many requests have arrived
  restarts,  \* how many restarts there have been
  owner,     \* owner[j]: the caller that submitted j (history)
  acked,     \* the jobs whose submission was answered with 202 (history)
  accepted   \* accepted[k]: whom this process let pass and when, of all those
             \* whose route, name and address make the key k (history)

Limiter ==
  INSTANCE RateLimiter
    WITH Keys <- ClientKeys, Limit <- [k \in ClientKeys |-> RouteLimit[k[1]]]

limiterVars == <<counters, log>>

historyVars == <<owner, acked, accepted>>

vars == <<settings, now, limiterVars, rows, inflight, answer, arrived, restarts, historyVars>>

NoRow == [tenant_id |-> None, created_at |-> 0]

RowType == [tenant_id : Tenants, created_at : Nat] \cup {NoRow}

\* What the handler keeps across its database call.
Call ==
  [id         : Nat,
   route      : Routes,
   caller     : Tenants,
   tenant_id  : Tenants,
   job_id     : Jobs \cup {None},
   limit      : Pages \cup {0},
   created_at : Nat]   \* of a new job; 0 otherwise

\* A request that the limiter admitted.
Admission == [caller : Tenants, client_ip : Addresses, at : Nat]

\* An answer: its status code, whom it is for, the address and the key of a 429,
\* and the job, the limit and the jobs found of a database call.
NoAnswer ==
  [code |-> 0, caller |-> None, client_ip |-> None, key |-> <<>>, job_id |-> None,
   limit |-> 0, found |-> {}]

Refusal(code) == [NoAnswer EXCEPT !.code = code]
-----------------------------------------------------------------------------
(***************************************************************************)
(* get_request_context and the key of the limiter.                         *)
(***************************************************************************)
ValidToken(token) == token \in Tokens /\ token.exp > now

Authorized(q) == settings.auth_enabled => ValidToken(q.authorization)

\* Mutant of TenantFromContextOrRequest: the parameter wins over the token.
TenantFromRequestFirst(q) ==
  IF q.tenant_id # None \/ ~settings.auth_enabled THEN q.tenant_id
  ELSE q.authorization.tenant_id

TenantFromContextOrRequest(q) ==
  IF settings.auth_enabled THEN q.authorization.tenant_id ELSE q.tenant_id

\* Mutant of ClientKey: all tenants behind one address share a counter.
ClientKeyOfAddress(q) == JoinedKey(q.route, CHOOSE t \in Tenants : TRUE, q.client_ip)

ClientKey(q) == JoinedKey(q.route, TenantFromContextOrRequest(q), q.client_ip)

\* Who sends the request: the token's tenant, or with auth disabled the tenant
\* that the client says it is.
Caller(q) == IF settings.auth_enabled THEN q.authorization.tenant_id ELSE q.tenant_id
-----------------------------------------------------------------------------
(***************************************************************************)
(* The repository calls of the routes.                                     *)
(***************************************************************************)
GetForTenant(job_id, tenant_id) == {j \in {job_id} : rows[j].tenant_id = tenant_id}

Matching(tenant_id) == {j \in Jobs : rows[j].tenant_id = tenant_id}

\* ORDER BY created_at DESC LIMIT limit; rows created at the same instant come
\* in any order, so that there may be several answers.
ListRecent(tenant_id, limit) ==
  LET M == Matching(tenant_id) IN
  {S \in SUBSET M :
     /\ Cardinality(S) = IF Cardinality(M) < limit THEN Cardinality(M) ELSE limit
     /\ \A j \in S, k \in M \ S : rows[j].created_at >= rows[k].created_at}
-----------------------------------------------------------------------------
TypeOK ==
  /\ settings \in Deployments
  /\ Limiter!TypeOK
  /\ rows \in [Jobs -> RowType]
  /\ inflight \subseteq Call
  /\ answer.code \in {0, 200, 202, 400, 401, 404, 429, 500}
  /\ arrived \in 0..MaxRequests
  /\ restarts \in 0..MaxRestarts
  /\ owner \in [Jobs -> Tenants \cup {None}]
  /\ acked \subseteq Jobs
  /\ accepted \in [ClientKeys -> Seq(Admission)]

Init ==
  /\ settings \in Deployments
  /\ Limiter!Init
  /\ rows = [j \in Jobs |-> NoRow]
  /\ inflight = {}
  /\ answer = NoAnswer
  /\ arrived = 0
  /\ restarts = 0
  /\ owner = [j \in Jobs |-> None]
  /\ acked = {}
  /\ accepted = [k \in ClientKeys |-> <<>>]

\* A request arrives; whatever becomes of it, these do not change yet.
Arrive ==
  /\ arrived < MaxRequests
  /\ arrived' = arrived + 1
  /\ UNCHANGED <<settings, now, rows, restarts, owner, acked>>

Unauthorized(q) ==
  /\ Arrive
  /\ ~Authorized(q)
  /\ answer' = Refusal(401)
  /\ UNCHANGED <<limiterVars, inflight, accepted>>

TenantMissing(q) ==
  /\ Arrive
  /\ Authorized(q)
  /\ TenantFromContextOrRequest(q) = None
  /\ answer' = Refusal(400)
  /\ UNCHANGED <<limiterVars, inflight, accepted>>

RateLimited(q) ==
  /\ Arrive
  /\ Authorized(q)
  /\ TenantFromContextOrRequest(q) # None
  /\ settings.rate_limit_enabled
  /\ Limiter!Refuse(ClientKey(q))
  /\ answer' = [Refusal(429) EXCEPT !.caller = Caller(q), !.client_ip = q.client_ip,
                                    !.key = JoinedKey(q.route, Caller(q), q.client_ip)]
  /\ UNCHANGED <<inflight, accepted>>

\* uuid4: an id that no row and no other handler has.
FreshJob(j) ==
  /\ rows[j] = NoRow
  /\ \A c \in inflight : c.route = "submit_evaluation" => c.job_id # j

Accept(q) ==
  /\ Arrive
  /\ Authorized(q)
  /\ TenantFromContextOrRequest(q) # None
  /\ IF settings.rate_limit_enabled
     THEN /\ Limiter!Admit(ClientKey(q))
          /\ accepted' = [accepted EXCEPT ![JoinedKey(q.route, Caller(q), q.client_ip)] =
               Append(@, [caller |-> Caller(q), client_ip |-> q.client_ip, at |-> now])]
     ELSE UNCHANGED <<limiterVars, accepted>>
  /\ \E j \in Jobs :
       /\ IF q.route = "submit_evaluation" THEN FreshJob(j) ELSE q.job_id \in {j, None}
       /\ inflight' = inflight \cup
            {[id |-> arrived, route |-> q.route, caller |-> Caller(q),
              tenant_id |-> TenantFromContextOrRequest(q),
              job_id |-> IF q.route = "list_evaluations" THEN None ELSE j,
              limit |-> q.limit,
              created_at |-> IF q.route = "submit_evaluation" THEN now ELSE 0]}
  /\ answer' = NoAnswer
-----------------------------------------------------------------------------
(***************************************************************************)
(* The database call and the answer.                                       *)
(***************************************************************************)
Finish(c, code, found) ==
  /\ c \in inflight
  /\ inflight' = inflight \ {c}
  /\ answer' = [NoAnswer EXCEPT !.code = code, !.caller = c.caller, !.job_id = c.job_id,
                                !.limit = c.limit, !.found = found]
  /\ UNCHANGED <<settings, now, limiterVars, arrived, restarts, accepted>>

\* Mutant of InsertRow: the row is written without its tenant.
InsertRowWithoutTenant(c) ==
  /\ rows' = [rows EXCEPT ![c.job_id] = [tenant_id |-> None, created_at |-> c.created_at]]
  /\ owner' = [owner EXCEPT ![c.job_id] = c.caller]

InsertRow(c) ==
  /\ rows' = [rows EXCEPT ![c.job_id] = [tenant_id |-> c.tenant_id,
                                         created_at |-> c.created_at]]
  /\ owner' = [owner EXCEPT ![c.job_id] = c.caller]

\* Mutant of Submit: the answer is sent before the row is committed.
SubmitUncommitted(c) ==
  /\ c.route = "submit_evaluation"
  /\ Finish(c, 202, {c.job_id})
  /\ acked' = acked \cup {c.job_id}
  /\ owner' = [owner EXCEPT ![c.job_id] = c.caller]
  /\ UNCHANGED rows

Submit(c) ==
  /\ c.route = "submit_evaluation"
  /\ Finish(c, 202, {c.job_id})
  /\ InsertRow(c)
  /\ acked' = acked \cup {c.job_id}

List(c) ==
  /\ c.route = "list_evaluations"
  /\ \E S \in ListRecent(c.tenant_id, c.limit) : Finish(c, 200, S)
  /\ UNCHANGED <<rows, owner, acked>>

Get(c) ==
  /\ c.route \in {"get_evaluation", "get_evaluation_details"}
  /\ LET found == GetForTenant(c.job_id, c.tenant_id) IN
       Finish(c, IF found = {} THEN 404 ELSE 200, found)
  /\ UNCHANGED <<rows, owner, acked>>

\* The call raises: without effect, or after the commit of the new row.
DatabaseError(c) ==
  /\ Finish(c, 500, {})
  /\ \/ c.route = "submit_evaluation" /\ InsertRow(c)
     \/ UNCHANGED <<rows, owner>>
  /\ UNCHANGED acked

Tick ==
  /\ Limiter!Tick
  /\ answer' = NoAnswer
  /\ UNCHANGED <<settings, rows, inflight, arrived, restarts, historyVars>>

\* The process is replaced: its counters and the requests in flight are gone.
Restart ==
  /\ restarts < MaxRestarts
  /\ restarts' = restarts + 1
  /\ Limiter!Forget
  /\ inflight' = {}
  /\ accepted' = [k \in ClientKeys |-> <<>>]
  /\ answer' = NoAnswer
  /\ UNCHANGED <<settings, rows, arrived, owner, acked>>

Next ==
  \/ \E q \in Requests :
       Unauthorized(q) \/ TenantMissing(q) \/ RateLimited(q) \/ Accept(q)
  \/ \E c \in inflight : Submit(c) \/ List(c) \/ Get(c) \/ DatabaseError(c)
  \/ Tick
  \/ Restart

Spec == Init /\ [][Next]_vars
-----------------------------------------------------------------------------
\* Tenants are isolated end to end: whatever tenant_id a request names, an
\* answer only holds jobs that its own caller submitted.
TenantsSeeTheirOwn == \A j \in answer.found : owner[j] = answer.caller

\* A submission answered with 202 is durable: from then on, across restarts,
\* its caller's reads never answer 404, and a listing with room to spare
\* holds it.
AckedJobsAreFound ==
  \A j \in acked :
    answer.caller = owner[j] =>
      /\ answer.code = 404 => answer.job_id # j
      /\ (answer.code = 200 /\ Cardinality(answer.found) < answer.limit)
           => j \in answer.found

\* Some other tenant or address makes the same key: acme at eu:X and acme:eu at X.
SharesKey(caller, address) ==
  \E t \in Tenants, a \in Addresses :
    Joined(t, a) = Joined(caller, address) /\ <<t, a>> # <<caller, address>>

\* The requests with the key of the last answer let pass in the last window_seconds.
Recent ==
  {i \in 1..Len(accepted[answer.key]) : now - accepted[answer.key][i].at < Window}

Own ==
  {i \in Recent : /\ accepted[answer.key][i].caller = answer.caller
                  /\ accepted[answer.key][i].client_ip = answer.client_ip}

\* Separate limits: a caller gets 429 on a route only for requests of its own,
\* on that route and from that address, accepted within the last window_seconds.
\* The exception is a caller whose tenant and address, joined by colons, read like
\* another's: the two share a counter, and may be refused for each other's.
RefusedForOwnRequests ==
  answer.code = 429 =>
    \/ Cardinality(Own) >= RouteLimit[answer.key[1]]
    \/ /\ SharesKey(answer.caller, answer.client_ip)
       /\ Cardinality(Recent) >= RouteLimit[answer.key[1]]
=============================================================================
