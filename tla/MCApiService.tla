--------------------------- MODULE MCApiService ---------------------------
(***************************************************************************)
(* Instance of ApiService for TLC: the requests of two tenants behind one  *)
(* address, and of one whose address makes the key of the other, to a      *)
(* deployment with both checks and to one with none.                       *)
(***************************************************************************)
EXTENDS ApiService, TLC

MCRouteLimit == [r \in Routes |-> 1]

MCDeployments == {[auth_enabled |-> on, rate_limit_enabled |-> on] : on \in BOOLEAN}

Acme == <<"acme">>
AcmeEu == <<"acme", "eu">>
MCTenants == {Acme, AcmeEu}

Plain == <<"X">>
Colon == <<"eu", "X">>
MCAddresses == {Plain, Colon}

Token == [tenant_id |-> Acme, exp |-> 9]

\* acme at eu:X has the key of acme:eu at X.  The two routes that read one job differ
\* in their key only, so that one of them is left to one caller.
MCRequests ==
  {q \in Request :
     /\ WellFormed(q)
     /\ q.client_ip = Colon => q.route = "submit_evaluation"
     /\ q.client_ip = Colon \/ q.route = "get_evaluation_details" =>
          q.authorization = Token /\ q.tenant_id = Acme}

Symmetry == Permutations(Jobs)
=============================================================================
