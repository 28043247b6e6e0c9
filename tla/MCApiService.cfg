SPECIFICATION Spec
CONSTANTS
  Tenants <- MCTenants
  Addresses <- MCAddresses
  Jobs = {j1, j2}
  None = None
  BadToken = BadToken
  Expiries = {1, 9}
  Pages = {1, 2}
  Deployments <- MCDeployments
  Requests <- MCRequests
  RouteLimit <- MCRouteLimit
  Window = 2
  MaxTime = 2
  MaxRequests = 3
  MaxRestarts = 1
INVARIANTS
  TypeOK
  TenantsSeeTheirOwn
  AckedJobsAreFound
  RefusedForOwnRequests
SYMMETRY Symmetry
CHECK_DEADLOCK FALSE
