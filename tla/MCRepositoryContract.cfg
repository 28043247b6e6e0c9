SPECIFICATION Spec
CONSTANTS
  j1 = j1
  j2 = j2
  j3 = j3
  t1 = t1
  t2 = t2
  p1 = p1
  p2 = p2
  Jobs = {j1, j2, j3}
  Client = Client
  Processes = {Client}
  MaxAttempts = 2
  Results = {1}
  Limits = {1, 2}
  MaxSince = 1
  AnyProject = AnyProject
  CreatedAt <- MCCreatedAt
  TenantOf <- MCTenantOf
  ProjectOf <- MCProjectOf
INVARIANTS
  AnswersAgree
  BackendsAgree
  ReadsAgree
