CONSTANTS
  None = None
  u1 = u1  u2 = u2  c1 = c1  owner = owner
  auth = auth  mutationClient = mutationClient  mutation = mutation
  principal = principal  client = client
  WebKeys = {auth, mutationClient, mutation}
  EvaluationKeys = {principal, client}
  Limit <- Limits
  WebRequests <- WebRequestKeys
  UploadRequests <- UploadRequestKeys
  EvaluationRequests <- EvaluationRequestKeys
  MaxKeys = 2
  Window = 2
  Uploads = {u1, u2}
  Credentials = {c1}
  UserOf <- OneUser
  MaxGlobal = 2
  MaxPerOwner = 1
  IdleTime = 1
  TotalTime = 2
  MaxBytes = 1
SPECIFICATION Spec
INVARIANTS WindowKept SlotsBalance
PROPERTY EverySlotReturns
