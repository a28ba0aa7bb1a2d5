SPECIFICATION Spec
CONSTANTS
  agent = agent
  worker = worker
  relayer = relayer
  owner = owner
  key = key
  NoOne = NoOne
  Jobs = {j1}
  Accounts = {agent, worker, relayer, owner}
  Workers = {worker}
  Pubkeys = {key}
  Depositors = {agent}
  Relayers = {relayer}
  FirstOwner = owner
  Deposits = {1}
  MaxNonce = 1
  MaxBalance = 1
  Verifiers = {v1}
  InitialVerifiers = {v1}
  InitialThreshold = 1
  Terms <- StandardTerms
  Payloads <- AllPayloads
  MaxTimeout = 1
  SafetyTimeout = 1
  MaxRetries = 1
  RetryWrap = 3
  Faults = {}
  AdminOps = {}
  MaxCreates = 1
  MaxYields = 1
  MaxBatches = 2
  MaxTime = 1
  MaxDeposits = 1
PROPERTIES CleanupReleases
CHECK_DEADLOCK FALSE
VIEW WithoutStats
