SPECIFICATION RuntimeSpec
CONSTANTS
  agent = agent
  worker = worker
  relayer = relayer
  owner = owner
  key = key
  NoOne = NoOne
  Jobs = {j1}
  Accounts = {agent, owner}
  Workers = {}
  Pubkeys = {key}
  Depositors = {agent}
  Relayers = {owner}
  FirstOwner = owner
  Deposits = {0, 1}
  MaxNonce = 0
  MaxBalance = 1
  Verifiers = {v1, v2}
  InitialVerifiers = {v1}
  InitialThreshold = 1
  Terms <- StandardTerms
  Payloads <- TwoPayloads
  MaxTimeout = 1
  SafetyTimeout = 1
  MaxRetries = 1
  RetryWrap = 3
  Faults = {}
  AdminOps = {"pause", "deposit", "verifiers", "workers", "stake"}
  MaxCreates = 1
  MaxYields = 1
  MaxBatches = 1
  MaxTime = 1
  MaxDeposits = 1
PROPERTIES VerificationEnds
CHECK_DEADLOCK FALSE
