SPECIFICATION KeeperSpec
CONSTANTS
  agent = agent
  worker = worker
  relayer = relayer
  owner = owner
  key = key
  NoOne = NoOne
  Jobs = {j1}
  Accounts = {agent, worker, owner}
  Workers = {worker}
  Pubkeys = {key}
  Depositors = {agent}
  Relayers = {owner}
  FirstOwner = owner
  Deposits = {1}
  MaxNonce = 0
  MaxBalance = 1
  Verifiers = {v1}
  InitialVerifiers = {v1}
  InitialThreshold = 1
  Terms <- StandardTerms
  Payloads <- AllPayloads
  MaxTimeout = 1
  SafetyTimeout = 1
  MaxRetries = 1
  RetryWrap = 3
  Faults = {"lostYield"}
  AdminOps = {"owner"}
  MaxCreates = 1
  MaxYields = 1
  MaxBatches = 1
  MaxTime = 3
  MaxDeposits = 1
PROPERTIES DepositEnds
CHECK_DEADLOCK FALSE
