SPECIFICATION HistorySpec
CONSTANTS
  agent = agent
  worker = worker
  relayer = relayer
  owner = owner
  key = key
  NoOne = NoOne
  Jobs = {j1}
  Accounts = {agent, worker, relayer, owner}
  Workers = {worker}
  Pubkeys = {key}
  Depositors = {agent}
  Relayers = {relayer}
  FirstOwner = owner
  Deposits = {1}
  MaxNonce = 0
  MaxBalance = 1
  Verifiers = {v1}
  InitialVerifiers = {v1}
  InitialThreshold = 1
  Terms <- StandardTerms
  Payloads <- AllPayloads
  MaxTimeout = 1
  SafetyTimeout = 1
  MaxRetries = 1
  RetryWrap = 3
  Faults = {"overlap", "partial", "lostYield", "lostCallback"}
  AdminOps = {}
  MaxCreates = 2
  MaxYields = 2
  MaxBatches = 1
  MaxTime = 2
  MaxDeposits = 2
INVARIANTS NeverOverpaid OneSidePaid SettledInFull LiveYieldOwned
PROPERTIES KeepsPromise
CHECK_DEADLOCK FALSE
VIEW TokensOfUndisturbed
