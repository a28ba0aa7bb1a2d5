SPECIFICATION HistorySpec
CONSTANTS
  agent = agent
  worker = worker
  relayer = relayer
  owner = owner
  key = key
  NoOne = NoOne
  Jobs = {j1, j2}
  Accounts = {agent, worker, relayer, owner}
  Workers = {}
  Pubkeys = {key}
  Depositors = {agent}
  Relayers = {relayer}
  FirstOwner = owner
  Deposits = {1}
  MaxNonce = 0
  MaxBalance = 1
  Verifiers = {v1}
  InitialVerifiers = {v1}
  InitialThreshold = 1
  Terms <- StandardTerms
  Payloads <- TwoPayloads
  MaxTimeout = 1
  SafetyTimeout = 1
  MaxRetries = 1
  RetryWrap = 3
  Faults = {"overlap", "partial", "lostYield"}
  AdminOps = {"token"}
  MaxCreates = 2
  MaxYields = 1
  MaxBatches = 1
  MaxTime = 1
  MaxDeposits = 1
INVARIANTS Solvent
CHECK_DEADLOCK FALSE
VIEW NetTokens
SYMMETRY JobSymmetry
