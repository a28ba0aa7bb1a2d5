SPECIFICATION RelaySpec
CONSTANTS
  j1 = j1
  tok = tok
  other = other
  k1 = k1
  k2 = k2
  wallet = wallet
  relayer = relayer
  NoOne = NoOne
  Keys = {k1, k2}
  FirstKey = k1
  Jobs = {j1}
  Tokens = {tok, other}
  Submitters = {relayer, wallet}
  Msig = wallet
  Self = relayer
  Actions <- SmallActions
  Limits <- SmallLimits
  Events <- SmallEvents
  Setups <- SmallSetups
  Cooldown = 2
  StorageDeposit = 1
  FirstNear = 2
  FirstFunds = 4
  MaxNonce = 3
  MaxBlock = 4
  MaxFunds = 5
  MaxRetries = 2
  MaxProcessed = 1
  HourlyMax = 2
  MaxQueue = 2
INVARIANTS TypeOK ExecutedOnce WindowWithinLimit SlidingLimit AnnouncedExecuted FundAfterCreate
PROPERTIES KeyChangeJustified PassEnds
CHECK_DEADLOCK FALSE
