\* Two nodes handle one request; nodes and relayer restart, POSTs and answers get lost.
SPECIFICATION SystemSpec
CONSTANTS
  user = user
  n1 = n1
  n2 = n2
  q1 = q1
  r1 = r1
  owner = owner
  usdc = usdc
  ZeroAddress = ZeroAddress
  User = {user}
  Node = {n1, n2}
  RelayerAccount = {r1}
  Collector = {owner}
  Token = {usdc}
  AcceptsEth = {n1, n2, owner}
  DefaultConfig <- MCDefaultConfig
  FeePercentages = {}
  FeeLimits <- NoPairs
  ClaimWindows = {}
  MinBonds = {}
  SlashParams <- NoPairs
  NewRelayers = {}
  Revocable = {}
  Amounts = {20}
  BondValues = {2}
  TransferAmounts = {}
  MinClaimWindow = 1
  MaxClaimWindow = 1
  MaxRequests = 1
  MaxTime = 2
  MaxListed = 2
  MaxLiquidity = 0
  TestDestination = FALSE
  Poster = {q1}
  MaxTries = 2
  MaxClients = 2
  MaxCrashes = 1
INVARIANTS
  SystemTypeOK
  ReportedIsPaid
  PaidIsBacked
  OnlyClaimersTransfer

  
CHECK_DEADLOCK FALSE
