\* A delivery in the other direction spends an escrow.
SPECIFICATION Spec
CONSTANTS
  user = user
  n1 = n1
  n2 = n2
  r1 = r1
  r2 = r2
  owner = owner
  vault = vault
  usdc = usdc
  weth = weth
  ZeroAddress = ZeroAddress
  User = {user}
  Node = {n1}
  RelayerAccount = {r1}
  Collector = {owner, vault}
  Token = {usdc}
  AcceptsEth = {n1, owner, vault}
  DefaultConfig <- MCDefaultConfig
  FeePercentages = {}
  FeeLimits <- NoPairs
  ClaimWindows = {}
  MinBonds = {}
  SlashParams <- NoPairs
  NewRelayers = {}
  Revocable = {}
  Amounts = {20}
  BondValues = {2}
  TransferAmounts = {4}
  MinClaimWindow = 1
  MaxClaimWindow = 4
  MaxRequests = 1
  MaxTime = 3
  MaxListed = 2
  MaxLiquidity = 4
INVARIANTS
  EscrowHeld
CHECK_DEADLOCK FALSE
