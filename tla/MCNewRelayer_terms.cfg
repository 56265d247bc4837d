\* The owner changes relayer, fees, window, bond, slashing and nodes while one
\* request is claimed and reclaimed.
SPECIFICATION Spec
CONSTANTS
  user = user
  n1 = n1
  n2 = n2
  r1 = r1
  r2 = r2
  owner = owner
  vault = vault
  usdc = usdc
  weth = weth
  ZeroAddress = ZeroAddress
  User = {user}
  Node = {n1, n2}
  RelayerAccount = {r1, r2}
  Collector = {owner, vault}
  Token = {usdc}
  AcceptsEth = {n1, n2, owner}
  DefaultConfig <- MCDefaultConfig
  FeePercentages = {0, 1001}
  FeeLimits <- MCFeeLimits
  ClaimWindows = {1, 5}
  MinBonds = {0}
  SlashParams <- MCSlashParams
  NewRelayers = {r2, ZeroAddress}
  Revocable = {n1}
  Amounts = {1, 20}
  BondValues = {0, 3}
  TransferAmounts = {}
  MinClaimWindow = 1
  MaxClaimWindow = 4
  MaxRequests = 1
  MaxTime = 3
  MaxListed = 3
  MaxLiquidity = 0
INVARIANTS
  PayoutExact
  BondAccounted
  EthConservation
  NoNodeMissing
PROPERTIES
  LiveClaimProtected
CHECK_DEADLOCK FALSE
