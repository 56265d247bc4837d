\* Two solvers race for two requests, in one token or two, while deliveries of the reverse
\* direction and withdrawals share the tokens; the configuration is fixed.
SPECIFICATION Spec
CONSTANTS
  user = user
  n1 = n1
  n2 = n2
  r1 = r1
  r2 = r2
  owner = owner
  vault = vault
  usdc = usdc
  weth = weth
  ZeroAddress = ZeroAddress
  User = {user}
  Node = {n1, n2}
  RelayerAccount = {r1}
  Collector = {owner, vault}
  Token = {usdc, weth}
  AcceptsEth = {n1, n2, owner, vault}
  DefaultConfig <- MCDefaultConfig
  FeePercentages = {}
  FeeLimits <- NoPairs
  ClaimWindows = {}
  MinBonds = {}
  SlashParams <- NoPairs
  NewRelayers = {}
  Revocable = {}
  Amounts = {0, 1, 20}
  BondValues = {1, 3}
  TransferAmounts = {0, 10}
  MinClaimWindow = 1
  MaxClaimWindow = 4
  MaxRequests = 2
  MaxTime = 3
  MaxListed = 2
  MaxLiquidity = 10
INVARIANTS
  TypeOK
  RequestTableOK
  TokenConservation
PROPERTIES
  ImplementsEscrow
CHECK_DEADLOCK FALSE
