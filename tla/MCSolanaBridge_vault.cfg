\* The bond vault is owned by the System program, as its accounts are declared.
SPECIFICATION Spec
CONSTANTS
  p1 = p1
  p2 = p2
  s1 = s1
  s2 = s2
  owner = owner
  usdc = usdc
  wsol = wsol
  DefaultKey = DefaultKey
  NativeMint = wsol
  Payer = {p1}
  Id = {1}
  SolverKey = {s1}
  Owner = {owner}
  Mint = {usdc, wsol}
  VaultPays = FALSE
  Settings <- OneSetting
  Amounts = {20}
  ReleaseAmounts = {}
  MaxTime = 3
  MaxLiquidity = 0
INVARIANTS
  SettlementPossible
CHECK_DEADLOCK FALSE
