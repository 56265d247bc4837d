\* Two payers choose the same id and so share a bond vault; two solvers race for both
\* requests while the owner changes the configuration and escrowed tokens are released.  A deposit
\* may go elsewhere than to the escrow account, a payout be made in the other mint.
SPECIFICATION Spec
CONSTANTS
  p1 = p1
  p2 = p2
  s1 = s1
  s2 = s2
  owner = owner
  usdc = usdc
  wsol = wsol
  DefaultKey = DefaultKey
  NativeMint = wsol
  Payer = {p1, p2}
  Id = {1}
  SolverKey = {s1, s2}
  Owner = {owner}
  Mint = {usdc, wsol}
  VaultPays = TRUE
  Settings <- ClaimSettings
  Amounts = {20}
  ReleaseAmounts = {0, 20}
  MaxTime = 2
  MaxLiquidity = 0
SYMMETRY PartySymmetry
INVARIANTS
  TypeOK
  RequestTableOK
  PayoutExact
  BondAccounted
  VaultConservation
  TokenConservation
  ClosedIsEmpty
PROPERTIES
  LiveClaimProtected
  ImplementsEscrow
CHECK_DEADLOCK FALSE
