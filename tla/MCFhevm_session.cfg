\* The wallet changes twice while sessions are created for it.
SPECIFICATION FhevmSpec
CONSTANTS
  p1 = p1
  p2 = p2
  sepolia = sepolia
  hardhat = hardhat
  NoProvider = NoProvider
  NoChain = NoChain
  Wallet <- MCWallet
  Chain = {sepolia, hardhat}
  MockChain = {hardhat}
  Faults = TRUE
  MaxCreations = 4
  MaxChanges = 2
INVARIANTS
  FhevmTypeOK
  LiveCreationsAreCurrent
  SessionFitsWallet
PROPERTIES
  SessionSettles
CHECK_DEADLOCK FALSE
