\* Three clicks, in either direction, while the wallet changes.
SPECIFICATION PageSpec
CONSTANTS
  a1 = a1
  a2 = a2
  w1 = w1
  w2 = w2
  NoAccount = NoAccount
  NoProvider = NoProvider
  Wallet <- MCWallet
  MaxClicks = 3
  MaxChanges = 1
INVARIANTS
  PageTypeOK
  PaidByTheClicker
  OneInFlight
PROPERTIES
  PageComesBack
CHECK_DEADLOCK FALSE
