CONSTANTS
  Rx = {r1, r2}
  Owner = owner_thread
  Heart = heart_thread
  Senders = {mic}
  InitSends = 1
  MaxTx = 3
  Serialized = TRUE
  TransferErrors = TRUE
SPECIFICATION FairSpec
INVARIANT TypeOK
INVARIANT InflightAccounting
INVARIANT QuietAfterExit
INVARIANT FailedMeansGone
PROPERTY RemovalDetected
PROPERTY StopReturnsOnceGone
PROPERTY SessionSpec
