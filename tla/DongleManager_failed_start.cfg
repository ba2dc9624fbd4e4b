CONSTANTS
  Senders = {touch}
  BackoffMin = 1
  BackoffMax = 3
  ResetAfter = 2
  MaxPlugs = 1
SPECIFICATION FairSpec
PROPERTY BrokenSessionReplaced
