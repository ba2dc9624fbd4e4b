CONSTANTS
  Senders = {touch}
  BackoffMin = 1
  BackoffMax = 20
  ResetAfter = 3
  MaxPlugs = 3
SPECIFICATION FlapSpec
PROPERTY FlapsBackOff
