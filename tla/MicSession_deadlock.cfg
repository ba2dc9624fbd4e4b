CONSTANTS
  Senders = {mic_thread, touch}
  Mic = mic_thread
  BackoffMin = 1
  BackoffMax = 3
  ResetAfter = 2
  MaxPlugs = 1
SPECIFICATION MicSpec
INVARIANT NoCircularWait
