CONSTANTS
  Senders = {mic_thread, touch}
  Mic = mic_thread
  BackoffMin = 1
  BackoffMax = 3
  ResetAfter = 2
  MaxPlugs = 2
SPECIFICATION MicSpec
INVARIANT MicTypeOK
INVARIANT SendsReachLiveSession
INVARIANT NoSinkAfterStop
INVARIANT ConnectedMeansSession
INVARIANT MicThreadJoined
INVARIANT MicGoneAfterStop
PROPERTY PacedWhileFailing
PROPERTY OneSessionAtATime
PROPERTY ReconnectsOrWaits
PROPERTY StuckIsResetOrWaits
PROPERTY QuitCompletes
