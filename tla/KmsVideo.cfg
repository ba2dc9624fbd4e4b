SPECIFICATION FairSpec
CONSTANTS
  KBufs = 4
  KRetain = 2
  MaxFrames = 4
  None = None
  OtherBuffer = OtherBuffer
  KMaxQueue = 2
  KOutput = 1
  Surfaces = {s1, s2, s3, s4}
  Backends = {"software", "gpu", "vaapi", "v4l2"}
INVARIANTS
  TypeOK
  HeldFramesAreWhole
  SlotAlwaysFree
PROPERTIES
  KeepsSource
  NewestChunkFed
