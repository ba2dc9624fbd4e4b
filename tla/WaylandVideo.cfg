SPECIFICATION FairSpec
CONSTANTS
  KBufs = 4
  KRetain = 2
  MaxFrames = 4
  None = None
  Surfaces = {s1, s2, s3, s4}
  Paths = {"dmabuf", "shm"}
  ShmSlots = {1, 2, 3}
  MaxAge = 1
INVARIANTS
  TypeOK
  HeldSurfacesAreWhole
PROPERTY
  KeepsSource
