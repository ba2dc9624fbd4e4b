SPECIFICATION FairSpec
CONSTANTS
  Rates = {1, 3}
  OutRate = 2
  Block = 3
  Cap = 2
  Full = 9
  MaxFrames = 4
  MaxDucks = 2
INVARIANTS
  TypeOK
  RingHoldsTheUnread
PROPERTIES
  NoOvershoot
  PlaysInOrder
  EveryFrameMixed
