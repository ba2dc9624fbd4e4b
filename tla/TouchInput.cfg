SPECIFICATION Spec
CONSTANTS
  Display <- MCDisplay
  Source <- MCSource
  Modes <- MCModes
  TouchPoints <- MCTouchPoints
  Fingers = {f1, f2}
  Nowhere = Nowhere
  Step = 8
  DragStep = 16
INVARIANTS
  TypeOK
  InputMatchesPicture
  NoStuckTouch
  CursorFollows
PROPERTIES
  QuitEnds
