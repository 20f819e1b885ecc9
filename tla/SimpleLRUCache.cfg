SPECIFICATION Spec
CONSTANTS
  Keys = {k1, k2, k3}
  Ids = {1, 2, 3, 4}
  Modes = {TRUE, FALSE}
  MaxIdle = 1
  Options = {TRUE}
  Sizes = {1, 2}
  MaxSizes = {2, 3}
  MaxPins = 2
  MaxTime = 3
INVARIANTS
  Representation
  HeldIsAlive
  OverfullOnlyByPinned
PROPERTY
  EvictsOldestFirst
SYMMETRY KeySymmetry
