SPECIFICATION Spec
CONSTANTS
  Items = {a, b}
  Fill = Fill
  InitSize = 2
  MaxItems = 5
INVARIANTS
  RingInv
PROPERTY
  ImplementsFifo
