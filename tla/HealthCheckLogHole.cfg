SPECIFICATION Spec
CONSTANTS
  Blank = Blank
  Torn = Torn
  Slots = 3
  Capacity = 4
  Faults = {"hole"}
  MaxTroubles = 2
  MaxAppends = 9
PROPERTY MonotonicallyIncreasing
