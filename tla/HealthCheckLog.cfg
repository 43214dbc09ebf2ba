SPECIFICATION Spec
CONSTANTS
  Blank = Blank
  Torn = Torn
  Slots = 3
  Capacity = 4
  Faults = {"torn", "hole", "read", "erase", "ignored", "scan"}
  MaxTroubles = 3
  MaxAppends = 10
INVARIANTS NewestFirst RetainsRecent
PROPERTIES SequencesIncrease
