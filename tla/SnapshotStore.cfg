SPECIFICATION Spec
CONSTANTS
  Blank = Blank
  Torn = Torn
  Values = {v0, v1, v2}
  Default = v0
  Version = 2
  Migrate <- MCMigrate
  MaxGeneration = 4
  WritesDefault = TRUE
  BootReadFaults = FALSE
  MaxIgnored = 1
INVARIANTS ServedIsStored StoreInvariant
PROPERTIES NeverRollsBack ImplementsRegister
