SPECIFICATION Spec
CONSTANTS
  Blank = Blank
  Torn = Torn
  Values = {v0, v1}
  Default = v0
  BankSectors = 2
  MaxGeneration = 4
  OldGenerations = {1, 2}
  BootReadFaults = {"second"}
  MaxIgnored = 3
INVARIANT FaultlessSaveIsWhole
PROPERTY ImplementsRegister
