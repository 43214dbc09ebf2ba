SPECIFICATION CredentialsSpec
CONSTANTS
  Blank = Blank
  Torn = Torn
  c1 = c1
  c1renewed = c1renewed
  c2 = c2
  badCertificate = badCertificate
  k1 = k1
  k2 = k2
  Certificates = {c1, c1renewed, c2, badCertificate}
  PrivateKeys = {k1, k2}
  Decodable = {c1, c1renewed, c2, k1, k2}
  KeyOf <- MCKeyOf
  Nothing = Nothing
  Values <- MCValues
  Default <- MCDefault
  Version = 1
  Migrate <- MCKeep
  MaxGeneration = 3
  WritesDefault = FALSE
  BootReadFaults = FALSE
  MaxIgnored = 1
INVARIANTS PairsMatch  ActivatedServesUpload
PROPERTIES ImplementsRegister
