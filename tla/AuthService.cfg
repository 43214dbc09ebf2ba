SPECIFICATION AuthSpec
CONSTANTS
  Accounts = {alice, bob}
  Master = master
  MaxUsers = 1
  AccessLifetime = 1
  RefreshLifetime = 2
  Wrap = 5
  MaxClock = 7
  MaxTokens = 3
  NoUser = NoUser
  NoSession = NoSession
  NoTable = NoTable
SYMMETRY AccountSymmetry
INVARIANTS SessionsMatchAccounts RoomForEveryAccount HonoursExactlyCurrent RetiredStayRetired
