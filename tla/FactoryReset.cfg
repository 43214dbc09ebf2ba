SPECIFICATION FairSpec
CONSTANTS
  Blank = Blank
  Torn = Torn
  Marker = Marker
  N = 3
  Faults = {"transfer", "poll", "read", "probe"}
  MaxTroubles = 3
  MaxResets = 2
INVARIANTS ResetInvariant NoSettingsSurvive ResumesOnlyConfirmed
  NothingErasedUnmarked
PROPERTIES ResetCompletes
