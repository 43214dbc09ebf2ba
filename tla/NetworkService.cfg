SPECIFICATION FairSpec
CONSTANTS
  MaxSelectTries = 1
  RebootTries = 2
  MaxConflicts = 2
  MaxTroubles = 4
INVARIANTS LinkLossRevokes AddressHasOwner
PROPERTIES BecomesReady LeaseReplacesFallback
