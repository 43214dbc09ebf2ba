SPECIFICATION FairSpec
CONSTANTS
  Resources = {0, 1}
  QueueLength = 2
  MaxRecords = 4
INVARIANTS QueuedWerePersisted EveryEventAccounted NewestKept AtMostOneLate
PROPERTIES  CycleCompletes
