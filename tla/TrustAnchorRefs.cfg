SPECIFICATION RefsSpec
CONSTANTS
  MaxAnchors = 2
  MaxResources = 2
  Free = Free
  NoImage = NoImage
INVARIANT SoundUntilAdoption
