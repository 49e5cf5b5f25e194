SPECIFICATION FairSpec
CONSTANTS
  MaxCores = 5
  MaxUnits = 12
  Threads = {4, 8}
  Rounds = 3
  MaxPick = 3
INVARIANTS
  ResourcesComeBack
  BlameIsDeserved
PROPERTY
  TestEnds
