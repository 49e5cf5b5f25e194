SPECIFICATION FairSpec
CONSTANTS
  Args <- MCArgs
  Places <- MCPlaces
  Sessions <- MCSessions
  MaxNoise = 2
INVARIANTS
  ReleaseIsOfKernel
  DriveLettersAgree
  MissingInputNeverTested
  OneRootFileSystem
  SuccessIsClean
  VerdictHonoursTests
  PatternsOffOnlyInWindow
  PromptFollowsShell
PROPERTY
  SessionsEnd
