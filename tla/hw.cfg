SPECIFICATION FairSpec
CONSTANTS
  Scripts <- MCScripts
  NumWaits = 3
  NetworkTries = 2
  MaxText = 3
  MaxCrashes = 1
INVARIANTS
  SuccessAccounted
  KexecNotOnHost
PROPERTY
  BootEnds
