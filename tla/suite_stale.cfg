SPECIFICATION Spec
CONSTANTS
  NumTargets = 2
  NumBuilds = 2
  Selftests = {2}
  NumBoots = 1
  KernelOf <- OneHost
  TestsOf <- OneHostTests
  WithFragments = {1}
  Widths <- OneWidth
INVARIANT
  FailedBuildLeavesNoOldArtifacts
