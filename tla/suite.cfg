SPECIFICATION FairSpec
CONSTANTS
  NumTargets = 3
  NumBuilds = 2
  Selftests = {2}
  NumBoots = 2
  KernelOf <- TwoHosts
  TestsOf <- TwoHostsTests
  WithFragments = {1}
  Widths <- SomeWidths
INVARIANTS
  OkMeansTested
  BootedKernelsAccounted
  BootsAfterBuilds
  AllTestsRun
PROPERTIES
  DirsStableDuringBoots
  RunEnds
