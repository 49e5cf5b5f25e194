SPECIFICATION Spec
CONSTANTS
  Builds = {b1, b2}
  Options <- MCOptions
SYMMETRY BuildSymmetry
INVARIANTS
  OkIsTheKernelAskedFor
  ModulesNotAhead
  LatestIsOk
