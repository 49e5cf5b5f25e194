SPECIFICATION Spec
CONSTANTS
  Programs <- MCPrograms
  Qemus <- MCQemus
INVARIANT DirNameMatchesOutputDir
