SPECIFICATION Spec
CONSTANTS
  Programs <- FullCompileTest
  Qemus <- MCQemus
INVARIANT BtfOffOnlyFor550
