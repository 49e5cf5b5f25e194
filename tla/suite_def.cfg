SPECIFICATION Spec
CONSTANTS
  Programs <- MCPrograms
  Qemus <- MCQemus
INVARIANTS BootsGetTheirKernel FilterIsReference VersionsCompare VerdictIsOwn
