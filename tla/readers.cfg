SPECIFICATION ReadersSpec
CONSTANTS
  MaxHits = 2
  MaxLines = 3
  MaxAddr = 3
  MaxRows = 4
INVARIANTS
  WrittenIsReference
  FindAddrIsReference
  RangesAgree
  VariantAccounted
