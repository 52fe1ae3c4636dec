CONSTANTS
  Options <- All
  MaxOptions = 3
  Sizes = {1, 3, 4}
  IntOf <- Ints
  TenthsOf <- Tenths
SPECIFICATION Spec
INVARIANTS
  TypeOK
  ParseIsExact
  AccessesInBounds
  SequentialFilters
  PixelsInPlace
CHECK_DEADLOCK FALSE
