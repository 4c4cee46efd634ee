SPECIFICATION Spec
CONSTANTS
  Values <- MCValues
  Size = 1
  IncSize = 2
  Wrap = 2
INVARIANTS
  TypeOK
  Ascending
  Contents
  Fits
PROPERTIES
  IterExact
  SearchShrinks
