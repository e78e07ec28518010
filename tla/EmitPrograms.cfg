SPECIFICATION Spec
CONSTANTS
  x = x
  y = y
  k = k
  a = a
  b = b
  sec = sec
  view = view
  file = file
  Scalars <- TwoScalars
  Arrays <- TwoArrays
  Views <- OneView
  Sections <- OneSection
  Symbols <- OneSymbol
  Outside <- OneFile
  SourceOf <- Sources
  Codes <- Programs
  MaxLength = 3
INVARIANTS
  SequentialSemantics
  NeverStuck
