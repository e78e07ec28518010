SPECIFICATION Spec
CONSTANTS
  x = x
  a = a
  cell = cell
  j = j
  k = k
  Scalars <- OneScalar
  Arrays <- TwoArrays
  Views <- NoNames
  Sections <- NoNames
  Symbols <- TwoSymbols
  Outside <- NoNames
  SourceOf <- NoSource
  Statements <- BodyCode
  MaxLength = 3
  Iterations = 2
INVARIANT SequentialStableBody
