SPECIFICATION Spec
CONSTANTS
  Headers <- SmallHeaders
  Bounds <- SmallBounds
  Strides <- SmallStrides
  MaxTrips = 8
INVARIANT ExactForKnown
PROPERTY KnownLoopsEnd
