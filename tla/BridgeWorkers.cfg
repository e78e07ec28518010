SPECIFICATION Spec
CONSTANTS
  w1 = w1
  w2 = w2
  w3 = w3
  t1 = t1
  t2 = t2
  t3 = t3
  n1 = n1
  n2 = n2
  None = None
  Workers <- ThreeWorkers
  CommandLines <- Nobody
  Toolchains <- ThreeToolchains
  SoNames <- TwoNames
  SoNameOf <- MCSoNameOf
  Detections <- MCDetections
  Forbidden <- OnlyW2
  MaxEdits = 1
  MaxKills = 1
  MaxFailures = 1
INVARIANTS TypeOK QuietSerialized QuietWorkersSucceed FreshImport OneToolchain
PROPERTY EveryoneEnds
