SPECIFICATION FairSpec
CONSTANTS
  Legs = 2
  MaxFlags = 1
  MaxSample = 1
  MaxCopies = 2
  Deployments <- MCDeployments
INVARIANTS
  TypeOK
  FramesWhole
  ContextCarried
PROPERTIES
  NeverBackwards
  Converges
  AskedLeaves
