CONSTANTS
  Identities = {spotA, spotB}
  NoIdentity = NoIdentity
  MaxGeneration = 4
  MaxStores = 5
  MaxDamages = 1
  MaxOverlap = 1
SPECIFICATION Spec
INVARIANT GenerationsDiffer
INVARIANT LoadRegular
PROPERTY RegisterSpec
