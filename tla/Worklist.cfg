SPECIFICATION Spec
SYMMETRY Symmetry
CONSTANTS
  Inv = {i}
  Breed = {a, b, c}
  None = None
  MaxDepth = 6
  MaxFanout = 2
INVARIANTS
  TypeOK
  NoPingPong
  ExpansionIsCapped
PROPERTY
  AttributionStands
