SPECIFICATION Spec
CONSTANTS
  Points <- MCPoints
  MaxRows <- MCMaxRows
INVARIANTS
  TypeOK
PROPERTIES
  QBDepthNeverHurts
  ThirdRowNeverCounts
  AdviceCanBeFollowed
