SPECIFICATION Spec
CONSTANTS
  Order <- SameOrder
  Kind <- SameKind
  Names <- SameNames
  Initial = {"old"}
  Large = {}
  Images = {"i"}
  MaxChanges = 1
  MaxFaults = 0
INVARIANT
  CollisionResolved
