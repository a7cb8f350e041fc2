SPECIFICATION Spec
CONSTANTS
  p1 = p1
  p2 = p2
  p3 = p3
  Drivers = {p1, p2, p3}
  ActorOf <- TwoActors
  MaxCycles = 2
  MaxFaults = 1
  MaxEdits = 1
SYMMETRY SameActor
INVARIANT ItemIsBacked
PROPERTY OwnerDecides
PROPERTY ImplementsItem
CHECK_DEADLOCK FALSE
