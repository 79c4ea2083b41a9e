CONSTANTS
  Pilots = {p1, p2, p3}
  Basenames = {b1, b2}
  NoPilot = NoPilot
SPECIFICATION Spec
SYMMETRY Symmetry
CHECK_DEADLOCK FALSE
INVARIANTS
  PilotTypeOK
  OneDelivery
  ReportsAreTrue
  LocatorNamesRoute
PROPERTIES
  UsesDeliverOnce
