\* Two processes and two messages on one journal, with kills and power losses.
CONSTANTS
  Processes = {p1, p2}
  Messages = {m1, m2}
  Nobody = Nobody
  NoMessage = NoMessage
  MaxConfirms = 2
  MaxCrashes = 2
SPECIFICATION Spec
SYMMETRY Symmetry
CHECK_DEADLOCK FALSE
INVARIANTS
  TypeOK
  AtMostOneTurn
  SentIsRecorded
  AttemptsAreConfirmed
  ReportsStand
PROPERTIES
  ImplementsDeliverOnce
