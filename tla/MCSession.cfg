CONSTANTS
  target = target
  other = other
  Order <- MCOrder
  Target = target
  MaxNotifications = 1
  MaxPages = 3
  MaxChanges = 2
  MaxRepeats = 1
  MaxUnread = 1
SPECIFICATION FairSpec
INVARIANTS
  SessionTypeOK
  ListingFaithful
  CompletedIsOurs
  EligibleBeforeTurn
PROPERTIES
  SessionEnds
