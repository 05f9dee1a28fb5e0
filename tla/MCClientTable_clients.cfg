SPECIFICATION Spec
CONSTANTS
  TABLE_SIZE = 5
  FirstFd = 6
  MaxClients = 3
  MaxAccepts = 7
  MaxAppends = 1
  BitAnd <- MCBitAnd
INVARIANTS
  EventsAreTaken
  ServedUntilMet
CHECK_DEADLOCK FALSE
