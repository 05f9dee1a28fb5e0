SPECIFICATION Spec
CONSTANTS
  TABLE_SIZE = 100
  FirstFd = 6
  MaxClients = 2
  MaxAccepts = 4
  MaxAppends = 1
  BitAnd <- MCBitAnd
INVARIANTS
  EventsReachOwner
CHECK_DEADLOCK FALSE
