SPECIFICATION FairSpec
CONSTANTS
  a = a  b = b  ann = ann  bo = bo  nobody = nobody  right = right  wrong = wrong
  Zero = Zero  NoName = NoName  NoText = NoText
  Others <- MCOthers  OtherHash <- MCOtherHash  OtherLength <- MCOtherLength
  Clients = {c1, c2}
  Bytes = {x}
  Names <- MCNames
  Reals <- MCReals
  RealOf <- MCRealOf
  Ancestors <- FlatAncestors
  Folders <- MCFolders
  Listed <- MCListed
  Users <- MCUsers
  Secrets <- MCSecrets
  Accounts <- MCAccounts
  Requests <- OtherRequests
  NETWORK_READ_BUFFER = 1
  FILE_BUFFER_LENGTH = 2
  INT_RANGE = 4
  DIRLIST_ROWS = 1
  DIR_SIZE = 1
  DbAnswers = {TRUE, FALSE}
  PeersVanish = FALSE
  MaxLength = 2
  MaxPackets = 3
  MaxKills = 1
INVARIANTS
  OneFinalAnswer
  PendingChangesAuthentic
PROPERTIES
  PacketsAnswered
