SPECIFICATION FairSpec
CONSTANTS
  a = a  b = b  ann = ann  bo = bo  nobody = nobody  right = right  wrong = wrong
  Zero = Zero  NoName = NoName  NoText = NoText
  Others <- MCOthers  OtherHash <- MCOtherHash  OtherLength <- MCOtherLength
  Clients = {c1, c2}
  Bytes = {x}
  Names <- MCNames
  Reals <- MCReals
  RealOf <- MCRealOf
  Ancestors <- FlatAncestors
  Folders <- MCFolders
  Listed <- MCListed
  Users <- MCUsers
  Secrets <- MCSecrets
  Accounts <- MCAccounts
  Requests <- OtherRequests
  NETWORK_READ_BUFFER = 1
  FILE_BUFFER_LENGTH = 2
  INT_RANGE = 4
  DIRLIST_ROWS = 1
  DIR_SIZE = 1
  DbAnswers = {TRUE}
  PeersVanish = TRUE
  MaxLength = 2
  MaxPackets = 2
  MaxKills = 0
PROPERTIES
  PacketsAnswered
CHECK_DEADLOCK FALSE
