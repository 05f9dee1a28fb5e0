SPECIFICATION Spec
CONSTANTS
  PATH_BUFFER = 4
  Plain = {"a", "bb"}
  Tilde <- MCTilde
  NameLength <- MCNameLength
  Folder <- MCFolder
  HomeLength = 3
  MaxComponents = 5
  NIBBLE = 2
  CHARACTERS = 3
  RUN_LIMIT = 3
  MaxAddress = 4
  MaxBehind = 3
INVARIANTS
  Normalised
  StoredUnderKey
  WritesInMemory
  KeysGiveAddress
CHECK_DEADLOCK FALSE
