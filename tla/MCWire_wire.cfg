SPECIFICATION FairSpec
CONSTANTS
  NETWORK_READ_BUFFER = 2
  MaxBytes = 6
  BYTE = 2
  ALIGNMENT = 2
  S3_PROTOCOL_MAGIC = 1
  NETWORK_WRITE_BUFFER = 4
  S3_PROTOCOL_MAGIC_LEN = 1
  HeaderBytes = 1
  SocketRoom = 2
  HeaderLengths = {0, 2}
  DataLengths = {1, 3}
  ReplySizes <- MCReplySizes
  MaxResponses = 2
INVARIANTS
  TypeOK
  UploadReceived
  MemoryPartReceived
  ResponseInOrder
  ClientFindsEnd
PROPERTIES
  PartsServed
  ResponsesFinish
CHECK_DEADLOCK FALSE
