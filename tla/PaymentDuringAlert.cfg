CONSTANTS
  Chunk <- Chunks
  NoChunk = "none"
  Tx <- TwoTx
  ShortId <- Prefix
  MaxQueue = 2
  PayQueue = 3
  LocalQueue = 1
  MaxAlerts = 2
  MaxIncoming = 2
  LinkQueue = 2
  Char <- Characters
  Form <- Forms
  Nibble <- Digit
  MaxTx = 3
  Payload = 2
  RelayQueue = 2
SPECIFICATION MCSpec
PROPERTIES
  NoPaymentDuringAlert
CHECK_DEADLOCK FALSE
