SPECIFICATION Spec
CONSTANTS
  Data = {1, 2, 3, 4, 16, 20}
  Files <- MCFiles
  FlashSize = 12
  PageSize = 4
  ByteBase = 2
  Paragraph = 4
  Upper = 8
  SyncAttempts = 3
  MaxFaults = 2
INVARIANTS TypeOK ImageIsFile
PROPERTIES KeepsPromise
