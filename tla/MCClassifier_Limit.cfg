SPECIFICATION Spec
CONSTANTS
  Ids = {a, b}
  Tasks = {t1, t2}
  NoRecord = NoRecord
  NoTask = NoTask
  MinTransmissions = 2
  MaxPerDay = 1
  MaxAttempts = 2
  MaxPending = 2
  MaxKnown = 1
  MaxRequests = 2
PROPERTIES DailyLimit
