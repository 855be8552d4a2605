SPECIFICATION Spec
CONSTANTS
  Ids = {a, b}
  Tasks = {t1, t2}
  NoRecord = NoRecord
  NoTask = NoTask
  MinTransmissions = 2
  MaxPerDay = 2
  MaxAttempts = 2
  MaxPending = 1
  MaxKnown = 1
  MaxRequests = 2
INVARIANTS TasksAreRegistered ClassifyingIsAsked
PROPERTIES AnswersMatch SentWhenDue UnloadSendsNothing TasksEnd
