SPECIFICATION Spec
CONSTANTS
  Callers = {c1}
  Queries = {q1, q2}
  Installers = {i1}
  Versions = {v2}
  Bundled = v2
  Legacy = Legacy
  Done = Done
  NoText = NoText
  NoTask = NoTask
  NoFuture = NoFuture
  Pending = Pending
  Lost = Lost
  MaxLines = 1
INVARIANT UnloadedIsQuiet
