SPECIFICATION Spec
CONSTANTS
  Migrators = {m1}
  Processes = {p1}
  AutoCreate = {}
  NoTable = NoTable
INVARIANTS
  ReadyMeansUsable
