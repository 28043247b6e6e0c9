SPECIFICATION Spec
CONSTANTS
  Migrators = {m1, m2}
  Processes = {p1, p2, p3}
  AutoCreate = {p1, p2}
  NoTable = NoTable
INVARIANTS
  VersionDescribesSchema
PROPERTIES
  FailsOnlyWhenOvertaken
SYMMETRY MigratorSymmetry
