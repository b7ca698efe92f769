\* One session sends an adapted write in its transaction.
SPECIFICATION Spec
CONSTANTS
  s1 = s1  s2 = s2
  Sessions = {s1}
  Nobody = nobody
  Relations = {r1}
  Schemas <- OneSchema
  Kinds = {table}
  Absent = absent
  Unknown = unknown
  Drivers = {"postgres"}
  Scripts <- FewScripts
  Adapted <- AdaptedAnywhere
  LoseAt = {}
  Populate = FALSE
  MaxGeneration = 6
INVARIANTS
  ReleasedWhenQuiet
CHECK_DEADLOCK FALSE
