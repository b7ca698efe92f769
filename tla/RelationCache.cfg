\* Two sessions, two relations in one schema, either driver; parameters put into the text,
\* which brackets a script twice, outside transactions only.
SPECIFICATION Spec
CONSTANTS
  s1 = s1  s2 = s2
  Sessions = {s1, s2}
  Nobody = nobody
  Relations = {r1, r2}
  Schemas <- OneSchema
  Kinds = {table}
  Absent = absent
  Unknown = unknown
  Drivers = {"duckdb", "postgres"}
  Scripts <- AllScripts
  Adapted <- AdaptedOutside
  LoseAt = {0, 1}
  Populate = TRUE
  MaxGeneration = 3
SYMMETRY Symmetry
INVARIANTS
  Truthful
  UsersSeeTheCatalog
  ReleasedWhenQuiet
CHECK_DEADLOCK FALSE
