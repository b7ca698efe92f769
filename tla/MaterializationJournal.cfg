\* Two writers of two targets, three runs: every call may fail, every writer die.
SPECIFICATION Spec
CONSTANTS
  Writers = {w1, w2}
  Nobody = Nobody
  Targets = {t1, t2}
  Contents = {c1, c2, c3}
  Old = Old
  Absent = Absent
  Torn = Torn
SYMMETRY Symmetric
INVARIANTS
  NothingLost
  ViewAndFileAgree
  ClosedIsClean
  ReferencedIsKept
CHECK_DEADLOCK FALSE
