\* Two overlapping runs of one command or of setup, three in a row, and people.
SPECIFICATION Spec
CONSTANTS
  r1 = r1  r2 = r2
  Runs = {r1, r2}
  Scenarios <- TheScenarios
  LabelOrder <- TheLabels
  Titles <- TheTitles
  Manifest <- Options
  MaxEdits = 1
SYMMETRY Symmetry
INVARIANTS
  FinishedIsSynced
  SetupCompletes
PROPERTIES
  DuplicatesNeedOverlap
  OptionsKept
CHECK_DEADLOCK FALSE
