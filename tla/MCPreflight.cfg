CONSTANTS
  r1 = r1
  r2 = r2
  song = song
  loop = loop
  old = old
  new = new
  Runs <- MCRuns
  Kind <- MCKind
  Contents <- MCContents
  None = None
  LastDocument = 2
  MaxEdits = 1
  MaxFaults = 1
SPECIFICATION PreflightSpec
SYMMETRY MCSymmetry
INVARIANTS BackupReportIsTrue
PROPERTIES BackupsSurvive QuietRunsAreConsistent
CHECK_DEADLOCK FALSE
