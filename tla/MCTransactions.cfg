CONSTANTS
  Ids = {t1, t2}
  Backups = {b1, b2}
  MaxEntries = 3
  NoTransaction = NoTransaction
  Devices <- MCDevices
  Platforms <- MCPlatforms
  Daws <- MCDaws
  Declarations <- MCDeclarations
  Findings <- MCFindings
  NotPlanned = NotPlanned
  MaxEvidence = 2
SPECIFICATION MCSpec
SYMMETRY IdSymmetry
INVARIANTS CommittedInOrder OneOutcome OneAwaitsPerId PlansStayValid OnlyQualifiedRoutesGoLive
