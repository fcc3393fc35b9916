SPECIFICATION Spec
CONSTANTS
  j1 = j1
  j2 = j2
  u1 = u1
  d1 = d1
  m1 = m1
  none = none
  Jobs <- MCJobs
  Urls <- MCUrls
  Statuses <- MCStatuses
  Domains <- MCDomains
  Memories <- MCMemories
  NoMemory = none
  Stats <- MCStats
  MaxRows = 2
SYMMETRY MCSymmetry
INVARIANTS
  WellFormed
  CountersFollowTables
  AckedRecordsStay
  ExportIsWhole
