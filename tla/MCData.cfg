SPECIFICATION DataSpec
CONSTANTS
  Key = {k1, k2}
  Tenant = {t1, t2}
  Bucket = {b1, b2}
  LeaseId = {l1, l2}
  Size = {1, 2}
  TenantLimit = 2
  GlobalLimit = 3
  Cap <- MCCap
  MaxRefs = 2
  a = a
  b = b
  Name = {a, b}
  NoName = NoName
  FileSize = {0, 3}
  MaxBytes = 3
  MaxNodes = 5
  MaxDepth = 3
  Snapshots <- MCSnapshots
  MaxParams = 1
  MaxOsc = 1
  MaxSequence = 5
  Shape <- MCShape
  Count = {0, 1, 3}
  MaxScrollback = 2
  MaxCells = 4
  PayloadLength = {0, 1, 2, 3}
  MaxMessageBytes = 4
  MaxControlBytes = 2
  MaxFragments = 2
  AccountBytes = 7
  Piece <- MCPiece
  MaxPieces = 3
  Spacing <- MCSpacing
  EditKey = {"a", " ", "esc", "[", "3", "~", "tab", "left", "killWord", "enter"}
  MaxChunk = 2
  MaxTyped = 6
  MaxChars = 3
  MaxEscape = 4
  OldLines <- MCOldLines
  CommandNames <- MCCommandNames
  FileNames <- MCFileNames
  RecordLength = {0, 2, 3}
  MaxBody = 2
  MaxRecords = 3
SYMMETRY MCSymmetry
CHECK_DEADLOCK FALSE
INVARIANTS Reconciles UsageIsTrue ActsOnWholes ScreenFits ReceivesWholes PlanIsMeant LineIsAsTyped
