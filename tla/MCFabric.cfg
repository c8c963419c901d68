SPECIFICATION FabricSpec
CONSTANTS
  Node = {n1, n2}
  RetentionLimit = 2
  Result = {r1}
  NoResult = NoResult
  Principal = {p1}
  Key = {k1}
  NoKey = NoKey
  Body = {b1}
  NoBody = NoBody
  NoNode = NoNode
  NoPrincipal = NoPrincipal
  Eligible <- MCEligible
  SentLease = {1, 2}
  MaxInFlight = 1
INVARIANTS OneSlotPerNode WriteAhead
PROPERTIES SettledIsFinal AssignedOnce
SYMMETRY Symmetry
