SPECIFICATION LiveSpec
CONSTANTS
  Node = {n1}
  RetentionLimit = 2
  Result = {r1}
  NoResult = NoResult
  Principal = {p1}
  Key = {}
  NoKey = NoKey
  Body = {b1}
  NoBody = NoBody
  NoNode = NoNode
  NoPrincipal = NoPrincipal
  Eligible <- MCEligible
  SentLease = {}
  MaxInFlight = 0
  ReceiptCap = 1
  PruneTo = 0
INVARIANTS ReceiptsAgree AckedIsRecorded BusyIsReserved
PROPERTIES KeepsContract ResultIsDelivered Reconnects AssignmentsResolve
