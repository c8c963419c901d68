SPECIFICATION JournalSpec
CONSTANTS
  Event = {e1, e2}
  MaxLines = 4
INVARIANTS ReturnedIsRecoverable
CHECK_DEADLOCK FALSE
