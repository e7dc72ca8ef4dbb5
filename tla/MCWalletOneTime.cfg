\* One page behind the passcode; the user never waits, and reading the record may fail.
SPECIFICATION AppSpec
CONSTANTS
  Pages = {"page"}
  MaxKey = 3
  Amounts = {1}
  Cap = 1
  MaxAsks = 2
  MaxCrashes = 2
  Failures = {"save", "open"}
  Patience = "read"
  FreeMisses = 2
  FirstLock = 2
  MaxDoublings = 1
  MaxLock = 3
  MaxMisses = 4
INVARIANT OneMessagePerKey
PROPERTY CodesWait
CHECK_DEADLOCK FALSE
