CONSTANTS
  r1 = r1
  r2 = r2
  Readers <- MCReaders
  Offered <- MCOffered
  None = None
  Tokens = {j1, j2}
  Reports = 2
  Heard = 1
SPECIFICATION FairSpec
INVARIANTS CancelKeptToItsJob
PROPERTIES ReportsDelivered OldOperationsGone SleepLetGo DropReturns
