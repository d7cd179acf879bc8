SPECIFICATION FairSpec
CONSTANTS
  Server <- MCServer
  Cli <- MCCli
  Conn <- MCConn
  OwnerOf <- MCOwnerOf
  None = None
  MaxJobs = 3
  HistoryLimit = 2
  Fault = {}
PROPERTIES EverythingEnds
INVARIANT OnlyRunningRowIsMine
