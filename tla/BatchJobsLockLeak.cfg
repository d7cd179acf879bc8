SPECIFICATION Spec
CONSTANTS
  Server <- MCServer
  Cli <- MCCli
  Conn <- MCConn
  OwnerOf <- MCOwnerOf
  None = None
  MaxJobs = 2
  HistoryLimit = 1
  Fault = {"expire"}
INVARIANT LockAlwaysReturned
