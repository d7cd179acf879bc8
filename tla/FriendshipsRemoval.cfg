SPECIFICATION Spec
CONSTANTS
  MaxUserID = 2
  User = {1, 2}
  Request = {r1}
  None = None
  MaxOutgoing = 1
PROPERTIES FormedFromRequest
CHECK_DEADLOCK FALSE
