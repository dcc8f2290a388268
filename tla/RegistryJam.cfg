SPECIFICATION FairSpec
CONSTANTS
  None = None
  Listeners = {l1}
  Reloads = {r1}
  Names = {a}
  NameValues = {v}
  MaxChanges = 1
  MaxFailures = 0
  MaxProcs = 2
PROPERTIES Notified
CHECK_DEADLOCK FALSE
