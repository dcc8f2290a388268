SPECIFICATION FairSpec
CONSTANTS
  None = None
  Listeners = {l1, l2}
  Reloads = {r1}
  Names = {a, b}
  NameValues = {v}
  MaxChanges = 2
  MaxFailures = 1
  MaxProcs = 2
INVARIANTS RegistryExact  
PROPERTIES Settles
CHECK_DEADLOCK FALSE
