SPECIFICATION WheelSpec
CONSTANTS
  TimerKeys = {k1}
  Items = {1, 2, 3}
  NumSlots = 3
  Delays = {0, 1, 2, 3, 4, 5, 6, 7}
  MoveDelays = {0, 1, 2, 3, 4, 5, 6, 7}
  Draining = FALSE
INVARIANT Punctual
CHECK_DEADLOCK FALSE
