\* Two sectors, two buffers, three calls; a wait of two turns, counted to -3.
CONSTANTS
  Lbas = {1, 2}
  Buffers = {1, 2}
  Spins = 2
  BelowZero = 3
  MaxCalls = 3
SPECIFICATION Spec
INVARIANTS TypeOK NothingLeftBehind
PROPERTIES SuccessMeansMoved CallsReturn
CHECK_DEADLOCK FALSE
