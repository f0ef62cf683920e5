SPECIFICATION TickSpec
CONSTANTS
  MAX_PROC = 5
  PROC_QUANTUM = 1
  LAP_BLOCK_TRIGGER = 1
  KillTargets = {1}
  KillSigs = {9}
  SelfSigs = {10}
  HandlerSigs = {}
  FaultSigs = {8}
  Nil = Nil
INVARIANTS
  RunningIsCurrent
PROPERTIES
  NoStarvation
  ParkedDies
CHECK_DEADLOCK FALSE
