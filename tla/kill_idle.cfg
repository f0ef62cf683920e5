SPECIFICATION Spec
CONSTANTS
  MAX_PROC = 5
  PROC_QUANTUM = 1
  LAP_BLOCK_TRIGGER = 3
  KillTargets = {0}
  KillSigs = {9}
  SelfSigs = {}
  HandlerSigs = {}
  FaultSigs = {}
  Nil = Nil
PROPERTIES
  TickLeavesRunning
