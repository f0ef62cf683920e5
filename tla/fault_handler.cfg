SPECIFICATION TickSpec
CONSTANTS
  MAX_PROC = 5
  PROC_QUANTUM = 1
  LAP_BLOCK_TRIGGER = 3
  KillTargets = {3}
  KillSigs = {}
  SelfSigs = {}
  HandlerSigs = {8}
  FaultSigs = {8}
  Nil = Nil
PROPERTIES
  ParkedDies
