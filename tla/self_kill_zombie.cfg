SPECIFICATION Spec
CONSTANTS
  MAX_PROC = 5
  PROC_QUANTUM = 1
  LAP_BLOCK_TRIGGER = 3
  KillTargets = {3, 4}
  KillSigs = {9}
  SelfSigs = {9}
  HandlerSigs = {}
  FaultSigs = {}
  Nil = Nil
PROPERTIES
  ZombieIsFinal
