SPECIFICATION Spec
CONSTANTS
  MAX_PROC = 5
  PROC_QUANTUM = 1
  LAP_BLOCK_TRIGGER = 1
  KillTargets = {3}
  KillSigs = {9, 18, 20}
  SelfSigs = {}
  HandlerSigs = {20}
  FaultSigs = {}
  Nil = Nil
INVARIANTS
  StopContExclusive
PROPERTIES
  KillLostOnlyInStore
  StoppedUntilCont
