SPECIFICATION Spec
CONSTANTS
  MAX_PROC = 6
  PROC_QUANTUM = 2
  LAP_BLOCK_TRIGGER = 1
  KillTargets = {4}
  KillSigs = {9}
  SelfSigs = {}
  HandlerSigs = {}
  FaultSigs = {8}
  Nil = Nil
INVARIANTS
  TypeOK
  ReapedOnce
  OwnKernelStack
  WaiterHasChild
  ParentNotFreed
PROPERTIES
  ZombieIsFinal
  TickLeavesRunning
