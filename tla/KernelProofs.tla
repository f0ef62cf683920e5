---------------------------- MODULE KernelProofs ----------------------------
(***************************************************************************)
(* Proofs about Kernel, for every size of the pid space, quantum, lap      *)
(* trigger and every set of targets, signals and faults.                   *)
(***************************************************************************)
EXTENDS Kernel, WellFoundedInduction, TLAPS

-----------------------------------------------------------------------------
(* A nonempty set of pids has a highest one, so Highest picks a member.    *)
LEMMA HighestIsMember ==
  ASSUME NEW N \in Nat, NEW S \in SUBSET (0 .. N), S # {}
  PROVE  Highest(S) \in S
<1> DEFINE D == {n \in Nat : n \in 0 .. N /\ N - n \in S}
<1>1. D \in SUBSET Nat /\ D # {}
  <2>1. PICK s : s \in S
    OBVIOUS
  <2>2. N - s \in D
    BY <2>1
  <2> QED BY <2>2
<1>2. \E d \in D : \A k \in D : d <= k
  <2> DEFINE R == OpToRel(<, Nat)
  <2>1. IsWellFoundedOn(R, Nat)
    BY NatLessThanWellFounded, Zenon
  <2>2. \A x, y \in Nat : <<x, y>> \in R <=> x < y
    BY DEF OpToRel
  <2> HIDE DEF D, R
  <2>3. PICK d \in D : \A y \in D : ~ (<<y, d>> \in R)
    BY <1>1, <2>1, WFMin, Zenon
  <2>4. ASSUME NEW k \in D PROVE d <= k
    <3>1. d \in Nat /\ k \in Nat
      BY <1>1
    <3>2. ~ (k < d)
      BY <3>1, <2>2, <2>3, Zenon
    <3> QED BY <3>1, <3>2
  <2> QED BY <2>4
<1>3. PICK d \in D : \A k \in D : d <= k
  BY <1>2
<1>4. N - d \in S /\ \A x \in S : x <= N - d
  <2>1. N - d \in S
    OBVIOUS
  <2>2. ASSUME NEW x \in S PROVE x <= N - d
    <3>1. N - x \in D
      BY <2>2
    <3> QED BY <1>3, <3>1
  <2> QED BY <2>1, <2>2
<1> QED BY <1>4, Zenon DEF Highest

(* The same for a set of tasks.                                            *)
LEMMA HighestTask ==
  ASSUME NEW S \in SUBSET Task, S # {}
  PROVE  Highest(S) \in S
<1>1. MAX_PROC - 1 \in Nat /\ S \in SUBSET (0 .. MAX_PROC - 1)
  BY KernelAssumption DEF Task
<1> QED BY <1>1, HighestIsMember, Zenon

(* The pids fixed at boot are pids.                                        *)
LEMMA BootPids ==
  /\ IDLE \in Task /\ INIT_PID \in Task /\ KTHREADD \in Task
  /\ Nil \notin Task
  /\ LapCap \in Nat /\ LapCap > 0
BY KernelAssumption DEF Task, IDLE, INIT_PID, KTHREADD, LapCap

-----------------------------------------------------------------------------
(***************************************************************************)
(* What the signal operators return.                                       *)
(***************************************************************************)
(* kernel_signal_send returns a state, and makes none RUNNING or alive.    *)
LEMMA SendStateType ==
  ASSUME NEW st \in TaskState, NEW sig
  PROVE  /\ SendState(st, sig) \in TaskState
         /\ SendState(st, sig) = "RUNNING" => st = "RUNNING"
         /\ st \in {"ZOMBIE", "FREE"} => SendState(st, sig) = st
BY DEF SendState, TaskState

(* kernel_signal_send returns a mask of signals.                           *)
LEMMA SendPendingType ==
  ASSUME NEW P \in SUBSET Signal, NEW sig \in Signal
  PROVE  SendPending(P, sig) \in SUBSET Signal
<1>1. CASE sig = SIGCONT
  BY <1>1 DEF SendPending
<1>2. CASE sig # SIGCONT /\ sig \in SIG_STOP_MASK
  BY <1>2 DEF SendPending
<1>3. CASE sig # SIGCONT /\ sig \notin SIG_STOP_MASK
  BY <1>3 DEF SendPending
<1> QED BY <1>1, <1>2, <1>3

(* The numbers of include/signal.h that the proofs tell apart.             *)
LEMMA SignalNumbers ==
  /\ SIGCHLD \in Signal /\ SIGKILL \in Signal /\ SIGCONT \in Signal
  /\ SIG_STOP_MASK \subseteq Signal
  /\ TermDefault \subseteq Signal
  /\ SIGKILL \in TermDefault \cap SIG_IMMUTABLE_MASK
  /\ SIGCHLD # SIGKILL /\ SIGCHLD # SIGCONT
  /\ SIGKILL \notin SIG_STOP_MASK /\ SIGCONT \notin SIG_STOP_MASK
  /\ SIGKILL # SIGCONT /\ SIGCHLD \notin SIG_STOP_MASK
BY DEF SIGCHLD, SIGKILL, SIGCONT, SIGSTOP, SIGTSTP, SIG_STOP_MASK, TermDefault,
       SIG_IMMUTABLE_MASK, Signal, NSIG

(* A signal send adds the signal, and takes away at most a pending stop or *)
(* continue.                                                               *)
LEMMA SendPendingKeeps ==
  ASSUME NEW P \in SUBSET Signal, NEW sig \in Signal
  PROVE  /\ SIGKILL \in P => SIGKILL \in SendPending(P, sig)
         /\ (SIGCONT \in P => P \cap SIG_STOP_MASK = {}) =>
              (SIGCONT \in SendPending(P, sig) =>
                 SendPending(P, sig) \cap SIG_STOP_MASK = {})
<1> USE SignalNumbers
<1>1. CASE sig = SIGCONT
  BY <1>1 DEF SendPending
<1>2. CASE sig # SIGCONT /\ sig \in SIG_STOP_MASK
  BY <1>2 DEF SendPending
<1>3. CASE sig # SIGCONT /\ sig \notin SIG_STOP_MASK
  BY <1>3 DEF SendPending
<1> QED BY <1>1, <1>2, <1>3
-----------------------------------------------------------------------------
(***************************************************************************)
(* Type lemmas: what the parts of a step return in a state that is type    *)
(* correct.                                                                *)
(***************************************************************************)
StateFn == [Task -> TaskState]

PendingFn == [Task -> SUBSET Signal]

(* do_exit returns well-typed states, masks and parents, and wakes nobody  *)
(* into RUNNING.                                                           *)
LEMMA ExitTypes ==
  ASSUME TypeOK, NEW t \in Task, NEW P \in SUBSET Signal
  PROVE  /\ ExitState(t) \in StateFn
         /\ ExitPending(t, P) \in PendingFn
         /\ ExitParent(t) \in [Task -> Task \cup {Nil}]
<1>1. ExitState(t) \in StateFn
  BY SendStateType DEF ExitState, StateFn, TypeOK, TaskState
<1>2. ExitPending(t, P) \in PendingFn
  BY SendPendingType, SignalNumbers DEF ExitPending, PendingFn, TypeOK
<1>3. ExitParent(t) \in [Task -> Task \cup {Nil}]
  BY BootPids DEF ExitParent, TypeOK
<1> QED BY <1>1, <1>2, <1>3

(* One pass of kernel_signal_dispatch returns well-typed functions.        *)
LEMMA DispatchTypes ==
  ASSUME TypeOK, NEW t \in Task, NEW st \in TaskState, NEW P \in SUBSET Signal
  PROVE  /\ DispatchState(t, st, P) \in StateFn
         /\ DispatchPending(t, st, P) \in PendingFn
         /\ DispatchParent(t, st, P) \in [Task -> Task \cup {Nil}]
         /\ DispatchExitCode(t, st, P) \in [Task -> 0 .. 128 + NSIG - 1]
<1>1. LeftPending(t, st, P) \in SUBSET Signal
  BY DEF LeftPending
<1>2. DispatchState(t, st, P) \in StateFn
  BY ExitTypes, Zenon DEF DispatchState, StateFn, TypeOK, TaskState
<1>3. DispatchPending(t, st, P) \in PendingFn
  BY <1>1, ExitTypes DEF DispatchPending, PendingFn, TypeOK
<1>4. DispatchParent(t, st, P) \in [Task -> Task \cup {Nil}]
  BY ExitTypes, Zenon DEF DispatchParent, TypeOK
<1>5. DispatchExitCode(t, st, P) \in [Task -> 0 .. 128 + NSIG - 1]
  <2>1. KillSignals(t, st, P) \in SUBSET Signal
    BY DEF KillSignals, DispatchKills, Reached
  <2>2. CASE ~Dies(t, st, P)
    BY <2>2 DEF DispatchExitCode, TypeOK
  <2>3. CASE Dies(t, st, P)
    <3> DEFINE k == CHOOSE s \in KillSignals(t, st, P) : TRUE
    <3>1. k \in Signal
      BY <2>1, <2>3 DEF Dies
    <3>2. \A s \in Signal : 128 + s \in 0 .. 128 + NSIG - 1
      BY DEF Signal, NSIG
    <3>3. 128 + k \in 0 .. 128 + NSIG - 1
      BY <3>1, <3>2
    <3> QED BY <2>3, <3>3 DEF DispatchExitCode, TypeOK
  <2> QED BY <2>2, <2>3
<1> QED BY <1>2, <1>3, <1>4, <1>5

(* Delivering only takes bits away, and never SIGKILL's.                   *)
LEMMA DeliverType ==
  ASSUME NEW pd \in PendingFn, NEW ca, NEW t \in Task, NEW where
  PROVE  /\ Deliver(pd, ca, t, where) \in PendingFn
         /\ \A u \in Task :
              /\ Deliver(pd, ca, t, where)[u] \subseteq pd[u]
              /\ SIGKILL \in pd[u] => SIGKILL \in Deliver(pd, ca, t, where)[u]
<1> DEFINE D == Delivered(pd[t], ca[t])
<1>1. SIGKILL \notin D
  BY SignalNumbers DEF Delivered
<1>2. Deliver(pd, ca, t, where) \in {pd, [pd EXCEPT ![t] = pd[t] \ D]}
  BY DEF Deliver, PendingFn
<1> HIDE DEF D
<1> QED BY <1>1, <1>2 DEF PendingFn

(* pick_next_task returns the current task or a RUNNABLE one on the list.  *)
LEMMA PickNextType ==
  ASSUME TypeOK, NEW st \in StateFn
  PROVE  /\ PickNext(st) \in Task
         /\ PickNext(st) # current_task =>
              PickNext(st) \in listed /\ st[PickNext(st)] = "RUNNABLE"
<1> DEFINE E == {t \in listed \ {current_task} : st[t] = "RUNNABLE"}
           After == {t \in E : t < current_task}
<1>1. E \in SUBSET Task /\ After \in SUBSET E
  BY DEF TypeOK
<1>2. CASE E = {}
  BY <1>2 DEF PickNext, TypeOK
<1>3. CASE E # {} /\ After # {}
  <2>1. PickNext(st) = Highest(After)
    BY <1>3 DEF PickNext
  <2> QED BY <1>1, <1>3, <2>1, HighestTask
<1>4. CASE E # {} /\ After = {}
  <2>1. PickNext(st) = Highest(E)
    BY <1>4 DEF PickNext
  <2> QED BY <1>1, <1>4, <2>1, HighestTask
<1> QED BY <1>2, <1>3, <1>4

(* The switch and the lap hook return well-typed states, and leave RUNNING *)
(* only the task that is switched in; a zombie stays a zombie.             *)
LEMMA SwitchTypes ==
  ASSUME TypeOK, NEW st \in StateFn, NEW next \in Task, NEW n,
         \A t \in Task : st[t] = "RUNNING" => t = current_task
  PROVE  LET sw == SwitchState(st, next)
         IN  /\ sw \in StateFn
             /\ LapState(sw, next, n) \in StateFn
             /\ \A t \in Task : /\ sw[t] = "RUNNING" => t = next
                                /\ LapState(sw, next, n)[t] = "RUNNING" => t = next
                                /\ st[t] = "ZOMBIE" /\ t # next =>
                                     /\ sw[t] = "ZOMBIE"
                                     /\ LapState(sw, next, n)[t] = "ZOMBIE"
<1> DEFINE sw == SwitchState(st, next)
<1>1. /\ sw \in StateFn
      /\ \A t \in Task : /\ sw[t] = "RUNNING" => t = next
                         /\ st[t] = "ZOMBIE" /\ t # next => sw[t] = "ZOMBIE"
  BY DEF SwitchState, StateFn, TaskState
<1> HIDE DEF sw
<1>2. CASE LapBlocks(sw, next, n)
  <2> DEFINE F == FaultyTargets(sw, next)
             f == Highest(F)
  <2>1. F \in SUBSET Task /\ F # {}
    BY <1>2 DEF FaultyTargets, LapBlocks, TypeOK
  <2>2. f \in F
    BY <2>1, HighestTask
  <2>3. f \in Task /\ sw[f] # "ZOMBIE"
    BY <2>1, <2>2 DEF FaultyTargets
  <2>4. LapState(sw, next, n) = [sw EXCEPT ![f] = "BLOCKED"]
    <3>1. ~LapUnblocks(n)
      BY <1>2, KernelAssumption DEF LapBlocks, LapUnblocks
    <3> QED BY <1>2, <3>1 DEF LapState
  <2> HIDE DEF f
  <2> QED BY <1>1, <2>3, <2>4 DEF StateFn, TaskState, sw
<1>3. CASE ~LapBlocks(sw, next, n) /\ LapUnblocks(n)
  <2>1. LapState(sw, next, n) =
          [t \in Task |-> IF t \in listed /\ sw[t] = "BLOCKED"
                          THEN "RUNNABLE" ELSE sw[t]]
    BY <1>3 DEF LapState
  <2> QED BY <1>1, <2>1 DEF StateFn, TaskState, sw
<1>4. CASE ~LapBlocks(sw, next, n) /\ ~LapUnblocks(n)
  <2>1. LapState(sw, next, n) = sw
    BY <1>4 DEF LapState
  <2> QED BY <1>1, <2>1 DEF sw
<1> QED BY <1>2, <1>3, <1>4
-----------------------------------------------------------------------------
(***************************************************************************)
(* The inductive invariant.  TSS.esp0 follows the current task only        *)
(* because a task created meanwhile has a pid nobody runs under yet, so it *)
(* carries the bounds on the pids in use.  A mask that waits to be stored  *)
(* back must be as well kept as the pending ones.  The properties are      *)
(* proved together because a switch relies on all of them.                 *)
(***************************************************************************)
PidsClaimed == listed \subseteq 0 .. task_counter /\ current_task <= task_counter

Exclusive(P) == SIGCONT \in P => P \cap SIG_STOP_MASK = {}

IInv ==
  /\ TypeOK
  /\ RunningIsCurrent
  /\ \A t \in Task : Exclusive(pending[t]) /\ Exclusive(mask[t])
  /\ OwnKernelStack
  /\ PidsClaimed

(* Boot establishes it.                                                    *)
LEMMA InitInv == Init => IInv
<1> SUFFICES ASSUME Init PROVE IInv
  OBVIOUS
<1> USE BootPids, KernelAssumption
<1>1. TypeOK
  <2>1. state \in [Task -> TaskState]
    BY DEF Init, TaskState
  <2>2. at \in [Task -> ControlPoint] /\ \A t \in Task : at[t] \notin ReapPoint
    BY DEF Init, ControlPoint, ReapPoint
  <2>3. task_counter \in 2 .. MAX_PROC - 1 /\ time_left \in [Task -> 1 .. PROC_QUANTUM]
    BY DEF Init
  <2>4. exit_code \in [Task -> 0 .. 128 + NSIG - 1] /\ lap_num \in 0 .. LapCap
    BY DEF Init, NSIG
  <2> QED BY <2>1, <2>2, <2>3, <2>4, Zenon DEF Init, TypeOK
<1>2. RunningIsCurrent
  BY DEF Init, RunningIsCurrent
<1>3. \A t \in Task : Exclusive(pending[t]) /\ Exclusive(mask[t])
  BY DEF Init, Exclusive
<1>4. OwnKernelStack
  <2>1. IDLE \in Task /\ IDLE # INIT_PID
    BY DEF IDLE, INIT_PID
  <2>2. ~is_userspace[IDLE]
    BY <2>1, Zenon DEF Init
  <2> QED BY <2>2 DEF Init, OwnKernelStack
<1>5. PidsClaimed
  BY DEF Init, PidsClaimed, IDLE, INIT_PID
<1> QED BY <1>1, <1>2, <1>3, <1>4, <1>5 DEF IInv

(* A dispatch pass for task t leaves RUNNING only what was, keeps every    *)
(* mask free of a stop next to a continue, and takes SIGKILL only from a   *)
(* task it turns into a zombie.                                            *)
LEMMA DispatchKeeps ==
  ASSUME IInv, NEW t \in Task, NEW st \in TaskState, NEW P \in SUBSET Signal,
         st = "RUNNING" => t = current_task, Exclusive(P)
  PROVE  LET sst == DispatchState(t, st, P)
             ppd == DispatchPending(t, st, P)
         IN  \A u \in Task :
               /\ sst[u] = "RUNNING" => u = current_task
               /\ Exclusive(ppd[u])
               /\ u # t /\ SIGKILL \in pending[u] => SIGKILL \in ppd[u]
               /\ SIGKILL \in P => SIGKILL \in ppd[t] \/ sst[t] = "ZOMBIE"
<1> DEFINE sst == DispatchState(t, st, P)
           ppd == DispatchPending(t, st, P)
           L   == LeftPending(t, st, P)
<1>1. L \subseteq P
  BY DEF LeftPending
<1>2. Exclusive(L)
  BY <1>1 DEF Exclusive
<1>3. SIGKILL \in P /\ SIGKILL \notin L => Dies(t, st, P)
  <2> SUFFICES ASSUME SIGKILL \in P, SIGKILL \notin L
               PROVE  Dies(t, st, P)
    OBVIOUS
  <2>1. Dispatching(st)
    BY DEF LeftPending
  <2>2. SIGKILL \in Reached(P, caught[t], ignored[t])
    BY <2>1 DEF LeftPending, DispatchTakes
  <2>3. Terminates(SIGKILL, caught[t], ignored[t])
    BY SignalNumbers DEF Terminates, TakesDefault
  <2> QED BY <2>1, <2>2, <2>3 DEF Dies, KillSignals, DispatchKills
<1>4. CASE Dies(t, st, P)
  <2>1. sst = ExitState(t) /\ ppd = ExitPending(t, L)
    BY <1>4 DEF DispatchState, DispatchPending
  <2>2. \A u \in Task : /\ sst[u] = "RUNNING" => state[u] = "RUNNING"
                        /\ sst[t] = "ZOMBIE"
    BY <2>1, SendStateType DEF ExitState, IInv, TypeOK
  <2>3. \A u \in Task : \/ u = t /\ ppd[u] = L
                        \/ u # t /\ ppd[u] \in {pending[u], SendPending(pending[u], SIGCHLD)}
    BY <2>1 DEF ExitPending
  <2>4. \A u \in Task : u # t => /\ Exclusive(ppd[u])
                                 /\ SIGKILL \in pending[u] => SIGKILL \in ppd[u]
    BY <2>3, SendPendingKeeps, SignalNumbers DEF IInv, TypeOK, Exclusive
  <2> HIDE DEF sst, ppd, L
  <2>5. \A u \in Task : Exclusive(ppd[u])
    BY <1>2, <2>3, <2>4
  <2> QED BY <2>2, <2>4, <2>5 DEF IInv, RunningIsCurrent, sst, ppd
<1>5. CASE ~Dies(t, st, P)
  <2>1. /\ sst = [state EXCEPT ![t] = IF StopSignals(t, st, P) # {} THEN "STOPPED" ELSE st]
        /\ ppd = [pending EXCEPT ![t] = L]
    BY <1>5 DEF DispatchState, DispatchPending
  <2>2. SIGKILL \in P => SIGKILL \in L
    BY <1>3, <1>5
  <2> HIDE DEF sst, ppd, L
  <2>3. \A u \in Task : sst[u] = "RUNNING" => u = current_task
    BY <2>1 DEF IInv, TypeOK, RunningIsCurrent
  <2>4. \A u \in Task : ppd[u] = IF u = t THEN L ELSE pending[u]
    BY <2>1 DEF IInv, TypeOK
  <2> QED BY <1>2, <2>2, <2>3, <2>4 DEF IInv, sst, ppd
<1> QED BY <1>4, <1>5
-----------------------------------------------------------------------------
(***************************************************************************)
(* Every action preserves it, and only the store of a mask loaded earlier  *)
(* loses a SIGKILL.                                                        *)
(***************************************************************************)
KillKept ==
  \A t \in Task : SIGKILL \in pending[t] =>
    \/ SIGKILL \in pending'[t]
    \/ state'[t] \in {"ZOMBIE", "FREE"}
    \/ OnCpuAt("store") /\ t = current_task /\ SIGKILL \notin mask[t]

(* The PIT tick.                                                           *)
LEMMA TickInv == IInv /\ Tick => IInv' /\ KillKept
<1> SUFFICES ASSUME IInv, Tick PROVE IInv' /\ KillKept
  OBVIOUS
<1> DEFINE c  == current_task
           st == DispatchState(c, state[c], pending[c])
           pd == DispatchPending(c, state[c], pending[c])
<1>0. c \in Task /\ state[c] \in TaskState /\ pending[c] \in SUBSET Signal
  BY DEF IInv, TypeOK
<1>1. /\ st \in StateFn /\ pd \in PendingFn
      /\ DispatchParent(c, state[c], pending[c]) \in [Task -> Task \cup {Nil}]
      /\ DispatchExitCode(c, state[c], pending[c]) \in [Task -> 0 .. 128 + NSIG - 1]
  BY <1>0, DispatchTypes DEF IInv
<1>2. \A u \in Task :
        /\ st[u] = "RUNNING" => u = c
        /\ Exclusive(pd[u])
        /\ SIGKILL \in pending[u] => SIGKILL \in pd[u] \/ (u = c /\ st[c] = "ZOMBIE")
  BY <1>0, DispatchKeeps DEF IInv
<1>3. \A t \in Task : \A ca, w :
        /\ Deliver(pd, ca, t, w) \in PendingFn
        /\ \A u \in Task : /\ Exclusive(Deliver(pd, ca, t, w)[u])
                           /\ SIGKILL \in pd[u] => SIGKILL \in Deliver(pd, ca, t, w)[u]
  BY <1>1, <1>2, DeliverType DEF Exclusive
<1>4. CASE TickHang
  BY <1>4 DEF TickHang, IInv, TypeOK, RunningIsCurrent, OwnKernelStack, PidsClaimed,
              KillKept, Exclusive, tree, lap, disp, local
<1>5. ASSUME TickDrains, TickKeep(st, pd) \/ TickAlone(st, pd)
      PROVE  IInv' /\ KillKept
  <2> HIDE DEF st, pd
  <2>1. /\ state' = st /\ pending' = Deliver(pd, caught, c, at[c])
        /\ time_left' \in [Task -> 1 .. PROC_QUANTUM]
    BY <1>0, <1>5, KernelAssumption DEF TickKeep, TickAlone, QuantumLeft, Refill, IInv, TypeOK
  <2>2. TypeOK'
    BY <1>1, <1>3, <1>5, <2>1, <1>0
       DEF TickDrains, TickKeep, TickAlone, IInv, TypeOK, StateFn, PendingFn, lap, disp, local
  <2>3. RunningIsCurrent' /\ OwnKernelStack' /\ PidsClaimed'
    BY <1>2, <1>5, <2>1
       DEF TickDrains, TickKeep, TickAlone, IInv, RunningIsCurrent, OwnKernelStack, PidsClaimed
  <2>4. \A u \in Task : Exclusive(pending'[u])
    BY <1>0, <1>3, <2>1
  <2>5. KillKept
    BY <1>0, <1>2, <1>3, <2>1 DEF KillKept
  <2> QED BY <1>5, <2>2, <2>3, <2>4, <2>5 DEF IInv, Exclusive, TickDrains, local
<1>6. ASSUME TickDrains, TickSwitch(st, pd)
      PROVE  IInv' /\ KillKept
  <2> DEFINE next == PickNext(st)
             sw   == SwitchState(st, next)
  <2>1. next \in Task /\ next \in listed /\ next # c
    BY <1>1, <1>6, PickNextType DEF IInv, TickSwitch
  <2>2. \A n : /\ sw \in StateFn /\ LapState(sw, next, n) \in StateFn
               /\ \A t \in Task : /\ sw[t] = "RUNNING" => t = next
                                  /\ LapState(sw, next, n)[t] = "RUNNING" => t = next
                                  /\ st[t] = "ZOMBIE" /\ t # next =>
                                       sw[t] = "ZOMBIE" /\ LapState(sw, next, n)[t] = "ZOMBIE"
    BY <1>1, <1>2, <2>1, SwitchTypes DEF IInv
  <2>3. /\ pending' = Deliver(pd, caught, next, at[next])
        /\ current_task' = next /\ esp0' = Esp0After(next)
        /\ time_left' = Refill /\ LapAccount(sw, next)
    BY <1>6 DEF TickSwitch
  <2>4. \/ state' = sw
        \/ \E n : state' = LapState(sw, next, n)
    BY <2>3 DEF LapAccount
  <2>5. /\ lap_anchor' \in Task \cup {Nil} /\ lap_num' \in 0 .. LapCap
        /\ blocked_marker' \in BOOLEAN /\ unblocked_marker' \in BOOLEAN
    <3>1. lap_num' \in 0 .. LapCap
      BY <2>3, BootPids DEF LapAccount, IInv, TypeOK
    <3>2. lap_anchor' \in Task \cup {Nil}
      BY <2>1, <2>3 DEF LapAccount, IInv, TypeOK
    <3>3. blocked_marker' \in BOOLEAN /\ unblocked_marker' \in BOOLEAN
      BY <2>3, Zenon DEF LapAccount, IInv, TypeOK
    <3> QED BY <3>1, <3>2, <3>3
  <2> HIDE DEF st, pd, next, sw
  <2>6. time_left' \in [Task -> 1 .. PROC_QUANTUM] /\ esp0' \in Task \cup {Nil}
    BY <1>0, <2>1, <2>3, KernelAssumption DEF Refill, Esp0After, IInv, TypeOK
  <2>7. state' \in StateFn /\ pending' \in PendingFn
    BY <1>3, <2>1, <2>2, <2>3, <2>4
  <2>8. TypeOK'
    BY <1>1, <1>6, <2>1, <2>3, <2>5, <2>6, <2>7
       DEF TickDrains, IInv, TypeOK, StateFn, PendingFn, disp, local
  <2>9. RunningIsCurrent'
    <3>1. \A t \in Task : state'[t] = "RUNNING" => t = next
      BY <2>2, <2>4
    <3> QED BY <2>3, <3>1 DEF RunningIsCurrent
  <2>10. OwnKernelStack' /\ PidsClaimed'
    BY <1>6, <2>1, <2>3 DEF TickDrains, IInv, TypeOK, OwnKernelStack, Esp0After, PidsClaimed
  <2>11. \A u \in Task : Exclusive(pending'[u])
    BY <1>3, <2>1, <2>3
  <2>12. KillKept
    <3>1. \A u \in Task : SIGKILL \in pd[u] => SIGKILL \in pending'[u]
      BY <1>3, <2>1, <2>3
    <3>2. st[c] = "ZOMBIE" => state'[c] = "ZOMBIE"
      BY <1>0, <2>1, <2>2, <2>4
    <3> QED BY <1>2, <3>1, <3>2 DEF KillKept
  <2> QED BY <1>6, <2>8, <2>9, <2>10, <2>11, <2>12 DEF IInv, Exclusive, TickDrains, local
<1> QED BY <1>4, <1>5, <1>6 DEF Tick

(* Deliver on well-kept masks.                                             *)
LEMMA DeliverKeeps ==
  ASSUME NEW pd \in PendingFn, NEW ca, NEW t \in Task, NEW where,
         \A u \in Task : Exclusive(pd[u])
  PROVE  LET D == Deliver(pd, ca, t, where)
         IN  /\ D \in PendingFn
             /\ \A u \in Task : Exclusive(D[u])
             /\ \A u \in Task : SIGKILL \in pd[u] => SIGKILL \in D[u]
BY DeliverType DEF Exclusive

(* The pending masks of a state that satisfies the invariant.              *)
LEMMA PendingKept ==
  ASSUME IInv
  PROVE  /\ pending \in PendingFn
         /\ \A u \in Task : Exclusive(pending[u])
         /\ current_task \in Task
BY DEF IInv, TypeOK, PendingFn

(* exec_fn, spawn_user and task_fork.                                      *)
LEMMA CreateInv ==
  ASSUME IInv, NEW par \in Task, NEW user \in BOOLEAN, Create(par, user),
         NEW ca, NEW w, pending' = Deliver(pending, ca, current_task, w),
         caught' \in [Task -> SUBSET (Signal \ SIG_IMMUTABLE_MASK)],
         ignored' \in [Task -> SUBSET (Signal \ SIG_IMMUTABLE_MASK)]
  PROVE  IInv' /\ KillKept
<1>1. /\ pending' \in PendingFn
      /\ \A u \in Task : Exclusive(pending'[u])
      /\ \A u \in Task : SIGKILL \in pending[u] => SIGKILL \in pending'[u]
  BY PendingKept, DeliverKeeps, Zenon
<1>2. /\ NewPid \in Task /\ NewPid = task_counter + 1
      /\ task_counter' \in 2 .. MAX_PROC - 1
      /\ current_task # NewPid
  BY KernelAssumption DEF Create, PidAlloc, NewPid, IInv, TypeOK, Task, PidsClaimed
<1>3. TypeOK'
  <2>1. state' \in [Task -> TaskState] /\ listed' \subseteq Task
    BY <1>2 DEF Create, IInv, TypeOK, TaskState
  <2>2. parent' \in [Task -> Task \cup {Nil}] /\ is_userspace' \in [Task -> BOOLEAN]
    BY <1>2 DEF Create, IInv, TypeOK
  <2>3. lap_anchor' \in Task \cup {Nil}
    BY <1>2 DEF Create, IInv, TypeOK
  <2> QED BY <1>1, <1>2, <2>1, <2>2, <2>3 DEF Create, IInv, TypeOK, PendingFn, local
<1>4. RunningIsCurrent'
  BY <1>2 DEF Create, IInv, TypeOK, RunningIsCurrent
<1>5. OwnKernelStack'
  BY <1>2 DEF Create, IInv, TypeOK, OwnKernelStack
<1>6. PidsClaimed'
  BY <1>2 DEF Create, IInv, TypeOK, PidsClaimed, Task
<1> QED BY <1>1, <1>3, <1>4, <1>5, <1>6 DEF IInv, Exclusive, KillKept, Create, local

(* kernel_signal_send to task t, by the shell or a program.                *)
LEMMA SendKeeps ==
  ASSUME IInv, NEW t \in Task, NEW sig \in Signal
  PROVE  LET ss == [state EXCEPT ![t] = SendState(@, sig)]
             pp == [pending EXCEPT ![t] = SendPending(@, sig)]
         IN  /\ ss \in StateFn
             /\ \A u \in Task : ss[u] = "RUNNING" => u = current_task
             /\ pp \in PendingFn
             /\ \A u \in Task : Exclusive(pp[u])
             /\ \A u \in Task : SIGKILL \in pending[u] => SIGKILL \in pp[u]
<1> DEFINE ss == [state EXCEPT ![t] = SendState(@, sig)]
           pp == [pending EXCEPT ![t] = SendPending(@, sig)]
<1>1. state \in StateFn /\ pending \in PendingFn
  BY DEF IInv, TypeOK, StateFn, PendingFn
<1>2. \A u \in Task : ss[u] = IF u = t THEN SendState(state[t], sig) ELSE state[u]
  BY <1>1 DEF StateFn
<1>3. \A u \in Task : pp[u] = IF u = t THEN SendPending(pending[t], sig) ELSE pending[u]
  BY <1>1 DEF PendingFn
<1>4. ss \in StateFn
  BY <1>1, SendStateType DEF StateFn
<1>5. pp \in PendingFn
  BY <1>1, SendPendingType DEF PendingFn
<1>6. SendState(state[t], sig) = "RUNNING" => state[t] = "RUNNING"
  BY <1>1, SendStateType DEF StateFn
<1>7. /\ SIGKILL \in pending[t] => SIGKILL \in SendPending(pending[t], sig)
      /\ Exclusive(SendPending(pending[t], sig))
  BY <1>1, SendPendingKeeps DEF IInv, PendingFn, Exclusive
<1> HIDE DEF ss, pp
<1>8. \A u \in Task : ss[u] = "RUNNING" => u = current_task
  BY <1>2, <1>6 DEF IInv, RunningIsCurrent
<1>9. \A u \in Task : /\ Exclusive(pp[u])
                      /\ SIGKILL \in pending[u] => SIGKILL \in pp[u]
  BY <1>3, <1>7 DEF IInv
<1> QED BY <1>4, <1>5, <1>8, <1>9 DEF ss, pp

(* shell_kill and sys_kill of another task.                                *)
LEMMA SendInv ==
  ASSUME IInv, NEW t \in Task, NEW sig \in Signal, NEW ca, NEW w,
         state' = [state EXCEPT ![t] = SendState(@, sig)],
         pending' = Deliver([pending EXCEPT ![t] = SendPending(@, sig)],
                            ca, current_task, w),
         UNCHANGED <<tree, lap, disp, current_task, exit_code, time_left, at,
                     local, esp0, hung>>
  PROVE  IInv' /\ KillKept
<1> DEFINE pp == [pending EXCEPT ![t] = SendPending(@, sig)]
<1>1. /\ state' \in StateFn
      /\ \A u \in Task : state'[u] = "RUNNING" => u = current_task
      /\ pp \in PendingFn
      /\ \A u \in Task : Exclusive(pp[u])
      /\ \A u \in Task : SIGKILL \in pending[u] => SIGKILL \in pp[u]
  BY SendKeeps, Zenon
<1> HIDE DEF pp
<1>2. /\ pending' \in PendingFn
      /\ \A u \in Task : Exclusive(pending'[u])
      /\ \A u \in Task : SIGKILL \in pp[u] => SIGKILL \in pending'[u]
  BY <1>1, PendingKept, DeliverKeeps, Zenon DEF pp
<1>3. TypeOK'
  BY <1>1, <1>2, Zenon DEF IInv, TypeOK, StateFn, PendingFn, tree, lap, disp, local
<1>4. RunningIsCurrent' /\ OwnKernelStack' /\ PidsClaimed'
  BY <1>1 DEF IInv, RunningIsCurrent, OwnKernelStack, PidsClaimed, tree
<1> QED BY <1>1, <1>2, <1>3, <1>4, Zenon DEF IInv, Exclusive, KillKept, local

(* The locals of signal_check_and_deliver: a bit that is not SIGKILL's nor *)
(* SIGSTOP's, and a mask as well kept as the one it was loaded from.       *)
BitMask(b, m) ==
  /\ b \in [Task -> {0} \cup (Signal \ SIG_IMMUTABLE_MASK)]
  /\ m \in [Task -> SUBSET Signal]
  /\ \A t \in Task : Exclusive(m[t])

(* Steps that move only masks, control points, states and the tree: what   *)
(* has to be shown of them.                                                *)
LEMMA StepInv ==
  ASSUME IInv, UNCHANGED <<task_counter, lap, current_task, time_left, esp0>>,
         listed' \subseteq listed,
         state' \in StateFn,
         \A u \in Task : state'[u] = "RUNNING" => u = current_task,
         parent' \in [Task -> Task \cup {Nil}],
         pending' \in PendingFn,
         \A u \in Task : Exclusive(pending'[u]),
         caught' \in [Task -> SUBSET (Signal \ SIG_IMMUTABLE_MASK)],
         ignored' \in [Task -> SUBSET (Signal \ SIG_IMMUTABLE_MASK)],
         is_userspace' \in [Task -> BOOLEAN],
         \A u \in Task : is_userspace'[u] => is_userspace[u],
         exit_code' \in [Task -> 0 .. 128 + NSIG - 1],
         at' \in [Task -> ControlPoint],
         reaping' \in [Task -> Task \cup {Nil}],
         \A u \in Task : at'[u] \in ReapPoint => reaping'[u] \in Task,
         BitMask(bit', mask'),
         hung' \in BOOLEAN
  PROVE  IInv'
<1>1. TypeOK'
  BY DEF IInv, TypeOK, StateFn, PendingFn, lap, BitMask
<1>2. RunningIsCurrent'
  BY DEF RunningIsCurrent
<1>3. OwnKernelStack'
  BY DEF IInv, TypeOK, OwnKernelStack
<1>4. PidsClaimed'
  BY DEF IInv, PidsClaimed
<1> QED BY <1>1, <1>2, <1>3, <1>4 DEF IInv, Exclusive, BitMask

(* The types a step that leaves them alone keeps.                          *)
LEMMA Kept ==
  ASSUME IInv
  PROVE  /\ current_task \in Task
         /\ state \in StateFn
         /\ \A u \in Task : state[u] = "RUNNING" => u = current_task
         /\ parent \in [Task -> Task \cup {Nil}]
         /\ pending \in PendingFn
         /\ \A u \in Task : Exclusive(pending[u])
         /\ caught \in [Task -> SUBSET (Signal \ SIG_IMMUTABLE_MASK)]
         /\ ignored \in [Task -> SUBSET (Signal \ SIG_IMMUTABLE_MASK)]
         /\ is_userspace \in [Task -> BOOLEAN]
         /\ exit_code \in [Task -> 0 .. 128 + NSIG - 1]
         /\ at \in [Task -> ControlPoint]
         /\ reaping \in [Task -> Task \cup {Nil}]
         /\ \A u \in Task : at[u] \in ReapPoint => reaping[u] \in Task
         /\ BitMask(bit, mask)
         /\ hung \in BOOLEAN
BY DEF IInv, TypeOK, StateFn, PendingFn, RunningIsCurrent, BitMask

(* The shell's commands.                                                   *)
LEMMA ShellInv == IInv /\ Shell => IInv' /\ KillKept
<1> SUFFICES ASSUME IInv, Shell PROVE IInv' /\ KillKept
  OBVIOUS
<1>1. CASE ShellSpawnKthread
  BY <1>1, CreateInv, BootPids, Kept, Zenon DEF ShellSpawnKthread, disp
<1>2. CASE ShellSpawnUser
  BY <1>2, CreateInv, BootPids, Kept, Zenon DEF ShellSpawnUser, disp
<1>3. ASSUME NEW t \in KillTargets, NEW sig \in KillSigs, ShellKill(t, sig)
      PROVE  IInv' /\ KillKept
  <2>1. t \in Task /\ sig \in Signal
    BY KernelAssumption DEF Task
  <2> QED BY <1>3, <2>1, SendInv, Zenon DEF ShellKill
<1>4. ASSUME NEW t \in Task, NEW sig \in HandlerSigs, ShellSignal(t, sig)
      PROVE  IInv' /\ KillKept
  <2>1. /\ caught' \in [Task -> SUBSET (Signal \ SIG_IMMUTABLE_MASK)]
        /\ ignored' \in [Task -> SUBSET (Signal \ SIG_IMMUTABLE_MASK)]
    BY <1>4, Kept, KernelAssumption DEF ShellSignal, Register
  <2>2. /\ pending' \in PendingFn
        /\ \A u \in Task : Exclusive(pending'[u])
        /\ \A u \in Task : SIGKILL \in pending[u] => SIGKILL \in pending'[u]
    BY <1>4, PendingKept, DeliverKeeps, Zenon DEF ShellSignal
  <2>3. IInv'
    BY <1>4, <2>1, <2>2, Kept, StepInv, Zenon DEF ShellSignal, tree, local
  <2> QED BY <2>2, <2>3 DEF KillKept
<1>5. KillTargets \subseteq Task
  BY KernelAssumption DEF Task
<1> QED BY <1>1, <1>2, <1>3, <1>4, <1>5 DEF Shell

(* A dispatch pass with a Deliver after it, as sys_kill on oneself does.   *)
LEMMA SysKillSelfInv ==
  ASSUME IInv, NEW sig \in SelfSigs, SysKillSelf(sig)
  PROVE  IInv' /\ KillKept
<1> DEFINE c  == current_task
           st == SendState(state[c], sig)
           P  == SendPending(pending[c], sig)
           ds == DispatchState(c, st, P)
           dp == DispatchPending(c, st, P)
<1>1. c \in Task /\ sig \in Signal /\ state[c] \in TaskState /\ pending[c] \in SUBSET Signal
  BY Kept, KernelAssumption, Zenon DEF StateFn, PendingFn
<1>2. st \in TaskState /\ P \in SUBSET Signal
  BY <1>1, SendStateType, SendPendingType
<1>3. Exclusive(P) /\ (SIGKILL \in pending[c] => SIGKILL \in P)
  BY <1>1, SendPendingKeeps, Kept DEF Exclusive
<1> HIDE DEF st, P
<1>4. /\ ds \in StateFn /\ dp \in PendingFn
      /\ DispatchParent(c, st, P) \in [Task -> Task \cup {Nil}]
      /\ DispatchExitCode(c, st, P) \in [Task -> 0 .. 128 + NSIG - 1]
  BY <1>1, <1>2, DispatchTypes DEF IInv
<1>5. \A u \in Task :
        /\ ds[u] = "RUNNING" => u = c
        /\ Exclusive(dp[u])
        /\ SIGKILL \in pending[u] => SIGKILL \in dp[u] \/ (u = c /\ ds[c] = "ZOMBIE")
  BY <1>1, <1>2, <1>3, DispatchKeeps
<1>6. /\ state' = ds /\ pending' = Deliver(dp, caught, c, "run")
      /\ parent' = DispatchParent(c, st, P) /\ exit_code' = DispatchExitCode(c, st, P)
      /\ UNCHANGED <<task_counter, listed, is_userspace, lap, disp, current_task,
                     time_left, at, local, esp0, hung>>
  BY Zenon DEF SysKillSelf, st, P
<1> HIDE DEF ds, dp
<1>7. /\ pending' \in PendingFn
      /\ \A u \in Task : Exclusive(pending'[u])
      /\ \A u \in Task : SIGKILL \in dp[u] => SIGKILL \in pending'[u]
  BY <1>1, <1>4, <1>5, <1>6, DeliverKeeps, Zenon
<1>8. IInv'
  BY <1>4, <1>5, <1>6, <1>7, Kept, StepInv, Zenon DEF disp, local
<1> QED BY <1>5, <1>6, <1>7, <1>8, Zenon DEF KillKept

(* The other system calls and the faults of a program.                     *)
LEMMA ProgramInv == IInv /\ Program => IInv' /\ KillKept
<1> SUFFICES ASSUME IInv, Program PROVE IInv' /\ KillKept
  OBVIOUS
<1> USE Kept
<1>1. CASE SysExit
  <2>1. /\ state' \in StateFn /\ pending' \in PendingFn
        /\ parent' \in [Task -> Task \cup {Nil}]
    BY <1>1, ExitTypes DEF SysExit, IInv, PendingFn
  <2>2. \A u \in Task : state'[u] = "RUNNING" => u = current_task
    BY <1>1, SendStateType, Zenon DEF SysExit, ExitState, StateFn
  <2>3. \A u \in Task : pending'[u] \in {pending[u], SendPending(pending[u], SIGCHLD)}
    BY <1>1 DEF SysExit, ExitPending
  <2>4. \A u \in Task : /\ Exclusive(pending'[u])
                        /\ SIGKILL \in pending[u] => SIGKILL \in pending'[u]
    BY <2>3, SendPendingKeeps, SignalNumbers DEF PendingFn, Exclusive
  <2>5. /\ exit_code' \in [Task -> 0 .. 128 + NSIG - 1]
        /\ at' \in [Task -> ControlPoint]
        /\ \A u \in Task : at'[u] \in ReapPoint => at[u] \in ReapPoint
    BY <1>1 DEF SysExit, NSIG, ControlPoint, ReapPoint
  <2>6. IInv'
    BY <1>1, <2>1, <2>2, <2>4, <2>5, StepInv DEF SysExit, disp, local
  <2> QED BY <2>4, <2>6 DEF KillKept
<1>2. CASE SysFork
  <2>1. /\ caught' \in [Task -> SUBSET (Signal \ SIG_IMMUTABLE_MASK)]
        /\ ignored' \in [Task -> SUBSET (Signal \ SIG_IMMUTABLE_MASK)]
    BY <1>2, Zenon DEF SysFork
  <2> QED BY <1>2, <2>1, CreateInv, Zenon DEF SysFork
<1>3. ASSUME NEW t \in KillTargets, NEW sig \in KillSigs, SysKillOther(t, sig)
      PROVE  IInv' /\ KillKept
  <2>1. t \in Task /\ sig \in Signal
    BY KernelAssumption DEF Task
  <2> QED BY <1>3, <2>1, SendInv, Zenon DEF SysKillOther
<1>4. ASSUME NEW sig \in SelfSigs, SysKillSelf(sig)
      PROVE  IInv' /\ KillKept
  BY <1>4, SysKillSelfInv
<1>5. ASSUME NEW sig \in HandlerSigs, NEW h \in {"DFL", "IGN", "FN"}, SysSignal(sig, h)
      PROVE  IInv' /\ KillKept
  <2>1. /\ caught' \in [Task -> SUBSET (Signal \ SIG_IMMUTABLE_MASK)]
        /\ ignored' \in [Task -> SUBSET (Signal \ SIG_IMMUTABLE_MASK)]
    BY <1>5, KernelAssumption DEF SysSignal, Register
  <2>2. /\ pending' \in PendingFn
        /\ \A u \in Task : Exclusive(pending'[u])
        /\ \A u \in Task : SIGKILL \in pending[u] => SIGKILL \in pending'[u]
    BY <1>5, DeliverKeeps, Zenon DEF SysSignal
  <2>3. IInv'
    BY <1>5, <2>1, <2>2, StepInv, Zenon DEF SysSignal, tree, local
  <2> QED BY <2>2, <2>3 DEF KillKept
<1>6. ASSUME NEW sig \in FaultSigs, Fault(sig)
      PROVE  IInv' /\ KillKept
  <2>1. sig \in Signal
    BY KernelAssumption DEF Signal, NSIG, SIGILL, SIGBUS, SIGFPE, SIGSEGV
  <2>2. /\ state' \in StateFn
        /\ \A u \in Task : state'[u] = "RUNNING" => u = current_task
        /\ pending' \in PendingFn
        /\ \A u \in Task : Exclusive(pending'[u])
        /\ \A u \in Task : SIGKILL \in pending[u] => SIGKILL \in pending'[u]
    BY <1>6, <2>1, SendKeeps, Zenon DEF Fault
  <2>3. /\ at' \in [Task -> ControlPoint]
        /\ \A u \in Task : at'[u] \in ReapPoint => at[u] \in ReapPoint
    BY <1>6 DEF Fault, ControlPoint, ReapPoint
  <2>4. IInv'
    BY <1>6, <2>2, <2>3, StepInv, Zenon DEF Fault, tree, disp, local
  <2> QED BY <2>2, <2>4, Zenon DEF KillKept
<1>7. CASE SysReturn
  <2>1. /\ pending' \in PendingFn
        /\ \A u \in Task : Exclusive(pending'[u])
        /\ \A u \in Task : SIGKILL \in pending[u] => SIGKILL \in pending'[u]
    BY <1>7, DeliverKeeps, Zenon DEF SysReturn
  <2>2. IInv'
    BY <1>7, <2>1, StepInv DEF SysReturn, tree, disp, local
  <2> QED BY <2>1, <2>2, Zenon DEF KillKept
<1> QED BY <1>1, <1>2, <1>3, <1>4, <1>5, <1>6, <1>7 DEF Program

(* The end of task_reap: the descriptor is freed, the rest stays.          *)
LEMMA FreeKeeps ==
  ASSUME IInv, NEW z \in Task, Free(z)
  PROVE  /\ UNCHANGED <<task_counter, lap, current_task, time_left, esp0, hung>>
         /\ state' \in StateFn
         /\ \A u \in Task : state'[u] = "RUNNING" => u = current_task
         /\ state'[z] = "FREE"
         /\ caught' \in [Task -> SUBSET (Signal \ SIG_IMMUTABLE_MASK)]
         /\ ignored' \in [Task -> SUBSET (Signal \ SIG_IMMUTABLE_MASK)]
         /\ is_userspace' \in [Task -> BOOLEAN]
         /\ \A u \in Task : is_userspace'[u] => is_userspace[u]
         /\ exit_code' \in [Task -> 0 .. 128 + NSIG - 1]
         /\ BitMask(bit', mask')
<1> USE Kept
<1>1. /\ state' \in StateFn
      /\ \A u \in Task : state'[u] = "RUNNING" => u = current_task
      /\ state'[z] = "FREE"
  BY DEF Free, StateFn, TaskState
<1>2. exit_code' \in [Task -> 0 .. 128 + NSIG - 1]
  BY DEF Free, NSIG
<1>3. /\ is_userspace' \in [Task -> BOOLEAN]
      /\ \A u \in Task : is_userspace'[u] => is_userspace[u]
  BY DEF Free
<1>4. BitMask(bit', mask')
  BY DEF Free, BitMask, Exclusive
<1> QED BY <1>1, <1>2, <1>3, <1>4 DEF Free

(* The mask of a task that is freed goes with it.                          *)
LEMMA MaskFreed ==
  ASSUME IInv, NEW z \in Task
  PROVE  LET pz == [pending EXCEPT ![z] = {}]
         IN  /\ pz \in PendingFn
             /\ \A u \in Task : /\ Exclusive(pz[u])
                                /\ u # z /\ SIGKILL \in pending[u] => SIGKILL \in pz[u]
BY Kept DEF PendingFn, Exclusive

(* A call of sys_wait that finds a zombie at once.                         *)
LEMMA SysWaitReapInv ==
  ASSUME IInv, NEW z \in Task, SysWaitReap(z)
  PROVE  IInv' /\ KillKept
<1> USE Kept
<1> DEFINE pz == [pending EXCEPT ![z] = {}]
<1>1. /\ pz \in PendingFn
      /\ \A u \in Task : /\ Exclusive(pz[u])
                         /\ u # z /\ SIGKILL \in pending[u] => SIGKILL \in pz[u]
  BY MaskFreed, Zenon
<1>2. pending' = Deliver(pz, caught, current_task, "run")
  BY DEF SysWaitReap
<1> HIDE DEF pz
<1>3. /\ pending' \in PendingFn
      /\ \A u \in Task : Exclusive(pending'[u])
      /\ \A u \in Task : SIGKILL \in pz[u] => SIGKILL \in pending'[u]
  BY <1>1, <1>2, DeliverKeeps, Zenon
<1>4. /\ parent' \in [Task -> Task \cup {Nil}]
      /\ listed' \subseteq listed
      /\ at' \in [Task -> ControlPoint]
      /\ reaping' \in [Task -> Task \cup {Nil}]
      /\ \A u \in Task : at'[u] \in ReapPoint => reaping'[u] \in Task
  BY DEF SysWaitReap, Detached, ControlPoint, ReapPoint
<1>5. Free(z)
  BY DEF SysWaitReap
<1>6. IInv'
  BY <1>3, <1>4, <1>5, FreeKeeps, StepInv, Zenon
<1>7. state'[z] = "FREE"
  BY <1>5, FreeKeeps, Zenon
<1> QED BY <1>1, <1>3, <1>6, <1>7 DEF KillKept

(* sys_wait sleeps, or wakes up to no zombie and sleeps again.             *)
LEMMA WaitSleepInv ==
  ASSUME IInv, SysWaitSleep \/ WaitBlocks \/ WaitFindsNone
  PROVE  IInv' /\ KillKept
<1> USE Kept
<1>1. CASE SysWaitSleep \/ WaitBlocks
  <2>1. /\ state' \in StateFn
        /\ \A u \in Task : state'[u] = "RUNNING" => u = current_task
        /\ at' \in [Task -> ControlPoint]
        /\ \A u \in Task : at'[u] \in ReapPoint => at[u] \in ReapPoint
    BY <1>1 DEF SysWaitSleep, WaitBlocks, Goes, StateFn, TaskState, ControlPoint, ReapPoint
  <2>2. IInv'
    BY <1>1, <2>1, StepInv DEF SysWaitSleep, WaitBlocks, tree, disp, local
  <2> QED BY <1>1, <2>2, Zenon DEF SysWaitSleep, WaitBlocks, KillKept
<1>2. CASE WaitFindsNone
  <2>1. /\ at' \in [Task -> ControlPoint]
        /\ \A u \in Task : at'[u] \in ReapPoint => at[u] \in ReapPoint
    BY <1>2, Zenon DEF WaitFindsNone, Goes, ControlPoint, ReapPoint
  <2>2. IInv'
    BY <1>2, <2>1, StepInv, Zenon DEF WaitFindsNone, tree, disp, local
  <2> QED BY <1>2, <2>2, Zenon DEF WaitFindsNone, KillKept
<1> QED BY <1>1, <1>2, Zenon

(* task_reap, step by step, after sys_wait has slept.                      *)
LEMMA WaitReapsInv ==
  ASSUME IInv, WaitReaps
  PROVE  IInv' /\ KillKept
<1> USE Kept
<1>1. ASSUME NEW z \in Task, WaitFinds(z)
      PROVE  IInv' /\ KillKept
  <2>1. /\ at' \in [Task -> ControlPoint]
        /\ reaping' \in [Task -> Task \cup {Nil}]
        /\ \A u \in Task : at'[u] \in ReapPoint => reaping'[u] \in Task
    BY <1>1 DEF WaitFinds, Goes, ControlPoint
  <2>2. IInv'
    BY <1>1, <2>1, StepInv DEF WaitFinds, tree, disp
  <2> QED BY <1>1, <2>2, Zenon DEF WaitFinds, KillKept
<1>2. CASE WaitDetaches \/ WaitUnlinks
  <2>1. /\ current_task \in Task /\ at[current_task] \in ReapPoint
        /\ reaping[current_task] \in Task
    BY <1>2 DEF WaitDetaches, WaitUnlinks, OnCpuAt, ReapPoint
  <2>2. /\ parent' \in [Task -> Task \cup {Nil}]
        /\ listed' \subseteq listed
    BY <1>2, <2>1 DEF WaitDetaches, WaitUnlinks, Detached
  <2>3. /\ at' \in [Task -> ControlPoint]
        /\ \A u \in Task : at'[u] \in ReapPoint => at[u] \in ReapPoint
    BY <1>2, <2>1 DEF WaitDetaches, WaitUnlinks, Goes, ControlPoint
  <2>4. IInv'
    BY <1>2, <2>2, <2>3, StepInv DEF WaitDetaches, WaitUnlinks, disp, local
  <2> QED BY <1>2, <2>4, Zenon DEF WaitDetaches, WaitUnlinks, KillKept
<1>3. CASE WaitFrees
  <2>1. PICK z \in Task :
          /\ Free(z)
          /\ pending' = [pending EXCEPT ![z] = {}]
          /\ at' = [at EXCEPT ![z] = "run", ![current_task] = "deliver"]
          /\ reaping' = [reaping EXCEPT ![z] = Nil, ![current_task] = Nil]
          /\ UNCHANGED <<listed, parent>>
    BY <1>3 DEF WaitFrees, OnCpuAt, ReapPoint
  <2>2. /\ pending' \in PendingFn
        /\ \A u \in Task : Exclusive(pending'[u])
        /\ \A u \in Task : u # z /\ SIGKILL \in pending[u] => SIGKILL \in pending'[u]
    BY <2>1, MaskFreed, Zenon
  <2>3. /\ at' \in [Task -> ControlPoint]
        /\ reaping' \in [Task -> Task \cup {Nil}]
        /\ \A u \in Task : at'[u] \in ReapPoint => reaping'[u] \in Task
    BY <2>1 DEF ControlPoint, ReapPoint
  <2>4. IInv' /\ state'[z] = "FREE"
    BY <2>1, <2>2, <2>3, FreeKeeps, StepInv
  <2> QED BY <2>2, <2>4, Zenon DEF KillKept
<1> QED BY <1>1, <1>2, <1>3, Zenon DEF WaitReaps

(* signal_check_and_deliver with interrupts on.                            *)
LEMMA WaitDeliversInv ==
  ASSUME IInv, WaitDelivers
  PROVE  IInv' /\ KillKept
<1> USE Kept
<1>1. /\ current_task \in Task
      /\ at' \in [Task -> ControlPoint]
      /\ \A u \in Task : at'[u] \in ReapPoint => at[u] \in ReapPoint
  BY DEF WaitDelivers, WaitPicksNone, WaitLoads, WaitStores, WaitPicks, WaitReturns,
         Goes, ControlPoint, ReapPoint
<1>2. ASSUME NEW sig \in Signal, WaitPicks(sig)
      PROVE  IInv' /\ KillKept
  <2>1. BitMask(bit', mask')
    <3>1. sig \notin SIG_IMMUTABLE_MASK
      BY <1>2 DEF WaitPicks, Delivered
    <3> QED BY <1>2, <3>1 DEF WaitPicks, BitMask
  <2>2. IInv'
    BY <1>1, <1>2, <2>1, StepInv, Zenon DEF WaitPicks, tree, disp
  <2> QED BY <1>2, <2>2, Zenon DEF WaitPicks, KillKept
<1>3. CASE WaitPicksNone \/ WaitReturns
  <2>1. IInv'
    BY <1>1, <1>3, StepInv, Zenon DEF WaitPicksNone, WaitReturns, tree, disp, local
  <2> QED BY <1>3, <2>1, Zenon DEF WaitPicksNone, WaitReturns, KillKept
<1>4. CASE WaitLoads
  <2>1. BitMask(bit', mask')
    BY <1>4 DEF WaitLoads, BitMask, PendingFn
  <2>2. IInv'
    BY <1>1, <1>4, <2>1, StepInv, Zenon DEF WaitLoads, tree, disp
  <2> QED BY <1>4, <2>2, Zenon DEF WaitLoads, KillKept
<1>5. CASE WaitStores
  <2> DEFINE c == current_task
             M == mask[c] \ {bit[c]}
  <2>1. BitMask(bit', mask')
    BY <1>5 DEF WaitStores, BitMask, Exclusive
  <2>2. /\ M \in SUBSET Signal /\ Exclusive(M)
        /\ SIGKILL \in mask[c] => SIGKILL \in M
    BY <1>1, SignalNumbers DEF BitMask, Exclusive, Signal, NSIG, SIGKILL
  <2>3. pending' = [pending EXCEPT ![c] = M] /\ OnCpuAt("store")
    BY <1>5 DEF WaitStores
  <2> HIDE DEF M
  <2>4. /\ pending' \in PendingFn
        /\ \A u \in Task : pending'[u] = IF u = c THEN M ELSE pending[u]
    BY <2>2, <2>3 DEF PendingFn
  <2>5. \A u \in Task : Exclusive(pending'[u])
    BY <2>2, <2>4
  <2>6. IInv'
    BY <1>1, <1>5, <2>1, <2>4, <2>5, StepInv, Zenon DEF WaitStores, tree, disp
  <2> QED BY <2>2, <2>3, <2>4, <2>6, Zenon DEF KillKept
<1> QED BY <1>2, <1>3, <1>4, <1>5, Zenon DEF WaitDelivers

(* sys_wait, before and after it has slept.                                *)
LEMMA WaitInv == IInv /\ (SysWait \/ WaitResumes) => IInv' /\ KillKept
BY SysWaitReapInv, WaitSleepInv, WaitReapsInv, WaitDeliversInv DEF SysWait, WaitResumes

(* Every step.                                                             *)
LEMMA NextInv == IInv /\ [Next]_vars => IInv' /\ (KillKept \/ UNCHANGED vars)
<1> SUFFICES ASSUME IInv, [Next]_vars
             PROVE  IInv' /\ (KillKept \/ UNCHANGED vars)
  OBVIOUS
<1>1. CASE Next
  BY <1>1, TickInv, ShellInv, ProgramInv, WaitInv DEF Next
<1>2. CASE UNCHANGED vars
  BY <1>2 DEF vars, tree, lap, disp, local, IInv, TypeOK, RunningIsCurrent, OwnKernelStack,
              PidsClaimed, Exclusive
<1> QED BY <1>1, <1>2

(* The invariant holds of every reachable state.                           *)
THEOREM KernelInvariant == Spec => []IInv
<1>1. IInv /\ [Next]_vars => IInv'
  BY NextInv
<1> QED BY InitInv, <1>1, PTL DEF Spec
-----------------------------------------------------------------------------
(* Type correctness: among others, a task_counter below MAX_PROC, a        *)
(* quantum that never underflows and no handler for SIGKILL or SIGSTOP.    *)
THEOREM TypeCorrect == Spec => []TypeOK
<1>1. IInv => TypeOK
  BY DEF IInv
<1> QED BY KernelInvariant, <1>1, PTL

(* schedule leaves TASK_RUNNING to the current task alone.                 *)
THEOREM OnlyCurrentRuns == Spec => []RunningIsCurrent
<1>1. IInv => RunningIsCurrent
  BY DEF IInv
<1> QED BY KernelInvariant, <1>1, PTL

(* kernel_signal_send never leaves a stop pending next to a SIGCONT.       *)
THEOREM NoStopWithCont == Spec => []StopContExclusive
<1>1. IInv => StopContExclusive
  BY DEF IInv, Exclusive, StopContExclusive
<1> QED BY KernelInvariant, <1>1, PTL

(* A Ring 3 task always runs with TSS.esp0 on its own kernel stack.        *)
THEOREM KernelStackIsOwn == Spec => []OwnKernelStack
<1>1. IInv => OwnKernelStack
  BY DEF IInv
<1> QED BY KernelInvariant, <1>1, PTL

(* A pending SIGKILL leaves a task that lives on by one step only: the     *)
(* store of pending_signals &= ~bit in signal_check_and_deliver, when the  *)
(* SIGKILL was sent after the load.                                        *)
THEOREM KillOnlyLostInStore == Spec => KillLostOnlyInStore
<1>1. IInv /\ [Next]_vars =>
        [\A t \in Task : SIGKILL \in pending[t] =>
           \/ SIGKILL \in pending'[t]
           \/ state'[t] \in {"ZOMBIE", "FREE"}
           \/ OnCpuAt("store") /\ t = current_task /\ SIGKILL \notin mask[t]]_vars
  BY NextInv DEF KillKept
<1> QED BY KernelInvariant, <1>1, PTL DEF Spec, KillLostOnlyInStore
=============================================================================
