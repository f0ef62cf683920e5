------------------------------- MODULE Kernel -------------------------------
(***************************************************************************)
(* The process core of hekaOS on its one CPU: the task table and tree of   *)
(* src/task.c, the scheduler of src/sched.c, the signals of src/signal.c,  *)
(* the process system calls of src/cpu/syscall.c and the two interrupts    *)
(* that run on top of whatever task is current (the PIT tick and the       *)
(* keyboard, whose handler runs the shell commands).                       *)
(*                                                                         *)
(* Every entry stub executes cli, so a handler is one atomic step up to    *)
(* the points where the code enables interrupts again: Ring 3, the loops   *)
(* of kernel threads and of PID 0, cpu_park_dying, and everything sys_wait *)
(* does after it has slept once.  Those points are the control points at.  *)
(*                                                                         *)
(* A task is named by its pid.  A pid is claimed once, in increasing order *)
(* (pid_alloc), and a task is always pushed at the head of the scheduler   *)
(* list, so the list is the set listed read in decreasing pid order.  The  *)
(* children of a task are the set of tasks whose parent it is.             *)
(***************************************************************************)
EXTENDS Signals, FiniteSets

CONSTANTS
  MAX_PROC,            (* size of the pid space, include/task.h             *)
  PROC_QUANTUM,        (* ticks per scheduling round, include/sched.h       *)
  LAP_BLOCK_TRIGGER,   (* lap of the scheduler's blocking self-test         *)
  KillTargets,         (* pids kill and the shell's signal are asked for    *)
  KillSigs,            (* signals sent to another task                      *)
  SelfSigs,            (* signals a program sends to itself                 *)
  HandlerSigs,         (* signals whose disposition is changed              *)
  FaultSigs,           (* signals of the CPU faults programs run into       *)
  Nil                  (* the NULL task pointer                             *)

ASSUME KernelAssumption ==
  /\ MAX_PROC \in Nat /\ MAX_PROC >= 4
  /\ PROC_QUANTUM \in Nat \ {0}
  /\ LAP_BLOCK_TRIGGER \in Nat \ {0}
  /\ KillTargets \subseteq 0 .. MAX_PROC - 1
  /\ KillSigs \subseteq Signal
  /\ SelfSigs \subseteq Signal
  /\ HandlerSigs \subseteq Signal
  /\ FaultSigs \subseteq {SIGILL, SIGBUS, SIGFPE, SIGSEGV}
  /\ Nil \notin 0 .. MAX_PROC - 1

Task     == 0 .. MAX_PROC - 1
IDLE     == 0                   \* init_task, the boot context
INIT_PID == 1                   \* init_proc, the Ring 3 reaper
KTHREADD == 2                   \* kthreadd_task, never listed

(* Where a task is when it is interrupted.                                 *)
ControlPoint ==
  {"run",      \* Ring 3, or the body of a kernel thread or of PID 0
   "halt",     \* sys_wait, in the loop around hlt
   "block",    \* sys_wait, scan done, about to store TASK_BLOCKED
   "found",    \* sys_wait, zombie chosen, about to take it off the tree
   "unlink",   \* task_reap, about to take it off the scheduler list
   "free",     \* task_reap, about to free it
   "deliver",  \* sys_wait done, about to read the mask for a signal to deliver
   "clear",    \* signal_check_and_deliver, about to load the mask for the &=
   "store",    \* signal_check_and_deliver, about to store the mask it loaded
   "iret",     \* isr_common_stub, about to return to Ring 3
   "parked"}   \* cpu_park_dying

(* The points at which a task holds on to a zombie it has chosen.          *)
ReapPoint == {"found", "unlink", "free"}

VARIABLES
  task_counter,
  listed,          \* the tasks on task_list_head
  current_task,
  state,
  parent,
  pending,         \* pending_signals
  caught,          \* signals with a handler function in signal_handlers
  ignored,         \* signals with SIG_IGN in signal_handlers
  is_userspace,
  exit_code,
  time_left,
  at,              \* control point
  reaping,         \* sys_wait's local zombie, at a ReapPoint
  bit,             \* signal_check_and_deliver's local bit, 0 if none
  mask,            \* the mask loaded for pending_signals &= ~bit, at "store"
  esp0,            \* whose kernel stack TSS.esp0 points to
  lap_anchor,
  lap_num,
  blocked_marker,
  unblocked_marker,
  hung             \* the CPU is in do_exit's reparenting loop for ever

tree  == <<task_counter, listed, parent, is_userspace>>
lap   == <<lap_anchor, lap_num, blocked_marker, unblocked_marker>>
disp  == <<caught, ignored>>
local == <<reaping, bit, mask>>
vars  == <<tree, lap, disp, current_task, state, pending, exit_code,
           time_left, at, local, esp0, hung>>
-----------------------------------------------------------------------------
(***************************************************************************)
(* Boot: task_init, then exec_init_fn, then interrupts on.                 *)
(***************************************************************************)
Init ==
  /\ task_counter = 2
  /\ listed = {IDLE, INIT_PID}
  /\ current_task = IDLE
  /\ state = [t \in Task |-> CASE t = IDLE     -> "RUNNING"
                               [] t = INIT_PID -> "RUNNABLE"
                               [] t = KTHREADD -> "BLOCKED"
                               [] OTHER        -> "FREE"]
  /\ parent = [t \in Task |-> IF t \in {INIT_PID, KTHREADD} THEN IDLE ELSE Nil]
  /\ pending = [t \in Task |-> {}]
  /\ caught = [t \in Task |-> {}]
  /\ ignored = [t \in Task |-> {}]
  /\ is_userspace = [t \in Task |-> t = INIT_PID]
  /\ exit_code = [t \in Task |-> 0]
  /\ time_left = [t \in Task |-> PROC_QUANTUM]
  /\ at = [t \in Task |-> "run"]
  /\ reaping = [t \in Task |-> Nil]
  /\ bit = [t \in Task |-> 0]
  /\ mask = [t \in Task |-> {}]
  /\ esp0 = Nil
  /\ lap_anchor = Nil
  /\ lap_num = 0
  /\ blocked_marker = FALSE
  /\ unblocked_marker = FALSE
  /\ hung = FALSE
-----------------------------------------------------------------------------
(***************************************************************************)
(* do_exit(t): orphans go to init, which gets a SIGCHLD for them; t turns  *)
(* ZOMBIE; its parent gets a SIGCHLD.  While t is init and has children,   *)
(* each pass of the loop gives the head child back to init: no end.        *)
(***************************************************************************)
Children(t) == {c \in Task : parent[c] = t}

ExitHangs(t) == t = INIT_PID /\ Children(t) # {}

ExitParent_Forget(t) == parent

ExitParent(t) ==
  [c \in Task |-> IF parent[c] = t THEN INIT_PID ELSE parent[c]]

ExitNotifies(t) ==
  {u \in Task : \/ u = parent[t]
                \/ u = INIT_PID /\ u # t /\ Children(t) # {}}

ExitState(t) ==
  [u \in Task |-> IF u = t THEN "ZOMBIE"
                  ELSE IF u \in ExitNotifies(t) THEN SendState(state[u], SIGCHLD)
                  ELSE state[u]]

(* P is what is left pending for t itself.                                 *)
ExitPending(t, P) ==
  [u \in Task |-> IF u = t THEN P
                  ELSE IF u \in ExitNotifies(t) THEN SendPending(pending[u], SIGCHLD)
                  ELSE pending[u]]
-----------------------------------------------------------------------------
(***************************************************************************)
(* kernel_signal_dispatch(t) for a task t in state st with mask P: the     *)
(* signals taken, and the state, mask, parents and exit codes of all the   *)
(* tasks afterwards.                                                       *)
(***************************************************************************)
Dispatching(st) == st \notin {"ZOMBIE", "STOPPED"}

KillSignals(t, st, P) ==
  IF Dispatching(st) THEN DispatchKills(P, caught[t], ignored[t]) ELSE {}

StopSignals(t, st, P) ==
  IF Dispatching(st) THEN DispatchStops(P, caught[t], ignored[t]) ELSE {}

LeftPending(t, st, P) ==
  IF Dispatching(st)
  THEN P \ DispatchTakes(P, caught[t], ignored[t], is_userspace[t])
  ELSE P

Dies(t, st, P) == KillSignals(t, st, P) # {}

DispatchState(t, st, P) ==
  IF Dies(t, st, P)
  THEN ExitState(t)
  ELSE [state EXCEPT ![t] = IF StopSignals(t, st, P) # {} THEN "STOPPED" ELSE st]

DispatchPending(t, st, P) ==
  IF Dies(t, st, P)
  THEN ExitPending(t, LeftPending(t, st, P))
  ELSE [pending EXCEPT ![t] = LeftPending(t, st, P)]

DispatchParent(t, st, P) == IF Dies(t, st, P) THEN ExitParent(t) ELSE parent

DispatchExitCode(t, st, P) ==
  IF Dies(t, st, P)
  THEN [exit_code EXCEPT ![t] = 128 + CHOOSE s \in KillSignals(t, st, P) : TRUE]
  ELSE exit_code

(* signal_check_and_deliver on the way back to task t: only a Ring 3 frame *)
(* is given a handler frame, for one signal.                               *)
Deliver(pd, ca, t, where) ==
  IF is_userspace[t] /\ where = "run"
  THEN [pd EXCEPT ![t] = @ \ Delivered(@, ca[t])]
  ELSE pd
-----------------------------------------------------------------------------
(***************************************************************************)
(* schedule(), called by every tick.                                       *)
(***************************************************************************)
Highest(S) == CHOOSE m \in S : \A x \in S : x <= m

(* pick_next_task: the first RUNNABLE task after the current one on the    *)
(* list, wrapping; the current one when there is no other.                 *)
PickNext_HeadFirst(st) ==
  LET E == {t \in listed \ {current_task} : st[t] = "RUNNABLE"}
  IN  IF E = {} THEN current_task ELSE Highest(E)

PickNext(st) ==
  LET E     == {t \in listed \ {current_task} : st[t] = "RUNNABLE"}
      After == {t \in E : t < current_task}
  IN  CASE E = {}     -> current_task
        [] After # {} -> Highest(After)
        [] OTHER      -> Highest(E)

(* The current task gives up the CPU only if it was RUNNING.               *)
SwitchState_NoDemote(st, next) == [st EXCEPT ![next] = "RUNNING"]

SwitchState_NoPromote(st, next) ==
  IF st[current_task] = "RUNNING"
  THEN [st EXCEPT ![current_task] = "RUNNABLE"] ELSE st

SwitchState(st, next) ==
  [t \in Task |-> CASE t = next -> "RUNNING"
                    [] t = current_task /\ st[t] = "RUNNING" -> "RUNNABLE"
                    [] OTHER -> st[t]]

(* maybe_block_faulty_target and maybe_unblock_faulty_target, called with  *)
(* the lap number n when the lap anchor is switched in.                    *)
FaultyTargets(st, next) ==
  {t \in listed \ {next, lap_anchor, IDLE} : st[t] \in {"RUNNABLE", "RUNNING"}}

LapBlocks(st, next, n) ==
  n = LAP_BLOCK_TRIGGER /\ ~blocked_marker /\ FaultyTargets(st, next) # {}

LapUnblocks(n) == n = LAP_BLOCK_TRIGGER + 1 /\ ~unblocked_marker

LapState(st, next, n) ==
  CASE LapBlocks(st, next, n) ->
         [st EXCEPT ![Highest(FaultyTargets(st, next))] = "BLOCKED"]
    [] LapUnblocks(n) ->
         [t \in Task |-> IF t \in listed /\ st[t] = "BLOCKED"
                         THEN "RUNNABLE" ELSE st[t]]
    [] OTHER -> st

(* No test of lap_num tells the values above this one apart (short of a    *)
(* wrap after 2^32 laps).                                                  *)
LapCap == LAP_BLOCK_TRIGGER + 2

LapAccount(st, next) ==
  LET n == IF lap_num < LapCap THEN lap_num + 1 ELSE LapCap
  IN  IF lap_anchor = next
      THEN /\ lap_num' = n
           /\ state' = LapState(st, next, n)
           /\ blocked_marker' = (blocked_marker \/ LapBlocks(st, next, n))
           /\ unblocked_marker' = (unblocked_marker \/ LapUnblocks(n))
           /\ UNCHANGED lap_anchor
      ELSE /\ lap_anchor' = IF lap_anchor = Nil THEN next ELSE lap_anchor
           /\ state' = st
           /\ UNCHANGED <<lap_num, blocked_marker, unblocked_marker>>

(* The tick drains the current task's signals first: st and pd are the     *)
(* states and masks that leaves.                                           *)
TickDies == Dies(current_task, state[current_task], pending[current_task])

TickDrains ==
  /\ ~hung
  /\ ~ (TickDies /\ ExitHangs(current_task))
  /\ parent' = DispatchParent(current_task, state[current_task], pending[current_task])
  /\ exit_code' = DispatchExitCode(current_task, state[current_task], pending[current_task])
  /\ UNCHANGED <<task_counter, listed, is_userspace, disp, at, local, hung>>

QuantumLeft(st) == st[current_task] = "RUNNING" /\ time_left[current_task] > 1

TickKeep(st, pd) ==
  /\ QuantumLeft(st)
  /\ time_left' = [time_left EXCEPT ![current_task] = @ - 1]
  /\ state' = st
  /\ pending' = Deliver(pd, caught, current_task, at[current_task])
  /\ UNCHANGED <<lap, current_task, esp0>>

Refill == [time_left EXCEPT ![current_task] = PROC_QUANTUM]

TickAlone(st, pd) ==
  /\ ~QuantumLeft(st)
  /\ PickNext(st) = current_task
  /\ time_left' = Refill
  /\ state' = st
  /\ pending' = Deliver(pd, caught, current_task, at[current_task])
  /\ UNCHANGED <<lap, current_task, esp0>>

(* schedule() sets TSS.esp0 for a Ring 3 task; irq_common_stub changes     *)
(* stacks and page directory, and delivers on the frame it switched to.    *)
Esp0After_First(next) == IF is_userspace[next] /\ esp0 = Nil THEN next ELSE esp0

Esp0After(next) == IF is_userspace[next] THEN next ELSE esp0

TickSwitch(st, pd) ==
  LET next == PickNext(st)
  IN  /\ ~QuantumLeft(st)
      /\ next # current_task
      /\ time_left' = Refill
      /\ current_task' = next
      /\ LapAccount(SwitchState(st, next), next)
      /\ esp0' = Esp0After(next)
      /\ pending' = Deliver(pd, caught, next, at[next])

TickHang ==
  /\ ~hung
  /\ TickDies
  /\ ExitHangs(current_task)
  /\ hung' = TRUE
  /\ UNCHANGED <<tree, lap, disp, current_task, state, pending, exit_code,
                 time_left, at, local, esp0>>

Tick ==
  LET c  == current_task
      st == DispatchState(c, state[c], pending[c])
      pd == DispatchPending(c, state[c], pending[c])
  IN  \/ TickHang
      \/ TickDrains /\ (TickKeep(st, pd) \/ TickAlone(st, pd) \/ TickSwitch(st, pd))
-----------------------------------------------------------------------------
(***************************************************************************)
(* New tasks.  pid_alloc claims the next pid; exec_fn, spawn_user and      *)
(* task_fork push the task at the list head, RUNNABLE.  A failed           *)
(* allocation rolls the claim back and leaves this state as it was.        *)
(* lap_anchor is never cleared: once its task is reaped, kmalloc may hand  *)
(* the same descriptor to the new task.                                    *)
(***************************************************************************)
PidAlloc_Full == TRUE

PidAlloc == task_counter < MAX_PROC - 1

NewPid == task_counter + 1

Create(par, user) ==
  /\ ~hung
  /\ PidAlloc
  /\ task_counter' = NewPid
  /\ listed' = listed \cup {NewPid}
  /\ parent' = [parent EXCEPT ![NewPid] = par]
  /\ is_userspace' = [is_userspace EXCEPT ![NewPid] = user]
  /\ state' = [state EXCEPT ![NewPid] = "RUNNABLE"]
  /\ \/ UNCHANGED lap_anchor
     \/ /\ lap_anchor # Nil
        /\ state[lap_anchor] = "FREE"
        /\ lap_anchor' = NewPid
  /\ UNCHANGED <<current_task, exit_code, time_left, at, local, esp0, hung,
                 lap_num, blocked_marker, unblocked_marker>>

(* shell_spawnkthread *)
ShellSpawnKthread ==
  /\ Create(KTHREADD, FALSE)
  /\ pending' = Deliver(pending, caught, current_task, at[current_task])
  /\ UNCHANGED disp

(* shell_spawnuser: spawn_user tests task_counter after exec_user_fn has   *)
(* already claimed the pid.                                                *)
ShellSpawnUser ==
  /\ NewPid < MAX_PROC - 1
  /\ Create(INIT_PID, TRUE)
  /\ pending' = Deliver(pending, caught, current_task, at[current_task])
  /\ UNCHANGED disp
-----------------------------------------------------------------------------
(***************************************************************************)
(* The shell commands kill and signal, run by the keyboard interrupt.      *)
(***************************************************************************)
ShellKill(t, sig) ==
  /\ ~hung
  /\ t \in listed
  /\ state' = [state EXCEPT ![t] = SendState(@, sig)]
  /\ pending' = Deliver([pending EXCEPT ![t] = SendPending(@, sig)],
                        caught, current_task, at[current_task])
  /\ UNCHANGED <<tree, lap, disp, current_task, exit_code, time_left, at,
                 local, esp0, hung>>

(* kernel_signal_register: h is SIG_DFL, SIG_IGN or a function.            *)
Register(t, sig, h) ==
  /\ sig \notin SIG_IMMUTABLE_MASK
  /\ caught' = [caught EXCEPT ![t] = IF h = "FN" THEN @ \cup {sig} ELSE @ \ {sig}]
  /\ ignored' = [ignored EXCEPT ![t] = IF h = "IGN" THEN @ \cup {sig} ELSE @ \ {sig}]

(* shell_signal gives a Ring 3 task the address of uhandler, which is no   *)
(* code in init's image; what init would execute there is left out.        *)
ShellSignal(t, sig) ==
  /\ ~hung
  /\ t \in listed \ {INIT_PID}
  /\ Register(t, sig, "FN")
  /\ pending' = Deliver(pending, caught', current_task, at[current_task])
  /\ UNCHANGED <<tree, lap, current_task, state, exit_code, time_left, at,
                 local, esp0, hung>>
-----------------------------------------------------------------------------
(***************************************************************************)
(* System calls of the current Ring 3 task.  Nothing in syscall_dispatch   *)
(* looks at the caller's state, so a task that is ZOMBIE or STOPPED but    *)
(* still on the CPU makes them too.  init (task_ins/init_us.s) only waits. *)
(***************************************************************************)
InRing3 == ~hung /\ is_userspace[current_task] /\ at[current_task] = "run"

InProgram == InRing3 /\ current_task # INIT_PID

SysExit ==
  /\ InProgram
  /\ state' = ExitState(current_task)
  /\ pending' = ExitPending(current_task, pending[current_task])
  /\ parent' = ExitParent(current_task)
  /\ exit_code' = [exit_code EXCEPT ![current_task] = 0]
  /\ at' = [at EXCEPT ![current_task] = "parked"]
  /\ UNCHANGED <<task_counter, listed, is_userspace, lap, disp, current_task,
                 time_left, local, esp0, hung>>

SysFork ==
  /\ InProgram
  /\ Create(current_task, TRUE)
  /\ caught' = [caught EXCEPT ![NewPid] = caught[current_task]]
  /\ ignored' = [ignored EXCEPT ![NewPid] = ignored[current_task]]
  /\ pending' = Deliver(pending, caught', current_task, "run")

SysKillOther(t, sig) ==
  /\ InProgram
  /\ t \in listed \ {current_task}
  /\ state' = [state EXCEPT ![t] = SendState(@, sig)]
  /\ pending' = Deliver([pending EXCEPT ![t] = SendPending(@, sig)],
                        caught, current_task, "run")
  /\ UNCHANGED <<tree, lap, disp, current_task, exit_code, time_left, at,
                 local, esp0, hung>>

(* kill(self) dispatches at once and then returns to Ring 3, whatever the  *)
(* dispatch did to the task.                                               *)
SysKillSelf(sig) ==
  LET c  == current_task
      st == SendState(state[c], sig)
      P  == SendPending(pending[c], sig)
  IN  /\ InProgram
      /\ state' = DispatchState(c, st, P)
      /\ pending' = Deliver(DispatchPending(c, st, P), caught, c, "run")
      /\ parent' = DispatchParent(c, st, P)
      /\ exit_code' = DispatchExitCode(c, st, P)
      /\ UNCHANGED <<task_counter, listed, is_userspace, lap, disp,
                     current_task, time_left, at, local, esp0, hung>>

SysSignal(sig, h) ==
  /\ InProgram
  /\ Register(current_task, sig, h)
  /\ pending' = Deliver(pending, caught', current_task, "run")
  /\ UNCHANGED <<tree, lap, current_task, state, exit_code, time_left, at,
                 local, esp0, hung>>

(* Every other return from a system call delivers one more caught signal.  *)
SysReturn ==
  /\ InRing3
  /\ pending' = Deliver(pending, caught, current_task, "run")
  /\ pending' # pending
  /\ UNCHANGED <<tree, lap, disp, current_task, state, exit_code, time_left,
                 at, local, esp0, hung>>

(* kill_user_on_fault: the signal is sent and the CPU parked in Ring 0.    *)
Fault_NoSend(sig) ==
  /\ InProgram
  /\ at' = [at EXCEPT ![current_task] = "parked"]
  /\ UNCHANGED <<tree, lap, disp, current_task, state, pending, exit_code,
                 time_left, local, esp0, hung>>

Fault(sig) ==
  /\ InProgram
  /\ state' = [state EXCEPT ![current_task] = SendState(@, sig)]
  /\ pending' = [pending EXCEPT ![current_task] = SendPending(@, sig)]
  /\ at' = [at EXCEPT ![current_task] = "parked"]
  /\ UNCHANGED <<tree, lap, disp, current_task, exit_code, time_left, local,
                 esp0, hung>>
-----------------------------------------------------------------------------
(***************************************************************************)
(* sys_wait.  A call that finds a zombie, or has none and sleeps, does so  *)
(* with interrupts off.  Once it has slept, interrupts stay on until the   *)
(* iret: it can be preempted between the scan and the store of             *)
(* TASK_BLOCKED, between the scan and task_reap, between the parts of      *)
(* task_reap, and inside the signal_check_and_deliver that isr_common_stub *)
(* calls next.                                                             *)
(***************************************************************************)
Zombies_Any(t) == {z \in listed : state[z] = "ZOMBIE"}

Zombies(t) == {z \in Children(t) : state[z] = "ZOMBIE"}

(* task_remove_child *)
Detached(z) == [parent EXCEPT ![z] = Nil]

(* The rest of task_reap, off tree and list: free the kernel stack, the    *)
(* buffers, the address space and the descriptor.                          *)
Free(z) ==
  /\ state' = [state EXCEPT ![z] = "FREE"]
  /\ caught' = [caught EXCEPT ![z] = {}]
  /\ ignored' = [ignored EXCEPT ![z] = {}]
  /\ is_userspace' = [is_userspace EXCEPT ![z] = FALSE]
  /\ exit_code' = [exit_code EXCEPT ![z] = 0]
  /\ bit' = [bit EXCEPT ![z] = 0]
  /\ mask' = [mask EXCEPT ![z] = {}]
  /\ UNCHANGED <<task_counter, lap, current_task, time_left, esp0, hung>>

SysWaitReap(z) ==
  /\ InRing3
  /\ z \in Zombies(current_task)
  /\ parent' = Detached(z)
  /\ listed' = listed \ {z}
  /\ Free(z)
  /\ pending' = Deliver([pending EXCEPT ![z] = {}], caught, current_task, "run")
  /\ at' = [at EXCEPT ![z] = "run"]
  /\ reaping' = [reaping EXCEPT ![z] = Nil]

(* -1 without children, but init waits for the orphans it will be given.   *)
MayWait_Always == TRUE

MayWait == Children(current_task) # {} \/ current_task = INIT_PID

SysWaitSleep ==
  /\ InRing3
  /\ MayWait
  /\ Zombies(current_task) = {}
  /\ state' = [state EXCEPT ![current_task] = "BLOCKED"]
  /\ at' = [at EXCEPT ![current_task] = "halt"]
  /\ UNCHANGED <<tree, lap, disp, current_task, pending, exit_code, time_left,
                 local, esp0, hung>>

OnCpuAt(point) == ~hung /\ at[current_task] = point

Goes(point) == at' = [at EXCEPT ![current_task] = point]

Woken == OnCpuAt("halt") /\ state[current_task] # "BLOCKED"

WaitFindsNone ==
  /\ Woken
  /\ Zombies(current_task) = {}
  /\ Goes("block")
  /\ UNCHANGED <<tree, lap, disp, current_task, state, pending, exit_code,
                 time_left, local, esp0, hung>>

WaitBlocks ==
  /\ OnCpuAt("block")
  /\ state' = [state EXCEPT ![current_task] = "BLOCKED"]
  /\ Goes("halt")
  /\ UNCHANGED <<tree, lap, disp, current_task, pending, exit_code, time_left,
                 local, esp0, hung>>

WaitFinds(z) ==
  /\ Woken
  /\ z \in Zombies(current_task)
  /\ reaping' = [reaping EXCEPT ![current_task] = z]
  /\ Goes("found")
  /\ UNCHANGED <<tree, lap, disp, current_task, state, pending, exit_code,
                 time_left, bit, mask, esp0, hung>>

WaitDetaches ==
  /\ OnCpuAt("found")
  /\ parent' = Detached(reaping[current_task])
  /\ Goes("unlink")
  /\ UNCHANGED <<task_counter, listed, is_userspace, lap, disp, current_task,
                 state, pending, exit_code, time_left, local, esp0, hung>>

WaitUnlinks ==
  /\ OnCpuAt("unlink")
  /\ listed' = listed \ {reaping[current_task]}
  /\ Goes("free")
  /\ UNCHANGED <<task_counter, parent, is_userspace, lap, disp, current_task,
                 state, pending, exit_code, time_left, local, esp0, hung>>

WaitFrees ==
  LET z == reaping[current_task]
  IN  /\ OnCpuAt("free")
      /\ Free(z)
      /\ pending' = [pending EXCEPT ![z] = {}]
      /\ at' = [at EXCEPT ![z] = "run", ![current_task] = "deliver"]
      /\ reaping' = [reaping EXCEPT ![z] = Nil, ![current_task] = Nil]
      /\ UNCHANGED <<listed, parent>>

(* signal_check_and_deliver picks its signal in a copy of the mask, and    *)
(* then clears the bit with a load and a store of the mask itself.         *)
WaitPicks(sig) ==
  /\ OnCpuAt("deliver")
  /\ sig \in Delivered(pending[current_task], caught[current_task])
  /\ bit' = [bit EXCEPT ![current_task] = sig]
  /\ Goes("clear")
  /\ UNCHANGED <<tree, lap, disp, current_task, state, pending, exit_code,
                 time_left, reaping, mask, esp0, hung>>

WaitPicksNone ==
  /\ OnCpuAt("deliver")
  /\ Delivered(pending[current_task], caught[current_task]) = {}
  /\ Goes("iret")
  /\ UNCHANGED <<tree, lap, disp, current_task, state, pending, exit_code,
                 time_left, local, esp0, hung>>

WaitLoads ==
  /\ OnCpuAt("clear")
  /\ mask' = [mask EXCEPT ![current_task] = pending[current_task]]
  /\ Goes("store")
  /\ UNCHANGED <<tree, lap, disp, current_task, state, pending, exit_code,
                 time_left, reaping, bit, esp0, hung>>

WaitStores_All ==
  /\ OnCpuAt("store")
  /\ pending' = [pending EXCEPT ![current_task] = {}]
  /\ bit' = [bit EXCEPT ![current_task] = 0]
  /\ mask' = [mask EXCEPT ![current_task] = {}]
  /\ Goes("iret")
  /\ UNCHANGED <<tree, lap, disp, current_task, state, exit_code, time_left,
                 reaping, esp0, hung>>

WaitStores ==
  /\ OnCpuAt("store")
  /\ pending' = [pending EXCEPT ![current_task] = mask[current_task] \ {bit[current_task]}]
  /\ bit' = [bit EXCEPT ![current_task] = 0]
  /\ mask' = [mask EXCEPT ![current_task] = {}]
  /\ Goes("iret")
  /\ UNCHANGED <<tree, lap, disp, current_task, state, exit_code, time_left,
                 reaping, esp0, hung>>

(* A signal that came after the mask was read stays pending into Ring 3:   *)
(* the interrupt that sent it returned to a Ring 0 frame.                  *)
WaitReturns ==
  /\ OnCpuAt("iret")
  /\ Goes("run")
  /\ UNCHANGED <<tree, lap, disp, current_task, state, pending, exit_code,
                 time_left, local, esp0, hung>>

SysWait == SysWaitSleep \/ \E z \in Task : SysWaitReap(z)

WaitReaps == WaitDetaches \/ WaitUnlinks \/ WaitFrees
             \/ \E z \in Task : WaitFinds(z)

WaitDelivers == WaitPicksNone \/ WaitLoads \/ WaitStores \/ WaitReturns
                \/ \E sig \in Signal : WaitPicks(sig)

WaitResumes == WaitFindsNone \/ WaitBlocks \/ WaitReaps \/ WaitDelivers
-----------------------------------------------------------------------------
Shell ==
  \/ ShellSpawnKthread
  \/ ShellSpawnUser
  \/ \E t \in KillTargets, sig \in KillSigs : ShellKill(t, sig)
  \/ \E t \in KillTargets, sig \in HandlerSigs : ShellSignal(t, sig)

Program ==
  \/ SysExit
  \/ SysFork
  \/ \E t \in KillTargets, sig \in KillSigs : SysKillOther(t, sig)
  \/ \E sig \in SelfSigs : SysKillSelf(sig)
  \/ \E sig \in HandlerSigs, h \in {"DFL", "IGN", "FN"} : SysSignal(sig, h)
  \/ \E sig \in FaultSigs : Fault(sig)
  \/ SysReturn

Next == Tick \/ Shell \/ Program \/ SysWait \/ WaitResumes

Spec == Init /\ [][Next]_vars

(* The PIT keeps ticking.                                                  *)
TickSpec == Spec /\ WF_vars(Tick)

(***************************************************************************)
(* A task that is given the CPU again and again also gets through the few  *)
(* instructions between two control points of sys_wait, though a tick may  *)
(* come first any finite number of times, and init, whose program is a     *)
(* loop around wait (task_ins/init_us.s), calls it again.                  *)
(***************************************************************************)
FairSpec ==
  /\ TickSpec
  /\ \A t \in Task : SF_vars(current_task = t /\ WaitResumes)
  /\ SF_vars(current_task = INIT_PID /\ SysWait)
-----------------------------------------------------------------------------
TypeOK ==
  /\ task_counter \in 2 .. MAX_PROC - 1
  /\ listed \subseteq Task
  /\ current_task \in Task
  /\ state \in [Task -> TaskState]
  /\ parent \in [Task -> Task \cup {Nil}]
  /\ pending \in [Task -> SUBSET Signal]
  /\ caught \in [Task -> SUBSET (Signal \ SIG_IMMUTABLE_MASK)]
  /\ ignored \in [Task -> SUBSET (Signal \ SIG_IMMUTABLE_MASK)]
  /\ is_userspace \in [Task -> BOOLEAN]
  /\ exit_code \in [Task -> 0 .. 128 + NSIG - 1]
  /\ time_left \in [Task -> 1 .. PROC_QUANTUM]
  /\ at \in [Task -> ControlPoint]
  /\ reaping \in [Task -> Task \cup {Nil}]
  /\ \A t \in Task : at[t] \in ReapPoint => reaping[t] \in Task
  /\ bit \in [Task -> {0} \cup (Signal \ SIG_IMMUTABLE_MASK)]
  /\ mask \in [Task -> SUBSET Signal]
  /\ esp0 \in Task \cup {Nil}
  /\ lap_anchor \in Task \cup {Nil}
  /\ lap_num \in 0 .. LapCap
  /\ blocked_marker \in BOOLEAN
  /\ unblocked_marker \in BOOLEAN
  /\ hung \in BOOLEAN

(* schedule demotes the task it switches away from, and nothing else makes *)
(* a task RUNNING: TASK_RUNNING, "currently executing on the CPU", is only *)
(* ever true of the current task.                                          *)
RunningIsCurrent ==
  \A t \in Task : state[t] = "RUNNING" => t = current_task

(* kernel_signal_send: a stop signal discards a pending SIGCONT and the    *)
(* other way round, so a task never has both to act on, whatever           *)
(* interleaving of senders, ticks and deliveries led there.                *)
StopContExclusive ==
  \A t \in Task : SIGCONT \in pending[t] => pending[t] \cap SIG_STOP_MASK = {}

(* task_reap runs with interrupts on once sys_wait has slept: from the     *)
(* scan that chose it to the kfree, the child of a live reaper stays a     *)
(* zombie that nobody else has freed, and no other live task is reaping    *)
(* it, whoever else waits, exits, is stopped or is killed meanwhile.  It   *)
(* has a parent until it is taken off the tree, and not after.             *)
Reaps(t) == at[t] \in ReapPoint /\ state[t] # "ZOMBIE"

ReapedOnce ==
  \A t \in Task : Reaps(t) =>
    /\ state[reaping[t]] = "ZOMBIE"
    /\ parent[reaping[t]] = IF at[t] = "found" THEN t ELSE Nil
    /\ \A u \in Task \ {t} : Reaps(u) => reaping[u] # reaping[t]

(* Before a Ring 3 task runs, schedule has pointed TSS.esp0 at that task's *)
(* own kernel stack: the next trap cannot land on another task's stack.    *)
OwnKernelStack == is_userspace[current_task] => esp0 = current_task

(* sys_wait returns -1 to a task with no children: a task other than init  *)
(* that sleeps in sys_wait, or is about to, always has a child, alive or a *)
(* zombie, so that there is somebody to wait for.                          *)
WaiterHasChild ==
  \A t \in Task \ {INIT_PID} :
    at[t] \in {"halt", "block"} /\ state[t] # "ZOMBIE" => Children(t) # {}

(* do_exit hands the children of a dying task to init before the parent    *)
(* can reap it: no task keeps a pointer to a freed parent.                 *)
ParentNotFreed ==
  \A t \in listed : parent[t] # Nil => state[parent[t]] # "FREE"

(* SIGKILL is an "unconditional kill": once pending it stays pending until *)
(* the task is a zombie or gone, whatever signals, handlers, stops, waits  *)
(* and deliveries come next.                                               *)
KillSticks ==
  [][\A t \in Task : SIGKILL \in pending[t] =>
       SIGKILL \in pending'[t] \/ state'[t] \in {"ZOMBIE", "FREE"}]_vars

(* The one way for a pending SIGKILL to vanish from a task that lives on:  *)
(* it was sent after signal_check_and_deliver, with interrupts on, had     *)
(* loaded the mask for pending_signals &= ~bit and before it stored it.    *)
(* No other step of a sender, a handler, a stop, a wait, a tick or a       *)
(* delivery takes it away.                                                 *)
KillLostOnlyInStore ==
  [][\A t \in Task : SIGKILL \in pending[t] =>
       \/ SIGKILL \in pending'[t]
       \/ state'[t] \in {"ZOMBIE", "FREE"}
       \/ OnCpuAt("store") /\ t = current_task /\ SIGKILL \notin mask[t]]_vars

(* TASK_ZOMBIE means terminated: a zombie stays one until it is reaped,    *)
(* and its exit code is the one it died with.                              *)
ZombieIsFinal ==
  [][\A t \in Task : state[t] = "ZOMBIE" =>
       \/ state'[t] = "FREE"
       \/ state'[t] = "ZOMBIE" /\ exit_code'[t] = exit_code[t]]_vars

(* TASK_STOPPED is left only through SIGCONT or by being killed.           *)
StoppedUntilCont ==
  [][\A t \in Task : state[t] = "STOPPED" /\ state'[t] # "STOPPED" =>
       state'[t] = "RUNNABLE" /\ {SIGCONT, SIGKILL} \cap pending'[t] # {}]_vars

(* "the on-CPU task must always be in state RUNNING": whatever a tick      *)
(* finds, it leaves the CPU to a RUNNING task.                             *)
TickLeavesRunning ==
  [][Tick => state'[current_task'] = "RUNNING" \/ hung']_vars

(* A zombie on the list can be collected: its parent is alive, or somebody *)
(* alive is in the middle of reaping it.                                   *)
ZombieCollectable ==
  \A z \in listed : state[z] = "ZOMBIE" =>
    \E t \in Task : /\ state[t] \notin {"ZOMBIE", "FREE"}
                    /\ \/ parent[z] = t
                       \/ at[t] \in ReapPoint /\ reaping[t] = z

(* do_exit terminates: its loop, which gives every child of the dying task *)
(* to init, runs out of children.                                          *)
ExitTerminates == ~hung

(* Round robin (pick_next_task): a RUNNABLE task on the list gets the CPU, *)
(* or stops being RUNNABLE, however the others fork, wait, fault and exit. *)
NoStarvation ==
  \A t \in Task :
    (t \in listed /\ state[t] = "RUNNABLE") ~>
      (hung \/ t \notin listed \/ state[t] # "RUNNABLE" \/ current_task = t)

(* SIGKILL is an "unconditional kill": a listed task that has it pending   *)
(* ends up a zombie, whatever state the scheduler has left the task in.    *)
KillKills ==
  \A t \in Task : (t \in listed /\ SIGKILL \in pending[t]) ~>
      (state[t] \in {"ZOMBIE", "FREE"} \/ hung)

(* cpu_park_dying: "the current task is terminating".  A task that faulted *)
(* or exited is parked there, and only its death takes it out again.       *)
ParkedDies ==
  \A t \in Task : (at[t] = "parked") ~> (state[t] \in {"ZOMBIE", "FREE"} \/ hung)

(* init reaps what it is given: its loop around sys_wait collects every    *)
(* zombie child, whenever the child died and the SIGCHLD came.             *)
InitReaps ==
  \A t \in Task : (parent[t] = INIT_PID /\ state[t] = "ZOMBIE") ~>
      (state[t] = "FREE" \/ hung)
=============================================================================
