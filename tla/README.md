# Verification of hekaOS

TLA+ models of the hekaOS kernel, checked with TLC on small instances and, where a
statement should hold for every size, proved with TLAPS. `PROJECT.json` lists the
components, the runs, the source lines behind every definition, the hazards and the
theorems.

## The system

hekaOS is a 32-bit x86 kernel for one CPU.

| Part | Source | What it does |
| --- | --- | --- |
| task table | `src/task.c`, `include/task.h` | task descriptors, the scheduler list, the parent/child tree, spawn, fork, exit, reap, per-task log and input rings |
| scheduler | `src/sched.c`, `src/drivers/pit.c` | round robin with a quantum, run by every PIT tick; TSS.esp0; a self-test that blocks a task on lap 3 |
| signals | `src/signal.c`, `include/signal.h` | send, register, dispatch with default actions, delivery on a Ring 3 frame, sigreturn |
| system calls | `src/cpu/syscall.c` | exit, fork, wait, kill, signal, sigreturn, read, write, getuid |
| interrupts | `src/cpu/isr.c`, `src/cpu/isr_stubs.s`, `idt.c` | exceptions, the tick, the keyboard, the stack and CR3 switch |
| shell | `src/kernel.c` | line editor and commands, run inside the keyboard interrupt |
| programs | `src/task_ins/` | init (PID 1), test programs and kernel threads |
| memory | `src/memory/`, `src/cpu/paging.c` | frame bitmap, page tables, kernel heap, kmalloc, vmalloc |
| output | `src/drivers/vga.c`, `src/klib/printk.c` | terminal with scrollback, kernel log ring |
| setup | `gdt.c`, `tss.c`, `pic.c`, `boot.s` | tables and controllers, written once |

Everything concurrent in the kernel goes through interrupts. Every entry stub clears
IF, so a handler is atomic until the code enables interrupts again. It does so in
Ring 3, in kernel threads and PID 0, in `cpu_park_dying`, and in `sys_wait`: after its
first `enable_interrupts` the rest of that call, its scans, its stores to `state`,
`task_reap` and the `signal_check_and_deliver` that `isr_common_stub` calls before the
`iret` included, can be preempted anywhere.

## Modules

`Signals` holds the rules of `signal.c` as operators on one state and one mask: what a
send does (`SendState`, `SendPending`) and what one pass of `kernel_signal_dispatch`
takes, kills with or stops for (`DispatchTakes`, `DispatchKills`, `DispatchStops`, in
closed form), and which signal a return to Ring 3 delivers (`Delivered`).

`SignalDispatch` is the loop of `kernel_signal_dispatch` itself, one action per branch.
`PassIsClosedForm` says that it computes the closed form of `Signals`.

`Kernel` composes the task table, the scheduler, the signals, the process system calls,
the tick and the shell commands. One variable per field or global of the code; `at` is
the control point of each task.

| Action | Code |
| --- | --- |
| `TickKeep`, `TickAlone`, `TickSwitch` | `timer_tick`, `schedule`, the end of `irq_common_stub`; each first drains the current task's signals |
| `TickHang` | a tick whose drain enters the endless loop of `do_exit(init)` |
| `ShellSpawnKthread`, `ShellSpawnUser`, `ShellKill`, `ShellSignal` | the commands `spawntsk`, `kill`, `signal` |
| `SysExit`, `SysFork`, `SysKillOther`, `SysKillSelf`, `SysSignal` | the system calls, with the delivery on the way out |
| `SysReturn` | any other system call: only its delivery matters here |
| `Fault` | `kill_user_on_fault` |
| `SysWaitReap`, `SysWaitSleep` | `sys_wait` with interrupts off, up to its first sleep |
| `WaitFindsNone`, `WaitBlocks` | `sys_wait` after a sleep: a scan without a zombie, then the store of `TASK_BLOCKED` |
| `WaitFinds`, `WaitDetaches`, `WaitUnlinks`, `WaitFrees` | a scan that finds one, then `task_reap`: off the tree, off the list, freed |
| `WaitPicks`, `WaitPicksNone`, `WaitLoads`, `WaitStores`, `WaitReturns` | `signal_check_and_deliver` with interrupts on: the signal is picked in a copy of the mask, and `pending_signals &= ~bit` is a load and a store; what comes before the `iret` stays pending into Ring 3 |

Every other return to Ring 3 runs `signal_check_and_deliver` with interrupts off and is
the operator `Deliver` inside the action that returns.

Abstractions of `Kernel`:

- A task is its pid. Pids are claimed in increasing order and never reused, and a task is
  always pushed at the head of the list, so the list is the set `listed` in decreasing
  order. The children of a task are the tasks whose `parent` it is. Each of the two
  pointer walks, the one of `task_remove_child` and the unlinking in `task_reap`, is one
  step, as is the freeing at the end of `task_reap`; interrupts come between them. What
  an interrupt does inside a walk is listed as a hazard and not modelled. `sys_wait`
  stores the status through the caller's pointer in the step that finds the zombie.
- `pending_signals &= ~bit` is two steps. The build has no `-O` (`Makefile:41`), and no
  code depends on the compiler making it one instruction.
- The status given to `exit` is 0. `lap_num` stops at `LapCap`: the code compares it only
  with 3 and 4.
- A failed allocation rolls a spawn back and leaves the modelled state alone, so it is a
  stutter. That frames are not all given back is a hazard for the paging module.
- A freed descriptor is `FREE`. After a violation of `ParentNotFreed` the code would
  read freed memory; the model goes on with the `FREE` entry. `lap_anchor` may come to
  name a new task when its own was freed, as `kmalloc` may reuse the descriptor.
- `ShellSignal` leaves init out: the handler address it installs is no code of init's.
- Programs make every sequence of system calls and faults, within the signals and targets
  of the configuration.

## Runs

The instances of `Kernel` have `MAX_PROC = 5`: PID 0, init and kthreadd, one program or
kernel thread from the shell, and one task more, forked or spawned. `spawn_user` refuses
the last pid, so with 4 there would be no program at all. Two dynamic tasks and init give
a child, a parent that waits, dies or is killed, and a reaper. `kernel_lifecycle` has
`MAX_PROC = 6`: with three dynamic tasks init and a program can be inside `task_reap` at
the same time, which `ReapedOnce` is about. `LAP_BLOCK_TRIGGER` is the code's 3 in the
violation runs and 1 in the passing ones, where only that the self-test happens matters.
`PROC_QUANTUM` is 2 where a tick inside a quantum matters and 1 elsewhere.

| Run | Constants | Shows |
| --- | --- | --- |
| `kernel_lifecycle` | `MAX_PROC` 6, kill 4 with SIGKILL; SIGFPE faults; quantum 2 | no double reap, TSS.esp0 right, no waiter without a child, no dangling parent, zombies final, ticks leave a RUNNING task |
| `kernel_signals` | SIGKILL, SIGCONT, SIGTSTP to task 3; SIGTSTP caught, ignored or default | stop and continue exclusive, stops end only by SIGCONT or a kill, a kill is lost in one way only |
| `kernel_progress` | SIGFPE faults, SIGKILL to init, a harmless self-signal; weak fairness of the tick | no starvation; a parked task dies; only the current task is RUNNING. The CPU can hang in `do_exit(init)`, so deadlock is not an error |
| `signal_dispatch` | masks over {8, 9, 10, 19, 20} | the loop ends and equals the closed form. Signals that terminate, stop, are immutable or do nothing are all there. The loop ends, so deadlock is not an error |

`kernel_lifecycle` and `kernel_signals` leave out the inputs of the findings below: a
program signalling itself and a kill of PID 0 or init. `kernel_progress` leaves out a
kill of PID 0, fatal and stopping self-signals and handlers for fault signals.
The interleaving of `kill_lost` happens in `kernel_signals` too, with SIGTSTP for the
caught signal; `KillLostOnlyInStore` says that there is no other way to lose a SIGKILL.

Fairness. `TickSpec` assumes only that the PIT keeps ticking, which `pit_init` arranges.
`FairSpec` adds that a task given the CPU again and again gets through the few
instructions between two points of `sys_wait` (strong fairness, as a tick may come first
any number of times), and that init, a loop around wait, calls it again. Nothing is
assumed of other programs or of the user.

## Findings

Each is a run in which TLC finds the behaviour.

| Run | What happens |
| --- | --- |
| `self_kill_zombie` | `kill(self, SIGKILL)` returns to Ring 3; an `exit` before the next tick replaces the zombie's exit code 137 by its own |
| `kill_idle` | `kill 0 9` from the shell, then init sleeps in `wait`: with no idle task left, `schedule` keeps the BLOCKED init on the CPU |
| `kill_init` | `kill 1 9` while init has a child: the loop in `do_exit` never ends |
| `kill_lost` | a SIGKILL sent between the load and the store of `pending_signals &= ~bit`, on the way out of a `wait` that slept, is overwritten |
| `kill_reaper` | a waiter killed inside `task_reap` leaves a zombie with no parent |
| `fault_handler` | a fault whose signal is caught or ignored parks its task for ever |
| `kill_blocked` | the lap self-test blocks a task with SIGKILL pending; the lap anchor, init, sleeps in `wait`, so no lap ends and nothing unblocks the task |
| `init_wait` | init loses a wake-up between its scan and its store of BLOCKED |

`self_kill_zombie` has relatives with the same cause, the return to Ring 3 of a task that
`kill(self)` has just ended or stopped, which no run checks: a STOPPED task that exits or
sleeps in `wait` leaves that state without SIGCONT, and a dead program can fork a child,
whose parent is then freed, or, with such a child, sleep in `wait`, which turns ZOMBIE
into BLOCKED.

## Proofs

`KernelProofs` proves, for every `MAX_PROC >= 4`, quantum, lap trigger and choice of
targets and signals (`KernelAssumption`, the findings' inputs included):

- `TypeCorrect`, `OnlyCurrentRuns`, `NoStopWithCont`, `KernelStackIsOwn`:
  `TypeOK`, `RunningIsCurrent`, `StopContExclusive` and `OwnKernelStack` are invariants;
- `KillOnlyLostInStore`: `KillLostOnlyInStore`, that is, every step keeps a pending SIGKILL
  of a task that lives on, except the store of a mask loaded before the SIGKILL came.
  `KillSticks`, without the exception, is what `kill_lost` refutes.

The inductive invariant `IInv` is `TypeOK`, `RunningIsCurrent`, the exclusion of stop and
continue in the pending masks and in the masks loaded and not yet stored back,
`OwnKernelStack`, and `PidsClaimed`: the listed tasks and the current one have pids up to
`task_counter`. The last is what makes a spawn harmless to the others: the new
pid is not the current task, so neither RUNNING nor TSS.esp0 can go wrong by it.
The exclusion has to cover a loaded mask because `WaitStores` makes it the pending one.
There is one lemma per group of actions (`TickInv`, `ShellInv`, `ProgramInv`,
`SysKillSelfInv`, `SysWaitReapInv`, `WaitSleepInv`, `WaitReapsInv`, `WaitDeliversInv`)
over lemmas on what send, exit, dispatch, delivery and switch return. `KillKept` is carried through the same case analysis. That `Highest` returns a
member is the well-foundedness of the naturals (`WFMin`).

`SignalDispatchProofs` proves `DispatchIsClosedForm`: `PassIsClosedForm` for every set of
signals, mask and disposition. The loop invariant `LoopInv` says that the signals seen so
far are all below those to come, that none of them ends the pass except the last one once
the state has changed, and what that leaves pending.

Only model-checked: `ReapedOnce`, `WaiterHasChild`, `ParentNotFreed`, `ZombieIsFinal`,
`StoppedUntilCont` and `TickLeavesRunning`, which hold under restrictions on the inputs
that the theorems above do not need, and all liveness, which is out of the prover's reach.

## Plan

1. `PhysFrames`: the frame bitmap (`phys_page_frame.c`) as a refinement of a set of free
   frames; contiguous runs; no frame handed out twice.
2. `Paging`: page directories that share kernel entries, `paging_fork_copy` with its
   failure paths, the scratch slot, teardown; frames conserved.
3. `KmemHeap`, `Kmalloc`, `Vmalloc`: block list with split and coalescing against a
   reference; address ranges disjoint.
4. `TaskList`, `TaskTree`: the pointer walks of `task_reap` and `task_remove_child`
   interleaved with head insertion, refining the set and the parent function of `Kernel`.
5. `TaskIO`: log and input rings against a bounded sequence; `SigFrame`: nesting of signal
   frames and sigreturn.
6. `VgaTerminal`, `Printk`, `Keyboard`: scrollback and view offset, log ring, scancodes,
   the line editor and the end-of-interrupt order.
7. Theorems: `ReapedOnce`, `WaiterHasChild`; `ParentNotFreed` and `ZombieIsFinal` without
   fatal self-signals; `TickLeavesRunning` without kills of PID 0; frame conservation; the
   refinements of 1 and 4.

## Not modelled

Formatting and drawing (help texts, `eyeproc`, dumps), the Rust demo, `string.c`, the GDT,
IDT and TSS tables, the programming of PIC and PIT, port I/O and boot code: straight-line
code without state that a property could be about. Kernel panics stop the machine.
