------------------------------ MODULE Signals ------------------------------
(***************************************************************************)
(* The signal rules of src/signal.c, without any task: what sending a      *)
(* signal does to a state and to a pending mask, and what one pass of      *)
(* kernel_signal_dispatch takes from a mask.  A sigset_t is the set of the *)
(* signal numbers whose bits are set.                                      *)
(***************************************************************************)
EXTENDS Integers

SIGILL  == 4
SIGBUS  == 7
SIGFPE  == 8
SIGKILL == 9
SIGSEGV == 11
SIGCHLD == 17
SIGCONT == 18
SIGSTOP == 19
SIGTSTP == 20

NSIG == 32

Signal == 1 .. NSIG - 1

SIG_IMMUTABLE_MASK == {SIGKILL, SIGSTOP}

SIG_STOP_MASK == {SIGSTOP, SIGTSTP}

(* The signals whose default action is do_exit (sig_default_action).       *)
TermDefault == {1, 2, 3, 4, 6, 7, 8, 9, 11, 13, 14, 15}

(* enum task_state.  "FREE" is a descriptor that is not allocated.         *)
TaskState == {"RUNNABLE", "RUNNING", "BLOCKED", "ZOMBIE", "STOPPED", "FREE"}
-----------------------------------------------------------------------------
(* kernel_signal_send: the state the target is left in.                    *)
SendState_WakesZombie(st, sig) == IF st = "RUNNING" THEN st ELSE "RUNNABLE"

SendState_WakesStopped(st, sig) ==
  IF st \in {"BLOCKED", "STOPPED"} THEN "RUNNABLE" ELSE st

SendState(st, sig) ==
  IF \/ st = "STOPPED" /\ sig \in {SIGCONT, SIGKILL}
     \/ st = "BLOCKED"
  THEN "RUNNABLE"
  ELSE st

(* kernel_signal_send: the pending mask the target is left with.           *)
SendPending_NoCancel(P, sig) == P \cup {sig}

SendPending_ContClears(P, sig) == IF sig = SIGCONT THEN {sig} ELSE P \cup {sig}

SendPending(P, sig) ==
  {sig} \cup CASE sig = SIGCONT          -> P \ SIG_STOP_MASK
               [] sig \in SIG_STOP_MASK  -> P \ {SIGCONT}
               [] OTHER                  -> P
-----------------------------------------------------------------------------
(***************************************************************************)
(* kernel_signal_dispatch, for a task that is neither ZOMBIE nor STOPPED   *)
(* when the pass begins.  The loop takes the pending signals lowest first  *)
(* and stops after the first whose default action terminates or stops the  *)
(* task: it reaches exactly the signals with no such signal below them.    *)
(***************************************************************************)
TakesDefault(sig, caught, ignored) ==
  sig \in SIG_IMMUTABLE_MASK \/ sig \notin caught \cup ignored

Terminates(sig, caught, ignored) ==
  sig \in TermDefault /\ TakesDefault(sig, caught, ignored)

Stops(sig, caught, ignored) ==
  sig \in SIG_STOP_MASK /\ TakesDefault(sig, caught, ignored)

Reached(P, caught, ignored) ==
  {s \in P : \A r \in P :
     r < s => ~Terminates(r, caught, ignored) /\ ~Stops(r, caught, ignored)}

(* A caught signal of a Ring 3 task stays pending until the task returns   *)
(* to Ring 3 (signal_check_and_deliver).                                   *)
DispatchTakes(P, caught, ignored, userspace) ==
  {s \in Reached(P, caught, ignored) :
     ~ (userspace /\ s \in caught \ SIG_IMMUTABLE_MASK)}

(* The signals a pass ends on: none, or one.                               *)
DispatchKills(P, caught, ignored) ==
  {s \in Reached(P, caught, ignored) : Terminates(s, caught, ignored)}

DispatchStops(P, caught, ignored) ==
  {s \in Reached(P, caught, ignored) : Stops(s, caught, ignored)}

(* signal_check_and_deliver: the signal a return to Ring 3 delivers, the   *)
(* lowest caught one; the others wait for the next return.                 *)
Delivered(P, caught) ==
  LET D == (P \cap caught) \ SIG_IMMUTABLE_MASK
  IN  {s \in D : \A r \in D : s <= r}
=============================================================================
