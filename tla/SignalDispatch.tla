--------------------------- MODULE SignalDispatch ---------------------------
(***************************************************************************)
(* The loop of kernel_signal_dispatch (src/signal.c), one action per       *)
(* branch of its body, on one task.  Kernel takes a whole pass in one step *)
(* with the closed form of Signals (DispatchTakes, DispatchKills,          *)
(* DispatchStops); this module is where that closed form is justified.     *)
(***************************************************************************)
EXTENDS Signals

CONSTANT Sigs          (* the signals that may be pending                   *)

ASSUME SigsAssumption == Sigs \subseteq Signal

VARIABLES
  caught,       \* signals with a handler function
  ignored,      \* signals with SIG_IGN
  userspace,    \* t->is_userspace
  entry,        \* t->pending_signals when the pass began
  began,        \* t->state when the pass began
  todo,         \* the local mask, pending
  pending,      \* t->pending_signals
  state,        \* t->state
  killer,       \* the signal do_exit was called for, 0 if none
  handled       \* the kernel handlers called, handler (signum)

task == <<caught, ignored, userspace, entry, began>>
vars == <<task, todo, pending, state, killer, handled>>

Init ==
  /\ caught \in SUBSET (Sigs \ SIG_IMMUTABLE_MASK)
  /\ ignored \in SUBSET (Sigs \ (SIG_IMMUTABLE_MASK \cup caught))
  /\ userspace \in BOOLEAN
  /\ entry \in SUBSET Sigs
  /\ began \in {"RUNNABLE", "RUNNING", "BLOCKED", "ZOMBIE", "STOPPED"}
  /\ todo = entry
  /\ pending = entry
  /\ state = began
  /\ killer = 0
  /\ handled = {}
-----------------------------------------------------------------------------
(* The loop condition and the break at the top of its body.                *)
Continues == todo # {} /\ state \notin {"ZOMBIE", "STOPPED"}

(* The body isolates the lowest bit of the local mask and clears it there. *)
Isolates_Any(sig) ==
  /\ Continues
  /\ sig \in todo
  /\ todo' = todo \ {sig}

Isolates_Keeps(sig) ==
  /\ Continues
  /\ sig \in todo
  /\ \A r \in todo : sig <= r
  /\ UNCHANGED todo

Isolates(sig) ==
  /\ Continues
  /\ sig \in todo
  /\ \A r \in todo : sig <= r
  /\ todo' = todo \ {sig}

(* sig_default_action *)
DefaultAction(sig) ==
  \/ /\ sig \in TermDefault
     /\ state' = "ZOMBIE"
     /\ killer' = sig
  \/ /\ sig \in SIG_STOP_MASK
     /\ state' = "STOPPED"
     /\ UNCHANGED killer
  \/ /\ sig \notin TermDefault \cup SIG_STOP_MASK
     /\ UNCHANGED <<state, killer>>

TakeDefault(sig) ==
  /\ Isolates(sig)
  /\ sig \in SIG_IMMUTABLE_MASK \/ sig \notin caught \cup ignored
  /\ pending' = pending \ {sig}
  /\ DefaultAction(sig)
  /\ UNCHANGED <<task, handled>>

TakeIgnored(sig) ==
  /\ Isolates(sig)
  /\ sig \in ignored \ SIG_IMMUTABLE_MASK
  /\ pending' = pending \ {sig}
  /\ UNCHANGED <<task, state, killer, handled>>

(* A Ring 3 handler is left to signal_check_and_deliver.                   *)
LeaveCaught(sig) ==
  /\ Isolates(sig)
  /\ sig \in caught \ SIG_IMMUTABLE_MASK
  /\ userspace
  /\ UNCHANGED <<task, pending, state, killer, handled>>

RunHandler(sig) ==
  /\ Isolates(sig)
  /\ sig \in caught \ SIG_IMMUTABLE_MASK
  /\ ~userspace
  /\ pending' = pending \ {sig}
  /\ handled' = handled \cup {sig}
  /\ UNCHANGED <<task, state, killer>>

Next == \E sig \in Sigs :
          TakeDefault(sig) \/ TakeIgnored(sig) \/ LeaveCaught(sig) \/ RunHandler(sig)

Spec == Init /\ [][Next]_vars

(* The loop runs with interrupts off: nothing else happens meanwhile.      *)
FairSpec == Spec /\ WF_vars(Next)
-----------------------------------------------------------------------------
TypeOK ==
  /\ caught \subseteq Sigs \ SIG_IMMUTABLE_MASK
  /\ ignored \subseteq Sigs \ (SIG_IMMUTABLE_MASK \cup caught)
  /\ userspace \in BOOLEAN
  /\ entry \subseteq Sigs
  /\ began \in {"RUNNABLE", "RUNNING", "BLOCKED", "ZOMBIE", "STOPPED"}
  /\ todo \subseteq Sigs
  /\ pending \subseteq Sigs
  /\ state \in {"RUNNABLE", "RUNNING", "BLOCKED", "ZOMBIE", "STOPPED"}
  /\ killer \in Sigs \cup {0}
  /\ handled \subseteq Sigs

Dispatched == began \notin {"ZOMBIE", "STOPPED"}

(* What one pass of kernel_signal_dispatch does, as Kernel states it: the  *)
(* mask it leaves, the signal it kills the task with, the stop it makes    *)
(* and the kernel handlers it runs, for every mask and disposition.        *)
PassIsClosedForm ==
  ~Continues =>
    LET kills == DispatchKills(entry, caught, ignored)
        stops == DispatchStops(entry, caught, ignored)
        takes == DispatchTakes(entry, caught, ignored, userspace)
    IN  IF Dispatched
        THEN /\ pending = entry \ takes
             /\ handled = IF userspace THEN {} ELSE takes \cap caught
             /\ kills = IF killer = 0 THEN {} ELSE {killer}
             /\ state = IF kills # {} THEN "ZOMBIE"
                        ELSE IF stops # {} THEN "STOPPED" ELSE began
        ELSE pending = entry /\ state = began /\ killer = 0 /\ handled = {}

(* The loop ends for every mask.                                           *)
PassEnds == <>~Continues
=============================================================================
