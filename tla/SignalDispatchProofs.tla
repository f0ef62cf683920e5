------------------------ MODULE SignalDispatchProofs ------------------------
(***************************************************************************)
(* The loop of kernel_signal_dispatch computes the closed form that Kernel *)
(* takes in one step, for every set of signals, mask and disposition.      *)
(***************************************************************************)
EXTENDS SignalDispatch, TLAPS

(* The signals the loop has isolated so far.                               *)
Seen == entry \ todo

Ends(s) == Terminates(s, caught, ignored) \/ Stops(s, caught, ignored)

(***************************************************************************)
(* The loop invariant.  The seen signals are below the ones to come; none  *)
(* of them ends the pass but, once the state has changed, the last one.    *)
(***************************************************************************)
Untouched ==
  /\ state = began
  /\ killer = 0
  /\ \A d \in Seen : ~Ends(d)

EndedBy(k) ==
  /\ k \in Seen
  /\ Ends(k)
  /\ \A d \in Seen : d <= k
  /\ \A d \in Seen \ {k} : ~Ends(d)
  /\ \/ /\ k \in TermDefault
        /\ state = "ZOMBIE"
        /\ killer = k
     \/ /\ k \in SIG_STOP_MASK
        /\ state = "STOPPED"
        /\ killer = 0

LoopInv ==
  /\ TypeOK
  /\ todo \subseteq entry
  /\ \A d \in Seen, s \in todo : d < s
  /\ pending = entry \ {d \in Seen : ~ (userspace /\ d \in caught \ SIG_IMMUTABLE_MASK)}
  /\ handled = IF userspace THEN {} ELSE Seen \cap caught
  /\ IF Dispatched THEN Untouched \/ \E k \in Sigs : EndedBy(k)
                   ELSE todo = entry /\ state = began /\ killer = 0

(* A signal terminates or stops by default, never both, and 0 is no signal. *)
LEMMA DefaultsDisjoint ==
  TermDefault \cap SIG_STOP_MASK = {} /\ 0 \notin Sigs /\ Sigs \subseteq Int
BY SigsAssumption DEF TermDefault, SIG_STOP_MASK, SIGSTOP, SIGTSTP, Signal, NSIG

(* The loop starts with nothing seen.                                      *)
LEMMA LoopInit == Init => LoopInv
BY DEF Init, LoopInv, TypeOK, Seen, Untouched, Dispatched

(* One turn of the loop.                                                   *)
LEMMA LoopStep == LoopInv /\ [Next]_vars => LoopInv'
<1> SUFFICES ASSUME LoopInv, [Next]_vars PROVE LoopInv'
  OBVIOUS
<1>1. CASE UNCHANGED vars
  BY <1>1 DEF vars, task, LoopInv, TypeOK, Seen, Untouched, EndedBy, Ends, Dispatched
<1>2. ASSUME NEW sig \in Sigs, Isolates(sig), UNCHANGED task,
             \/ TakeDefault(sig) \/ TakeIgnored(sig)
             \/ LeaveCaught(sig) \/ RunHandler(sig)
      PROVE  LoopInv'
  <2>1. /\ sig \in todo /\ \A r \in todo : sig <= r
        /\ todo' = todo \ {sig} /\ Seen' = Seen \cup {sig} /\ sig \notin Seen
    BY <1>2 DEF Isolates, Seen, LoopInv, task
  <2>2. Dispatched /\ Untouched
    <3>1. state \notin {"ZOMBIE", "STOPPED"} /\ todo # {}
      BY <1>2 DEF Isolates, Continues
    <3> QED BY <3>1 DEF LoopInv, EndedBy, Dispatched
  <2>3. /\ pending' = IF userspace /\ sig \in caught \ SIG_IMMUTABLE_MASK
                      THEN pending ELSE pending \ {sig}
        /\ handled' = IF sig \in caught /\ ~userspace THEN handled \cup {sig} ELSE handled
    BY <1>2 DEF TakeDefault, TakeIgnored, LeaveCaught, RunHandler, LoopInv, TypeOK
  <2>4. /\ pending' = entry \ {d \in Seen' : ~ (userspace /\ d \in caught \ SIG_IMMUTABLE_MASK)}
        /\ handled' = IF userspace THEN {} ELSE Seen' \cap caught
    BY <2>1, <2>3 DEF LoopInv
  <2>5. \A d \in Seen', s \in todo' : d < s
    BY <2>1, DefaultsDisjoint DEF LoopInv, TypeOK
  <2>6. \A d \in Seen' : d <= sig
    <3>1. \A d \in Seen : d < sig /\ d \in Int
      BY <2>1, DefaultsDisjoint DEF LoopInv, TypeOK, Seen
    <3>2. sig \in Int /\ sig <= sig
      BY <1>2, DefaultsDisjoint
    <3>3. \A d \in Seen : d <= sig
      BY <3>1, <3>2
    <3> QED BY <2>1, <3>2, <3>3
  <2>7. \/ ~Ends(sig) /\ state' = state /\ killer' = killer
        \/ /\ Ends(sig)
           /\ \/ sig \in TermDefault /\ state' = "ZOMBIE" /\ killer' = sig
              \/ sig \in SIG_STOP_MASK /\ state' = "STOPPED" /\ killer' = killer
    <3>1. CASE TakeDefault(sig)
      BY <3>1 DEF TakeDefault, DefaultAction, Ends, Terminates, Stops, TakesDefault
    <3>2. CASE ~TakeDefault(sig)
      <4>1. sig \in caught \cup ignored /\ sig \notin SIG_IMMUTABLE_MASK
        BY <1>2, <3>2 DEF TakeIgnored, LeaveCaught, RunHandler
      <4>2. state' = state /\ killer' = killer
        BY <1>2, <3>2 DEF TakeIgnored, LeaveCaught, RunHandler
      <4> QED BY <4>1, <4>2 DEF Ends, Terminates, Stops, TakesDefault
    <3> QED BY <3>1, <3>2
  <2>8. TypeOK'
    BY <1>2, <2>1, <2>3, <2>7 DEF LoopInv, TypeOK, task
  <2>9. Untouched' \/ EndedBy(sig)'
    <3>1. \A d : Ends(d)' <=> Ends(d)
      BY <1>2 DEF task, Ends, Terminates, Stops, TakesDefault
    <3>2. CASE ~Ends(sig) /\ state' = state /\ killer' = killer
      BY <1>2, <2>1, <2>2, <3>1, <3>2 DEF Untouched, task
    <3>3. CASE /\ Ends(sig)
               /\ \/ sig \in TermDefault /\ state' = "ZOMBIE" /\ killer' = sig
                  \/ sig \in SIG_STOP_MASK /\ state' = "STOPPED" /\ killer' = killer
      BY <2>1, <2>2, <2>6, <3>1, <3>3 DEF Untouched, EndedBy
    <3> QED BY <2>7, <3>2, <3>3
  <2> QED BY <1>2, <2>1, <2>2, <2>4, <2>5, <2>8, <2>9 DEF LoopInv, Dispatched, task
<1> QED BY <1>1, <1>2 DEF Next, TakeDefault, TakeIgnored, LeaveCaught, RunHandler

(* When the loop is over, the seen signals are the reached ones.           *)
LEMMA LoopDone == LoopInv => PassIsClosedForm
<1> SUFFICES ASSUME LoopInv, ~Continues PROVE PassIsClosedForm
  BY DEF PassIsClosedForm
<1> DEFINE kills == DispatchKills(entry, caught, ignored)
           stops == DispatchStops(entry, caught, ignored)
           takes == DispatchTakes(entry, caught, ignored, userspace)
           R     == Reached(entry, caught, ignored)
<1>1. CASE ~Dispatched
  <2>1. pending = entry /\ handled = {}
    BY <1>1 DEF LoopInv, Seen
  <2> QED BY <1>1, <2>1 DEF LoopInv, PassIsClosedForm
<1>2. CASE Dispatched
  <2>1. R = {s \in entry : \A r \in entry : r < s => ~Ends(r)}
    BY DEF Reached, Ends
  <2>2. R = Seen
    <3>1. CASE Untouched
      <4>1. todo = {}
        BY <1>2, <3>1 DEF Continues, Untouched, Dispatched
      <4> QED BY <2>1, <3>1, <4>1 DEF Seen, Untouched
    <3>2. ASSUME NEW k \in Sigs, EndedBy(k) PROVE R = Seen
      <4>1. ASSUME NEW s \in Seen PROVE s \in R
        <5>1. ASSUME NEW r \in entry, r < s PROVE ~Ends(r)
          <6>1. r \in Seen
            BY <5>1, <4>1, DefaultsDisjoint DEF Seen, LoopInv, TypeOK
          <6>2. r # k
            BY <3>2, <4>1, <5>1, DefaultsDisjoint DEF EndedBy, LoopInv, TypeOK, Seen
          <6> QED BY <3>2, <6>1, <6>2 DEF EndedBy
        <5> QED BY <2>1, <4>1, <5>1 DEF Seen
      <4>2. ASSUME NEW s \in R PROVE s \in Seen
        <5>1. s \in todo => k < s /\ k \in entry /\ Ends(k)
          BY <3>2 DEF EndedBy, LoopInv, Seen
        <5> QED BY <2>1, <4>2, <5>1 DEF Seen
      <4> QED BY <4>1, <4>2
    <3> QED BY <1>2, <3>1, <3>2 DEF LoopInv
  <2>3. /\ pending = entry \ takes
        /\ handled = IF userspace THEN {} ELSE takes \cap caught
    BY <2>2 DEF LoopInv, DispatchTakes
  <2>4. /\ kills = {s \in Seen : Terminates(s, caught, ignored)}
        /\ stops = {s \in Seen : Stops(s, caught, ignored)}
    BY <2>2 DEF DispatchKills, DispatchStops
  <2> HIDE DEF kills, stops, takes, R
  <2>5. /\ kills = IF killer = 0 THEN {} ELSE {killer}
        /\ state = IF kills # {} THEN "ZOMBIE" ELSE IF stops # {} THEN "STOPPED" ELSE began
    <3>1. CASE Untouched
      BY <2>4, <3>1 DEF Untouched, Ends
    <3>2. ASSUME NEW k \in Sigs, EndedBy(k), k \in TermDefault
          PROVE  kills = {k} /\ killer = k /\ state = "ZOMBIE"
      BY <2>4, <3>2, DefaultsDisjoint DEF EndedBy, Ends, Terminates, Stops
    <3>3. ASSUME NEW k \in Sigs, EndedBy(k), k \notin TermDefault
          PROVE  kills = {} /\ stops # {} /\ killer = 0 /\ state = "STOPPED"
      BY <2>4, <3>3 DEF EndedBy, Ends, Terminates, Stops
    <3> QED BY <1>2, <3>1, <3>2, <3>3, DefaultsDisjoint DEF LoopInv
  <2> QED BY <1>2, <2>3, <2>5 DEF PassIsClosedForm, kills, stops, takes
<1> QED BY <1>1, <1>2

(* kernel_signal_dispatch does to a task what Kernel's one step says, for  *)
(* every mask of pending signals and every disposition.                    *)
THEOREM DispatchIsClosedForm == Spec => []PassIsClosedForm
<1>1. Init => LoopInv
  BY LoopInit
<1>2. LoopInv /\ [Next]_vars => LoopInv'
  BY LoopStep
<1>3. LoopInv => PassIsClosedForm
  BY LoopDone
<1> QED BY <1>1, <1>2, <1>3, PTL DEF Spec
=============================================================================
