------------------------- MODULE TimedCommandProofs -------------------------
(***************************************************************************)
(* Theorems about commands with a timeout, for timeouts of any length and  *)
(* any amount of output.                                                   *)
(***************************************************************************)
EXTENDS TimedCommand, TLAPS

(* Where the goroutine is tells how far the command got.  After Run, the   *)
(* command and its helper are over and all output is copied.               *)
RunnerInv ==
  /\ runner = "start" => child = "none"
  /\ runner = "wait"  => child \in {"running", "exited"}
  /\ runner = "drain" => child = "reaped"
  /\ child = "none"   => helper = "none" /\ pipe = 0 /\ copier = "copy"
  /\ runner \in {"send", "sent", "ended"} =>
       /\ child \in {"none", "reaped"} /\ helper # "alive"
       /\ pipe = 0 /\ copier = "copy"

(* The caller waits with a timer that is set, and has heard nothing since. *)
CallerInv ==
  /\ outcome = "running" => timer >= 0 /\ quiet + timer = Limit
  /\ outcome \in {"killed", "died"} => quiet >= Limit
  /\ outcome \in {"ok", "failed"} <=> runner = "ended"

(* Each late chunk has left a notification that nobody received, or one on *)
(* which the copier waits.                                                 *)
LateInv ==
  /\ ~Returned => late = 0
  /\ late <= notify + (IF copier = "notify" THEN 1 ELSE 0)

TInv == TypeOK /\ RunnerInv /\ CallerInv /\ LateInv

LEMMA LimitNat == TypeOK => Limit \in Nat
BY TimeoutsAssumption DEF TypeOK, Limit

LEMMA InitTInv == Init => TInv
BY TimeoutsAssumption
   DEF Init, TInv, TypeOK, RunnerInv, CallerInv, LateInv, Returned, Limit

(* Every step keeps the invariant.                                         *)
LEMMA NextTInv ==
  ASSUME TInv, [Next]_vars
  PROVE  TInv'
<1> USE TimeoutsAssumption
       DEF TInv, TypeOK, RunnerInv, CallerInv, LateInv, Returned, vars, caller, process, output
<1>1. Limit \in Nat
  BY LimitNat
<1>2. active' = active => Limit' = Limit
  BY DEF Limit
<1>3. CASE Notified
  BY <1>1, <1>2, <1>3 DEF Notified
<1>4. CASE Done
  BY <1>1, <1>2, <1>4 DEF Done
<1>5. CASE TimesOut
  BY <1>1, <1>2, <1>5 DEF TimesOut, AfterKill
<1>6. CASE Runner
  <2> USE <1>1, <1>2, <1>6 DEF Runner
  <2>1. CASE StartCommand
    BY <2>1 DEF StartCommand
  <2>2. CASE Reap
    BY <2>2 DEF Reap
  <2>3. CASE Drained
    BY <2>3 DEF Drained
  <2>4. CASE SendDone
    BY <2>4 DEF SendDone
  <2> QED
    BY <2>1, <2>2, <2>3, <2>4
<1>7. CASE Copier
  <2> USE <1>1, <1>2, <1>7 DEF Copier
  <2>1. CASE Copy
    BY <2>1 DEF Copy
  <2>2. CASE Notify
    BY <2>2 DEF Notify
  <2> QED
    BY <2>1, <2>2
<1>8. CASE Outside
  <2> USE <1>1, <1>2, <1>8 DEF Outside
  <2>1. CASE Exit
    BY <2>1 DEF Exit
  <2>2. CASE Fork
    BY <2>2 DEF Fork
  <2>3. CASE HelperExit
    BY <2>3 DEF HelperExit
  <2>4. CASE WriteOutput
    BY <2>4 DEF WriteOutput
  <2> QED
    BY <2>1, <2>2, <2>3, <2>4
<1>9. CASE Tick
  BY <1>1, <1>2, <1>9 DEF Tick
<1>10. CASE Terminated \/ UNCHANGED vars
  BY <1>1, <1>2, <1>10 DEF Terminated
<1> QED
  BY <1>3, <1>4, <1>5, <1>6, <1>7, <1>8, <1>9, <1>10 DEF Next, Select

LEMMA TimedCommandInvariance == Spec => []TInv
BY InitTInv, NextTInv, PTL DEF Spec

(* Each goroutine, the timer and the channels keep their types.            *)
THEOREM TimedCommandTypes == Spec => []TypeOK
<1>1. TInv => TypeOK
  BY DEF TInv
<1> QED
  BY <1>1, TimedCommandInvariance, PTL

(* A command's own result is complete and nobody writes to its buffer      *)
(* (buildpack.go:318-326, 346-376).                                        *)
THEOREM ResultsAreComplete == Spec => []OwnResultIsComplete
<1>1. TInv => OwnResultIsComplete
  BY DEF TInv, TypeOK, RunnerInv, CallerInv, OwnResultIsComplete
<1> QED
  BY <1>1, TimedCommandInvariance, PTL

(* A timeout comes after a whole interval without news (buildpack.go:327,  *)
(* 358-368).                                                               *)
THEOREM TimeoutsAreDue == Spec => []KilledForSilence
<1>1. TInv => KilledForSilence
  BY DEF TInv, CallerInv, KilledForSilence
<1> QED
  BY <1>1, TimedCommandInvariance, PTL

(* After a kill at most two chunks are added to the buffer whose bytes the *)
(* caller has, whatever goes on writing (buildpack.go:295, 311, 373).      *)
THEOREM LateOutputIsBounded == Spec => []AtMostTwoLateChunks
<1>1. TInv => AtMostTwoLateChunks
  BY DEF TInv, TypeOK, LateInv, AtMostTwoLateChunks
<1> QED
  BY <1>1, TimedCommandInvariance, PTL

-----------------------------------------------------------------------------
(* The calls implement Command. *)

Alive == {p \in {"child", "helper"} :
            \/ p = "child" /\ (runner = "start" \/ child = "running")
            \/ p = "helper" /\ helper = "alive"}

LEMMA StepsAreAbstract ==
  ASSUME TInv, [Next]_vars
  PROVE  [Abstract!Next]_<<outcome, Alive>>
<1> USE DEF TInv, TypeOK, RunnerInv, CallerInv, vars, caller, process, output,
            Abstract!Next
<1>1. CASE Done
  BY <1>1 DEF Done, Abstract!OwnResult, Alive
<1>2. CASE TimesOut
  BY <1>2 DEF TimesOut, AfterKill, Abstract!Killed, Abstract!Died, Alive
<1>3. CASE Runner
  <2>1. CASE StartCommand
    BY <2>1 DEF StartCommand, Abstract!Ends, Alive
  <2>2. CASE Reap \/ Drained \/ SendDone
    BY <2>2 DEF Reap, Drained, SendDone, Alive
  <2> QED
    BY <1>3, <2>1, <2>2 DEF Runner
<1>4. CASE Exit \/ HelperExit
  BY <1>4 DEF Exit, HelperExit, Abstract!Ends, Alive
<1>5. CASE Fork
  BY <1>5 DEF Fork, Abstract!Forks, Alive
<1>6. CASE Notified \/ Copier \/ WriteOutput \/ Tick \/ Terminated \/ UNCHANGED vars
  BY <1>6 DEF Notified, Copier, Copy, Notify, WriteOutput, Tick, Terminated, Alive
<1> QED
  BY <1>1, <1>2, <1>3, <1>4, <1>5, <1>6 DEF Next, Select, Outside

(* timeoutCommand and timeoutActiveCommand give what their callers rely    *)
(* on: the command's own result or a timeout, never one for the other.     *)
THEOREM TimedCommandRefines == Spec => ImplementsCommand
<1>1. Init => Abstract!Init
  BY DEF Init, Abstract!Init
<1>2. TInv /\ [Next]_vars => [Abstract!Next]_<<outcome, Alive>>
  BY StepsAreAbstract
<1> QED
  BY <1>1, <1>2, TimedCommandInvariance, PTL DEF Spec, ImplementsCommand, Abstract!Spec, Alive

=============================================================================
