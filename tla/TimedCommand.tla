---------------------------- MODULE TimedCommand ----------------------------
(***************************************************************************)
(* timeoutCommand and timeoutActiveCommand (buildpack): a git command, the *)
(* goroutine that runs it, the goroutine of os/exec that copies its        *)
(* output, and the caller, who waits for the result and for a timer.       *)
(***************************************************************************)
EXTENDS Integers

CONSTANTS
  processIdleTimeout,      \* in ticks: three minutes
  processTimeout,          \* in ticks: fifteen minutes
  PipeSize                 \* chunks of output that the pipe of a command holds

ASSUME TimeoutsAssumption ==
  /\ processIdleTimeout \in Nat \ {0}
  /\ processTimeout \in Nat \ {0}
  /\ PipeSize \in Nat \ {0}

VARIABLES
  active,      \* timeoutActiveCommand, or else timeoutCommand
  outcome,     \* the caller: "running", then as in Command
  timer,       \* ticks to go, 0 when it has fired, -1 when that was received
  notify,      \* messages in notifyChan, which holds one
  runner,      \* the goroutine: "start", "wait", "drain", "send", "sent", "ended"
  child,       \* the command: "none", "running", "exited", "reaped"
  status,      \* the result of cmd.Run, once there is one
  helper,      \* a process forked by it, holding its output: "none", "alive", "gone"
  pipe,        \* chunks of output that are not yet copied
  copier,      \* the goroutine of os/exec: "copy", or "notify" with a chunk copied
  quiet,       \* history: ticks since the caller last heard of output
  late         \* history: chunks added to the output after its buffer was returned

caller  == <<outcome, timer, quiet>>
process == <<child, status, helper>>
output  == <<pipe, copier, notify, late>>
vars    == <<active, caller, runner, process, output>>

Limit == IF active THEN processIdleTimeout ELSE processTimeout

TypeOK ==
  /\ active \in BOOLEAN
  /\ outcome \in {"running", "ok", "failed", "killed", "died"}
  /\ timer \in -1 .. Limit
  /\ notify \in 0..1
  /\ runner \in {"start", "wait", "drain", "send", "sent", "ended"}
  /\ child \in {"none", "running", "exited", "reaped"}
  /\ status \in {"ok", "failed"}
  /\ helper \in {"none", "alive", "gone"}
  /\ pipe \in 0..PipeSize
  /\ copier \in {"copy", "notify"}
  /\ quiet \in Nat /\ late \in Nat

Init ==
  /\ active \in BOOLEAN
  /\ outcome = "running" /\ timer = Limit /\ quiet = 0
  /\ runner = "start"
  /\ child = "none" /\ status = "failed" /\ helper = "none"
  /\ pipe = 0 /\ copier = "copy" /\ notify = 0 /\ late = 0

-----------------------------------------------------------------------------
(* The goroutine in cmd.Run or cmd.CombinedOutput. *)

StartCommand ==
  /\ runner = "start"
  /\ \/ runner' = "wait" /\ child' = "running"
     \/ runner' = "send" /\ child' = child
  /\ UNCHANGED <<active, caller, status, helper, output>>

Reap ==
  /\ runner = "wait" /\ child = "exited"
  /\ runner' = "drain" /\ child' = "reaped"
  /\ UNCHANGED <<active, caller, status, helper, output>>

(* Run returns at the end of the output, when nobody holds it any more. *)
Drained ==
  /\ runner = "drain"
  /\ pipe = 0 /\ copier = "copy" /\ helper # "alive"
  /\ runner' = "send"
  /\ UNCHANGED <<active, caller, process, output>>

(* doneChan is buffered.  The channel of timeoutCommand is not: there the  *)
(* goroutine stays here until the caller receives.                         *)
SendDone ==
  /\ runner = "send" /\ active
  /\ runner' = "sent"
  /\ UNCHANGED <<active, caller, process, output>>

(* timeoutActiveCommand returns the bytes of its buffer, timeoutCommand nil *)
(* when it times out.                                                      *)
Returned == active /\ outcome # "running"

Copy ==
  /\ copier = "copy" /\ pipe > 0
  /\ pipe' = pipe - 1
  /\ copier' = IF active THEN "notify" ELSE "copy"
  /\ late' = IF Returned THEN late + 1 ELSE late
  /\ UNCHANGED <<active, caller, runner, process, notify>>

(* Mutant: a notification that finds the channel full is dropped. *)
NotifyOrDrop ==
  /\ copier = "notify"
  /\ notify' = 1
  /\ copier' = "copy"
  /\ UNCHANGED <<active, caller, runner, process, pipe, late>>

(* notifyingWriter.Write, blocked while the channel is full. *)
Notify ==
  /\ copier = "notify" /\ notify = 0
  /\ notify' = 1
  /\ copier' = "copy"
  /\ UNCHANGED <<active, caller, runner, process, pipe, late>>

-----------------------------------------------------------------------------
(* The caller: a select, of which any case that is ready may be taken. *)

(* Mutants: the timer is left running, or set to the wrong timeout; the    *)
(* first output ends the call.                                             *)
NotifiedOnly ==
  /\ outcome = "running" /\ notify = 1
  /\ notify' = 0
  /\ quiet' = 0
  /\ UNCHANGED <<active, outcome, timer, runner, process, pipe, copier, late>>
NotifiedLong ==
  /\ outcome = "running" /\ notify = 1
  /\ notify' = 0
  /\ timer' = processTimeout
  /\ quiet' = 0
  /\ UNCHANGED <<active, outcome, runner, process, pipe, copier, late>>
NotifiedReturns ==
  /\ outcome = "running" /\ notify = 1
  /\ notify' = 0
  /\ outcome' = "ok"
  /\ UNCHANGED <<active, timer, quiet, runner, process, pipe, copier, late>>

(* The error that comes with a notification is that of bytes.Buffer, and   *)
(* always nil.                                                             *)
Notified ==
  /\ outcome = "running" /\ notify = 1
  /\ notify' = 0
  /\ timer' = Limit
  /\ quiet' = 0
  /\ UNCHANGED <<active, outcome, runner, process, pipe, copier, late>>

Done ==
  /\ outcome = "running"
  /\ runner = IF active THEN "sent" ELSE "send"
  /\ runner' = "ended"
  /\ outcome' = status
  /\ UNCHANGED <<active, timer, quiet, process, output>>

(* Mutants: the call goes on after the kill and waits for the goroutine;   *)
(* a command that was killed passes for one that failed.                   *)
AfterKillWait == IF child \in {"running", "exited"} THEN "running" ELSE "died"

AfterKillFailed == IF child \in {"running", "exited"} THEN "failed" ELSE "died"

(* Kill succeeds until the command is reaped.  After that it returns an    *)
(* error, which is fatal; before there is a process it panics.             *)
AfterKill == IF child \in {"running", "exited"} THEN "killed" ELSE "died"

TimesOut ==
  /\ outcome = "running" /\ timer = 0
  /\ timer' = -1
  /\ outcome' = AfterKill
  /\ child' = IF child = "running" THEN "exited" ELSE child
  /\ UNCHANGED <<active, quiet, runner, status, helper, output>>

-----------------------------------------------------------------------------
(* The command, its helper and the clock. *)

Exit ==
  /\ child = "running"
  /\ child' = "exited"
  /\ status' \in {"ok", "failed"}
  /\ UNCHANGED <<active, caller, runner, helper, output>>

Fork ==
  /\ child = "running" /\ helper = "none"
  /\ helper' = "alive"
  /\ UNCHANGED <<active, caller, runner, child, status, output>>

HelperExit ==
  /\ helper = "alive"
  /\ helper' = "gone"
  /\ UNCHANGED <<active, caller, runner, child, status, output>>

(* There is no end to what a command may print; it waits at a full pipe.   *)
WriteOutput ==
  /\ child = "running" \/ helper = "alive"
  /\ pipe < PipeSize
  /\ pipe' = pipe + 1
  /\ UNCHANGED <<active, caller, runner, process, copier, notify, late>>

Tick ==
  /\ outcome = "running" /\ timer > 0
  /\ timer' = timer - 1
  /\ quiet' = quiet + 1
  /\ UNCHANGED <<active, outcome, runner, process, output>>

-----------------------------------------------------------------------------

Select  == Notified \/ Done \/ TimesOut
Runner  == outcome # "died" /\ (StartCommand \/ Reap \/ Drained \/ SendDone)
Copier  == outcome # "died" /\ (Copy \/ Notify)
Outside == Exit \/ Fork \/ HelperExit \/ WriteOutput

(* Returned, and all that is left is over or waits for nobody. *)
Terminated == outcome # "running" /\ UNCHANGED vars

Next == Select \/ Runner \/ Copier \/ Outside \/ Tick \/ Terminated

Spec == Init /\ [][Next]_vars

(* Go schedules each of its goroutines, and time passes.  A command or its *)
(* helper may hang forever, or write forever.                              *)
FairSpec ==
  Spec /\ WF_vars(Select) /\ WF_vars(Runner) /\ WF_vars(Copier) /\ WF_vars(Tick)

-----------------------------------------------------------------------------
(* Properties. *)

(* Who gets a command's own result has all of its output: the command and  *)
(* what it forked are over, and no goroutine writes to the buffer that is  *)
(* returned (buildpack.go:318-326, 346-376).                               *)
OwnResultIsComplete ==
  outcome \in {"ok", "failed"} =>
    /\ child \in {"none", "reaped"} /\ helper # "alive"
    /\ pipe = 0 /\ copier = "copy"
    /\ runner = "ended"

(* No command is given up before the caller heard nothing of it for the    *)
(* whole of its timeout, whatever was ready at the same time               *)
(* (buildpack.go:327, 358-368).                                            *)
KilledForSilence == outcome \in {"killed", "died"} => quiet >= Limit

(* After a kill, what holds the output may go on writing, and the copier   *)
(* goes on appending to the buffer whose bytes the caller was given.  It   *)
(* does so twice at the most: nobody receives its notifications any more,  *)
(* and with one in the channel it blocks (buildpack.go:295, 311, 373).     *)
AtMostTwoLateChunks == late <= 2

(* A call of timeoutCommand ends whatever its command and helpers do.  One *)
(* of timeoutActiveCommand, which sets its timer back at each output and   *)
(* has no deadline for the whole, ends unless they go on writing for ever  *)
(* (buildpack.go:324-332, 358-377).                                        *)
CallEnds ==
  \/ <>(outcome # "running")
  \/ active /\ []<><<WriteOutput>>_vars

(* What Command promises. *)
Abstract == INSTANCE Command WITH
  alive <- {p \in {"child", "helper"} :
              \/ p = "child" /\ (runner = "start" \/ child = "running")
              \/ p = "helper" /\ helper = "alive"}

ImplementsCommand == Abstract!Spec

=============================================================================
