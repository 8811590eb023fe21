------------------------------ MODULE Command -------------------------------
(***************************************************************************)
(* What buildpack.go promises of a command that it runs with a timeout:    *)
(* either the command's own result, once neither the command nor a process *)
(* it forked holds the output any more, or a timeout, which ends the       *)
(* command but not what it forked; or the builder dies with it.            *)
(***************************************************************************)
VARIABLES
  outcome,     \* "running", the result "ok" or "failed", "killed", or "died"
  alive        \* those of "child" and "helper" that are not over

CommandTypeOK ==
  /\ outcome \in {"running", "ok", "failed", "killed", "died"}
  /\ alive \subseteq {"child", "helper"}

Init == outcome = "running" /\ alive = {"child"}

(* The command may fork helpers, such as the ssh of a git, that inherit    *)
(* its output and outlive it.                                              *)
Forks == "child" \in alive /\ alive' = alive \union {"helper"} /\ UNCHANGED outcome

Ends == \E p \in alive : alive' = alive \ {p} /\ UNCHANGED outcome

OwnResult ==
  /\ outcome = "running" /\ alive = {}
  /\ outcome' \in {"ok", "failed"}
  /\ UNCHANGED alive

(* ErrKilledInactiveProcess. *)
Killed ==
  /\ outcome = "running"
  /\ outcome' = "killed"
  /\ alive' = alive \ {"child"}

(* There is no process that could be killed: the builder ends instead. *)
Died == outcome = "running" /\ outcome' = "died" /\ UNCHANGED alive

Next == Forks \/ Ends \/ OwnResult \/ Killed \/ Died

Spec == Init /\ [][Next]_<<outcome, alive>>

=============================================================================
