------------------------------- MODULE Phases -------------------------------
(***************************************************************************)
(* The phases of a build (rpc/rpc.go) and the number each has on the wire  *)
(* (buildman_pb).  The numbers grow along the build, so they also rank the *)
(* phases.                                                                 *)
(***************************************************************************)
EXTENDS Naturals

Phase == {"Waiting", "unpacking", "checking-cache", "priming-cache", "pulling",
          "building", "pushing", "complete", "error"}

WAITING   == 0
UNPACKING == 1
PULLING   == 2
BUILDING  == 3
PUSHING   == 4
COMPLETE  == 5
ERROR     == 6

PbPhase == WAITING..ERROR

(* Three phases of the builder share the manager's PULLING. *)
phaseEnum(p) ==
  CASE p = "Waiting"   -> WAITING
    [] p = "unpacking" -> UNPACKING
    [] p \in {"pulling", "checking-cache", "priming-cache"} -> PULLING
    [] p = "building"  -> BUILDING
    [] p = "pushing"   -> PUSHING
    [] p = "complete"  -> COMPLETE
    [] OTHER           -> ERROR

=============================================================================
