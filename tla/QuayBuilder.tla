---------------------------- MODULE QuayBuilder -----------------------------
(***************************************************************************)
(* The whole process: main() (Builder) and the heartbeat goroutine         *)
(* (Heartbeat) in any interleaving.  They share the heartbeat's context,   *)
(* which main() makes and cancels, and the life of the process, which      *)
(* either may end at any time.                                             *)
(***************************************************************************)
EXTENDS Builder

VARIABLES hbPc, failedHeartbeatRetries, hbStream, refusals

HB == INSTANCE Heartbeat

heartbeatVars == <<hbPc, failedHeartbeatRetries, hbStream, refusals>>
processVars == <<vars, heartbeatVars>>

ProcessInit == Init /\ HB!HeartbeatInit

MainStep == Next /\ UNCHANGED heartbeatVars

HeartbeatStep ==
  /\ HB!Running \/ HB!FromManager
  /\ UNCHANGED <<phaseVars, containerVars, pc, context, disk>>

ProcessNext == MainStep \/ HeartbeatStep

ProcessSpec == ProcessInit /\ [][ProcessNext]_processVars

ProcessFairSpec ==
  /\ ProcessSpec
  /\ WF_processVars(Main /\ ~Blocked /\ UNCHANGED heartbeatVars)
  /\ WF_processVars(HB!Running /\ UNCHANGED <<phaseVars, containerVars, pc, context, disk>>)

(* The builder does not stop its own heartbeats while a tag is still to be *)
(* pushed: main() has not cancelled them (main.go:92-94, 139-145), and the *)
(* loop has not returned over an open stream (grpcbuild.go:205-247).  It   *)
(* promises nothing of a stream that the manager or the network ended: no  *)
(* heartbeat is sent any more, though the builder works on.                *)
HeartbeatWhileWorking ==
  requests # {} /\ ~(Wanted \subseteq Published) =>
    /\ hbCtx = "live"
    /\ hbPc = "returned" => hbStream \notin {"none", "open"}

(* A lost heartbeat cannot make a complete job out of one that is not: the *)
(* process that it ends has told the manager that the job is complete only *)
(* if every tag was pushed and the heartbeats were stopped before          *)
(* (main.go:144-148, grpcbuild.go:210-212).                                *)
HeartbeatLossIsHonest ==
  exit = "heartbeat" /\ job.phase = COMPLETE =>
    /\ Wanted \subseteq Published
    /\ hbCtx = "cancelled"

(* "Stop heartbeats" (main.go:144): once main() has stopped them, a loop   *)
(* that was beating does not end the process any more.                     *)
StoppedMeansSilent ==
  [][hbCtx = "cancelled" /\ hbPc # "off" => exit' # "heartbeat"]_exit

=============================================================================
