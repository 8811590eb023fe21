----------------------------- MODULE Heartbeat ------------------------------
(***************************************************************************)
(* grpcClient.Heartbeat (rpc/grpcbuild): the goroutine that tells the      *)
(* build manager that the builder is alive, over one bidirectional stream. *)
(* It runs beside main(), which owns its context and may cancel it or end  *)
(* the process between any two of its steps.                               *)
(***************************************************************************)
EXTENDS Naturals

VARIABLES
  exit,                    \* the process, shared with main(): see Builder
  hbCtx,                   \* the context main() made: "none", "live", "cancelled"
  hbPc,                    \* the next step of the goroutine
  failedHeartbeatRetries,
  hbStream,                \* "none", "open", "closed" by the manager, or "broken"
  refusals                 \* history: refused heartbeats since the last accepted one

hbVars == <<hbPc, failedHeartbeatRetries, hbStream, refusals>>

MaxRetries == 3

HeartbeatTypeOK ==
  /\ hbCtx \in {"none", "live", "cancelled"}
  /\ hbPc \in {"off", "select", "send", "recv", "sleep", "returned"}
  /\ failedHeartbeatRetries \in 0..MaxRetries
  /\ hbStream \in {"none", "open", "closed", "broken"}
  /\ refusals \in Nat

HeartbeatInit ==
  /\ hbPc = "off"
  /\ failedHeartbeatRetries = MaxRetries
  /\ hbStream = "none"
  /\ refusals = 0

-----------------------------------------------------------------------------

(* main() has started the goroutine.  Opening the stream fails for sure    *)
(* once the context is cancelled.                                          *)
OpenStream ==
  /\ hbPc = "off" /\ hbCtx # "none"
  /\ \/ hbCtx = "live" /\ hbStream' = "open" /\ hbPc' = "select" /\ exit' = exit
     \/ exit' = "heartbeat" /\ UNCHANGED <<hbPc, hbStream>>
  /\ UNCHANGED <<hbCtx, failedHeartbeatRetries, refusals>>

(* Mutant: the context is not looked at. *)
SelectDefault ==
  /\ hbPc = "select"
  /\ hbPc' = "send"
  /\ UNCHANGED <<exit, hbCtx, failedHeartbeatRetries, hbStream, refusals>>

(* The context is looked at here and nowhere else. *)
Select ==
  /\ hbPc = "select"
  /\ hbPc' = IF hbCtx = "cancelled" THEN "returned" ELSE "send"
  /\ UNCHANGED <<exit, hbCtx, failedHeartbeatRetries, hbStream, refusals>>

GiveUp ==
  /\ hbPc = "send"
  /\ failedHeartbeatRetries = 0
  /\ exit' = "heartbeat"
  /\ UNCHANGED <<hbCtx, hbVars>>

(* A send on a stream that is over returns an error. *)
Send ==
  /\ hbPc = "send"
  /\ failedHeartbeatRetries > 0
  /\ hbPc' = IF hbStream = "open" THEN "recv" ELSE "sleep"
  /\ UNCHANGED <<exit, hbCtx, failedHeartbeatRetries, hbStream, refusals>>

(* Recv on a stream that is over: io.EOF ends the goroutine, any other     *)
(* error does not count as a refusal.                                      *)
RecvEnd ==
  /\ hbPc = "recv"
  /\ hbStream \in {"closed", "broken"}
  /\ hbPc' = IF hbStream = "closed" THEN "returned" ELSE "sleep"
  /\ UNCHANGED <<exit, hbCtx, failedHeartbeatRetries, hbStream, refusals>>

(* Mutants: an accepted heartbeat earns one retry, or none; a refused one  *)
(* costs none.                                                             *)
RetriesEarned(reply) ==
  IF reply THEN failedHeartbeatRetries + 1 ELSE failedHeartbeatRetries - 1
RetriesNotReset(reply) ==
  IF reply THEN failedHeartbeatRetries ELSE failedHeartbeatRetries - 1
RetriesFree(reply) ==
  IF reply THEN MaxRetries ELSE failedHeartbeatRetries

RetriesAfter(reply) ==
  IF reply THEN MaxRetries ELSE failedHeartbeatRetries - 1

(* Mutant: the break leaves the loop, not only the select. *)
RecvReplyBreak ==
  /\ hbPc = "recv"
  /\ hbStream = "open"
  /\ \E reply \in BOOLEAN :
       /\ failedHeartbeatRetries' = RetriesAfter(reply)
       /\ hbPc' = IF reply THEN "returned" ELSE "select"
       /\ refusals' = IF reply THEN 0 ELSE refusals + 1
  /\ UNCHANGED <<exit, hbCtx, hbStream>>

(* The manager answers.  A refused heartbeat is repeated right away. *)
RecvReply ==
  /\ hbPc = "recv"
  /\ hbStream = "open"
  /\ \E reply \in BOOLEAN :
       /\ failedHeartbeatRetries' = RetriesAfter(reply)
       /\ hbPc' = IF reply THEN "sleep" ELSE "select"
       /\ refusals' = IF reply THEN 0 ELSE refusals + 1
  /\ UNCHANGED <<exit, hbCtx, hbStream>>

Wake ==
  /\ hbPc = "sleep"
  /\ hbPc' = "select"
  /\ UNCHANGED <<exit, hbCtx, failedHeartbeatRetries, hbStream, refusals>>

(* The manager or the network ends the stream. *)
StreamEnds ==
  /\ hbStream = "open"
  /\ hbStream' \in {"closed", "broken"}
  /\ UNCHANGED <<exit, hbCtx, hbPc, failedHeartbeatRetries, refusals>>

(* gRPC breaks the stream of a cancelled context. *)
CancelBreaks ==
  /\ hbStream = "open" /\ hbCtx = "cancelled"
  /\ hbStream' = "broken"
  /\ UNCHANGED <<exit, hbCtx, hbPc, failedHeartbeatRetries, refusals>>

(* What the goroutine and the gRPC library do by themselves. *)
Running ==
  /\ exit = "running"
  /\ OpenStream \/ Select \/ GiveUp \/ Send \/ RecvEnd \/ Wake \/ CancelBreaks

FromManager ==
  /\ exit = "running"
  /\ RecvReply \/ StreamEnds

-----------------------------------------------------------------------------
(* The goroutine beside a main() that starts it, and may stop it or exit.  *)

Start  == exit = "running" /\ hbCtx = "none" /\ hbCtx' = "live" /\ UNCHANGED <<exit, hbVars>>
Cancel == exit = "running" /\ hbCtx = "live" /\ hbCtx' = "cancelled" /\ UNCHANGED <<exit, hbVars>>
Exit   == exit = "running" /\ exit' = "done" /\ UNCHANGED <<hbCtx, hbVars>>

Init == exit = "running" /\ hbCtx = "none" /\ HeartbeatInit

Next == Running \/ FromManager \/ Start \/ Cancel \/ Exit

Spec == Init /\ [][Next]_<<exit, hbCtx, hbVars>>

(* Go schedules the goroutine, and gRPC ends a cancelled stream.  Nothing  *)
(* obliges the manager to answer.                                          *)
FairSpec == Spec /\ WF_<<exit, hbCtx, hbVars>>(Running)

-----------------------------------------------------------------------------
(* Properties. *)

(* The heartbeat ends the process only when it could not open its stream   *)
(* or when the manager's last three answers were refusals, with no         *)
(* accepted heartbeat among them; transport errors neither count as        *)
(* refusals nor forgive them (grpcbuild.go:198, 210-242).                  *)
FatalAfterThreeRefusals ==
  exit = "heartbeat" => hbPc = "off" \/ refusals = MaxRetries

(* Three refusals in a row are the end: no fourth heartbeat is sent        *)
(* (grpcbuild.go:210-215).                                                 *)
NoBeatAfterThreeRefusals == hbPc = "recv" => refusals < MaxRetries

(* A cancelled heartbeat stops, even one that waits for an answer that     *)
(* never comes (grpcbuild.go:207-208, 222-228).                            *)
HeartbeatsStop == hbCtx = "cancelled" ~> hbPc = "returned" \/ exit # "running"

(* As long as the context is live and the stream is open, the next         *)
(* heartbeat is sent, whatever became of the ones before it: an answer, a  *)
(* refusal or an error leaves the select and not the loop, and no wait but *)
(* that for the manager's answer holds it up (grpcbuild.go:205-247).       *)
BeatsGoOn ==
  hbCtx = "live" /\ hbStream = "open" ~>
    \/ hbPc = "recv"
    \/ hbCtx # "live" \/ hbStream # "open" \/ exit # "running"

=============================================================================
