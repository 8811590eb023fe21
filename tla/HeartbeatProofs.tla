-------------------------- MODULE HeartbeatProofs ---------------------------
(***************************************************************************)
(* Theorems about the heartbeat goroutine, however often the manager       *)
(* answers and whenever main() cancels or exits.                           *)
(***************************************************************************)
EXTENDS Heartbeat, TLAPS

(* The retries that are left and the refusals since the last accepted      *)
(* heartbeat add up, and an answer is waited for only with a retry left.   *)
HIInv ==
  /\ HeartbeatTypeOK
  /\ failedHeartbeatRetries + refusals = MaxRetries
  /\ hbPc = "recv" => failedHeartbeatRetries > 0
  /\ exit = "heartbeat" => hbPc = "off" \/ refusals = MaxRetries

(* Every step keeps the count.                                             *)
LEMMA HeartbeatInductive ==
  ASSUME HIInv, [Next]_<<exit, hbCtx, hbVars>>
  PROVE  HIInv'
<1> USE DEF HIInv, HeartbeatTypeOK, MaxRetries, hbVars
<1>1. CASE Running
  <2> USE <1>1 DEF Running
  <2>1. CASE OpenStream
    BY <2>1 DEF OpenStream
  <2>2. CASE Select
    BY <2>2 DEF Select
  <2>3. CASE GiveUp
    BY <2>3 DEF GiveUp
  <2>4. CASE Send
    BY <2>4 DEF Send
  <2>5. CASE RecvEnd
    BY <2>5 DEF RecvEnd
  <2>6. CASE Wake
    BY <2>6 DEF Wake
  <2>7. CASE CancelBreaks
    BY <2>7 DEF CancelBreaks
  <2> QED
    BY <2>1, <2>2, <2>3, <2>4, <2>5, <2>6, <2>7
<1>2. CASE FromManager
  <2> USE <1>2 DEF FromManager
  <2>1. CASE RecvReply
    BY <2>1 DEF RecvReply, RetriesAfter
  <2>2. CASE StreamEnds
    BY <2>2 DEF StreamEnds
  <2> QED
    BY <2>1, <2>2
<1>3. CASE Start \/ Cancel \/ Exit
  BY <1>3 DEF Start, Cancel, Exit
<1>4. CASE UNCHANGED <<exit, hbCtx, hbVars>>
  BY <1>4
<1> QED
  BY <1>1, <1>2, <1>3, <1>4 DEF Next

(* The count holds in every reachable state.                               *)
LEMMA HeartbeatInvariance == Spec => []HIInv
<1>1. Init => HIInv
  BY DEF Init, HeartbeatInit, HIInv, HeartbeatTypeOK, MaxRetries
<1> QED
  BY <1>1, HeartbeatInductive, PTL DEF Spec

(* Every variable of the heartbeat keeps its type, and the retries that    *)
(* are left their bounds (rpc/grpcbuild/grpcbuild.go:198, 233-240).        *)
THEOREM HeartbeatTypes == Spec => []HeartbeatTypeOK
<1>1. HIInv => HeartbeatTypeOK
  BY DEF HIInv
<1> QED
  BY <1>1, HeartbeatInvariance, PTL

(* The heartbeat ends the process only for a stream it cannot open, or for *)
(* three refusals with no accepted heartbeat among them                    *)
(* (rpc/grpcbuild/grpcbuild.go:198, 210-242).                              *)
THEOREM ThreeRefusals == Spec => []FatalAfterThreeRefusals
<1>1. HIInv => FatalAfterThreeRefusals
  BY DEF HIInv, FatalAfterThreeRefusals
<1> QED
  BY <1>1, HeartbeatInvariance, PTL

(* No fourth heartbeat follows three refusals in a row                     *)
(* (rpc/grpcbuild/grpcbuild.go:210-215).                                   *)
THEOREM NoFourthBeat == Spec => []NoBeatAfterThreeRefusals
<1>1. HIInv => NoBeatAfterThreeRefusals
  BY DEF HIInv, HeartbeatTypeOK, MaxRetries, NoBeatAfterThreeRefusals
<1> QED
  BY <1>1, HeartbeatInvariance, PTL

=============================================================================
