---------------------------- MODULE PhaseClient -----------------------------
(***************************************************************************)
(* grpcClient.SetPhase (rpc/grpcbuild) and the build manager at the other  *)
(* end of it.  A call sends one numbered request and waits for at most ten *)
(* seconds; giving up on a call does not take its request back, so the     *)
(* manager may act on it at any later time, even after the builder died.   *)
(*                                                                         *)
(* The manager is not part of this repository: it may accept or refuse any *)
(* request, in any order, and answer with any sequence number.             *)
(***************************************************************************)
EXTENDS Phases

VARIABLES
  currentPhase,      \* the phase of the last call
  phaseSequenceNum,  \* the number of the last call
  requests,          \* every SetPhaseRequest sent so far
  replies,           \* every SetPhaseResponse, with the request it answers
  job                \* the accepted request with the highest number

phaseVars == <<currentPhase, phaseSequenceNum, requests, replies, job>>

Request == [seq : Nat, phase : PbPhase]
Reply   == [to : Nat, success : BOOLEAN, sequenceNumber : Nat]

PhaseTypeOK ==
  /\ currentPhase \in Phase
  /\ phaseSequenceNum \in Nat
  /\ requests \subseteq Request
  /\ replies \subseteq Reply
  /\ job \in Request

PhaseInit ==
  /\ currentPhase = "Waiting"
  /\ phaseSequenceNum = 0
  /\ requests = {}
  /\ replies = {}
  /\ job = [seq |-> 0, phase |-> WAITING]

(* Mutant: the number is not counted up. *)
NextSequenceStuck == phaseSequenceNum

(* The number of the next call.  A call that fails keeps its number. *)
NextSequence == phaseSequenceNum + 1

SetPhase(p) ==
  /\ currentPhase' = p
  /\ phaseSequenceNum' = NextSequence
  /\ requests' = requests \cup {[seq |-> NextSequence, phase |-> phaseEnum(p)]}
  /\ UNCHANGED <<replies, job>>

(* The manager handles a request.  It moves the job to the phase and says  *)
(* so with success and the number of the request, unless the job is past   *)
(* it; or it refuses, and the job stays.  A success with any other number  *)
(* (0 stands for them all) is what the client takes for a request out of   *)
(* order (grpcbuild.go:133-136): the job may have moved, or not.           *)
ManagerAnswers ==
  /\ \E r \in requests : \E s \in BOOLEAN, n \in {0, r.seq} :
       /\ \A a \in replies : a.to # r.seq
       /\ replies' = replies \cup {[to |-> r.seq, success |-> s, sequenceNumber |-> n]}
       /\ \/ s /\ r.seq > job.seq /\ job' = r
          \/ (s /\ n = r.seq => r.seq <= job.seq) /\ job' = job
  /\ UNCHANGED <<currentPhase, phaseSequenceNum, requests>>

(* Mutants: any answer with the number is an acceptance; any success is.   *)
PhaseAnswered ==
  \E a \in replies : a.to = phaseSequenceNum /\ a.sequenceNumber = phaseSequenceNum

PhaseAcceptedAnyNumber ==
  \E a \in replies : a.to = phaseSequenceNum /\ a.success

(* SetPhase returns nil only for an answer to this very call that reports  *)
(* success and echoes the call's number.  It returns an error for any      *)
(* other answer, and also for no answer at all: the deadline of the call,  *)
(* or the transport, can fail it whatever the manager did.                 *)
PhaseAccepted ==
  \E a \in replies : /\ a.to = phaseSequenceNum
                     /\ a.success
                     /\ a.sequenceNumber = phaseSequenceNum

=============================================================================
