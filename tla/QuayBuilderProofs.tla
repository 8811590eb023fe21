------------------------- MODULE QuayBuilderProofs --------------------------
(***************************************************************************)
(* Theorems about the whole process: what main() relies on survives the    *)
(* steps of the heartbeat goroutine, and the builder itself stops the      *)
(* heartbeats only after the work.                                         *)
(***************************************************************************)
EXTENDS QuayBuilder, BuilderProofs

(* The heartbeats' context follows main()'s step, and the goroutine leaves *)
(* its loop only when the context is cancelled or the manager has ended    *)
(* the stream.                                                             *)
Early == {"connect", "register", "startHeartbeat"}
Late  == {"complete"} \cup Completed

HbInv ==
  /\ Where \in Early => hbCtx = "none"
  /\ Where \in Late  => hbCtx = "cancelled"
  /\ Where \notin Early \cup Late => hbCtx = "live"
  /\ requests # {} => Where \notin Early
  /\ hbPc = "returned" => hbCtx = "cancelled" \/ hbStream = "closed"

ProcessInv == IInv /\ HbInv

-----------------------------------------------------------------------------

(* A step of the heartbeat touches nothing of main() but the life of the   *)
(* process, which it may only end.                                         *)
LEMMA HeartbeatTouches ==
  ASSUME HeartbeatStep
  PROVE  /\ UNCHANGED <<phaseVars, containerVars, pc, context, disk, hbCtx>>
         /\ exit = "running"
         /\ exit' \in {"running", "heartbeat"}
<1> USE DEF HeartbeatStep
<1>1. CASE HB!Running
  BY <1>1 DEF HB!Running, HB!OpenStream, HB!Select, HB!GiveUp, HB!Send, HB!RecvEnd, HB!Wake,
              HB!CancelBreaks, HB!hbVars
<1>2. CASE HB!FromManager
  BY <1>2 DEF HB!FromManager, HB!RecvReply, HB!StreamEnds
<1> QED
  BY <1>1, <1>2

(* The invariant of main() is kept by the heartbeat as well.               *)
LEMMA MainInvKept == ASSUME IInv, HeartbeatStep PROVE IInv'
<1>1. /\ UNCHANGED <<phaseVars, containerVars, pc, context, disk, hbCtx>>
      /\ exit = "running" /\ exit' \in {"running", "heartbeat"}
  BY HeartbeatTouches
<1> USE <1>1 DEF IInv, phaseVars, containerVars, context
<1>2. TypeOK'
  BY DEF TypeOK, PhaseTypeOK, ContainerTypeOK, Failures
<1>3. PhaseInv'
  BY DEF PhaseInv, RequestsInv, NumbersOrderPhases, LastRequest, JobInv, AgreementInv
<1>4. WorkInv'
  BY DEF WorkInv, RequestInv, DataInv, PushInv, TagsLeft, NoStaleDockerError,
         OnlyBuiltImagesPushed, Wanted, Where
<1>5. ExitInv'
  BY DEF ExitInv, Where
<1> QED
  BY <1>2, <1>3, <1>4, <1>5

(* Once main() runs its steps, only the start and the stop of the          *)
(* heartbeats change their context.                                        *)
LEMMA ContextKept ==
  ASSUME [Next]_vars, ~StartHeartbeat, ~StopHeartbeat
  PROVE  hbCtx' = hbCtx
<1> USE DEF vars, mainVars
<1>1. CASE Main
  BY <1>1 DEF Main, Connect, RegisterBuildJob, NewContext, AnnouncePhase, PhaseReturns,
     Download, ParseDockerfile, PullImage, PrimeImage, BuildImage, PushImage, InspectBase,
     FindMostSimilarTag, TagImage, AllPushed, InspectBuilt, RemoveCached, RemoveBase,
     RemoveBuilt, RemoveImage, Prune
<1> QED
  BY <1>1 DEF Next, RequestReturns, RequestSucceeded, RequestFailed, DockerStreamError,
     WriterFatal, Manager, Terminated

(* Only a step of startup or of the end moves main() into or out of the    *)
(* steps at which there are no heartbeats.                                 *)
LEMMA WhereMoves ==
  ASSUME IInv, [Next]_vars, ~StartHeartbeat, ~StopHeartbeat
  PROVE  /\ Where' \in Early <=> Where \in Early
         /\ Where' \in Late <=> Where \in Late
         /\ requests' # {} => requests # {} \/ Where \notin Early
<1> USE DEF Early, Late, Completed, Where, At, Go, Fail, phaseVars
<1>1. CASE Connect \/ RegisterBuildJob \/ NewContext \/ Download \/ ParseDockerfile
  BY <1>1 DEF Connect, RegisterBuildJob, NewContext, Download, ParseDockerfile
<1>2. ASSUME NEW step \in DOMAIN Announced, AnnouncePhase(step)
      PROVE  /\ Where' \in Early <=> Where \in Early
             /\ Where' \in Late <=> Where \in Late
             /\ requests' # {} => requests # {} \/ Where \notin Early
  BY <1>2 DEF AnnouncePhase, SetPhase, Announced, After
<1>3. CASE PhaseReturns
  BY <1>3 DEF PhaseReturns, After
<1>4. CASE PullImage \/ PrimeImage \/ BuildImage \/ PushImage
  BY <1>4 DEF PullImage, PrimeImage, BuildImage, PushImage
<1>5. CASE InspectBase \/ FindMostSimilarTag \/ TagImage \/ AllPushed \/ InspectBuilt
  BY <1>5 DEF InspectBase, FindMostSimilarTag, TagImage, AllPushed, InspectBuilt
<1>6. CASE RemoveCached \/ RemoveBase \/ RemoveBuilt \/ Prune
  BY <1>6 DEF RemoveCached, RemoveBase, RemoveBuilt, RemoveImage, Prune
<1>7. request # Nil => pc = StepOf(request.op) /\ request.op \in Op
  BY DEF IInv, WorkInv, RequestInv, TypeOK, ContainerTypeOK, ContainerRequest
<1>8. CASE RequestSucceeded \/ RequestFailed
  <2>1. TypeOK /\ UNCHANGED phaseVars
    BY <1>8 DEF IInv, RequestSucceeded, RequestFailed
  <2>2. CASE RequestSucceeded
    BY <1>7, <2>1, <2>2 DEF RequestSucceeded, GoOn, RequestSucceeds, StepOf, Op
  <2>3. CASE RequestFailed
    BY <1>7, <2>1, <2>3, FailureReported DEF GiveUp, TryAgain, StepOf, Op
  <2> QED
    BY <1>8, <2>2, <2>3
<1>9. CASE DockerStreamError \/ WriterFatal
  BY <1>9 DEF DockerStreamError, WriterFatal, mainVars
<1>10. CASE Manager
  BY <1>10 DEF Manager, ManagerAnswers, mainVars
<1>11. CASE UNCHANGED vars
  BY <1>11 DEF vars, mainVars
<1> QED
  BY <1>1, <1>2, <1>3, <1>4, <1>5, <1>6, <1>8, <1>9, <1>10, <1>11
     DEF Next, Main, RequestReturns, Terminated

(* Every step of the process keeps the invariant.                          *)
LEMMA ProcessInductive == ASSUME ProcessInv, [ProcessNext]_processVars PROVE ProcessInv'
<1> USE DEF ProcessInv
<1>1. CASE MainStep \/ UNCHANGED processVars
  <2>1. [Next]_vars /\ UNCHANGED heartbeatVars
    BY <1>1 DEF MainStep, processVars
  <2>2. IInv'
    BY <2>1, TypePreserved, PhasePreserved, WorkPreserved, ExitPreserved DEF IInv
  <2>3. CASE StartHeartbeat
    BY <2>1, <2>2, <2>3 DEF StartHeartbeat, HbInv, Where, Early, Late, Completed, At, Go,
       phaseVars, heartbeatVars
  <2>4. CASE StopHeartbeat
    BY <2>1, <2>2, <2>4 DEF StopHeartbeat, HbInv, Where, Early, Late, Completed, At, Go, phaseVars,
       heartbeatVars
  <2>5. CASE ~StartHeartbeat /\ ~StopHeartbeat
    <3>1. hbCtx' = hbCtx
      BY <2>1, <2>5, ContextKept
    <3>2. /\ Where' \in Early <=> Where \in Early
          /\ Where' \in Late <=> Where \in Late
          /\ requests' # {} => requests # {} \/ Where \notin Early
      BY <2>1, <2>5, WhereMoves
    <3> QED
      BY <2>1, <2>2, <3>1, <3>2 DEF HbInv, heartbeatVars
  <2> QED
    BY <2>2, <2>3, <2>4, <2>5
<1>2. CASE HeartbeatStep
  <2>1. /\ UNCHANGED <<phaseVars, pc, hbCtx>>
        /\ IInv'
    BY <1>2, HeartbeatTouches, MainInvKept
  <2>2. hbPc' = "returned" => hbCtx' = "cancelled" \/ hbStream' = "closed"
    <3>1. CASE HB!Running
      BY <2>1, <3>1 DEF HbInv, HB!Running, HB!OpenStream, HB!Select, HB!GiveUp, HB!Send,
         HB!RecvEnd, HB!Wake, HB!CancelBreaks, HB!hbVars
    <3>2. CASE HB!FromManager
      BY <2>1, <3>2 DEF HbInv, HB!FromManager, HB!RecvReply, HB!StreamEnds
    <3> QED
      BY <1>2, <3>1, <3>2 DEF HeartbeatStep
  <2> QED
    BY <2>1, <2>2 DEF HbInv, Where, phaseVars
<1> QED
  BY <1>1, <1>2 DEF ProcessNext

(* The invariant holds in every reachable state of the process.            *)
LEMMA ProcessInvariance == ProcessSpec => []ProcessInv
<1>1. ProcessInit => ProcessInv
  <2> SUFFICES ASSUME ProcessInit PROVE ProcessInv
    OBVIOUS
  <2>1. IInv
    BY InitInv DEF ProcessInit
  <2>2. HbInv
    BY DEF ProcessInit, HB!HeartbeatInit, Init, PhaseInit, HbInv, Where, Early, Late, Completed
  <2> QED
    BY <2>1, <2>2 DEF ProcessInv
<1> QED
  BY <1>1, ProcessInductive, PTL DEF ProcessSpec

-----------------------------------------------------------------------------

(* Past the push loop every tag of the job is in the registry.             *)
LEMMA LateIsPushed == ASSUME IInv, Where \in Late PROVE Wanted \subseteq Published
<1>1. /\ args.tagNames \in Seq(Names) /\ tagIdx \in Nat \ {0}
  BY TagNamesType DEF IInv, TypeOK
<1>2. /\ ~TagsLeft
      /\ \A i \in 1..(tagIdx - 1) : registry[args.tagNames[i]] = "built"
  BY DEF IInv, WorkInv, PushInv, Late
<1> QED
  BY <1>1, <1>2 DEF TagsLeft, Wanted, Published

(* The builder does not stop its heartbeats while a tag is to be pushed,   *)
(* in any interleaving: main() has not cancelled them, nor has the loop    *)
(* returned over a stream that was open (cmd/quay-builder/main.go:92-94,   *)
(* 139-145, rpc/grpcbuild/grpcbuild.go:205-247).                           *)
THEOREM HeartbeatsLast == ProcessSpec => []HeartbeatWhileWorking
<1>1. ProcessInv => HeartbeatWhileWorking
  BY LateIsPushed DEF ProcessInv, HbInv, HeartbeatWhileWorking
<1> QED
  BY <1>1, ProcessInvariance, PTL

(* A heartbeat that ends the process cannot have completed a job that is   *)
(* not complete (cmd/quay-builder/main.go:144-148,                         *)
(* rpc/grpcbuild/grpcbuild.go:210-212).                                    *)
THEOREM LossIsHonest == ProcessSpec => []HeartbeatLossIsHonest
<1>1. ProcessInv => HeartbeatLossIsHonest
  <2> SUFFICES ASSUME ProcessInv, job.phase = COMPLETE
               PROVE  Wanted \subseteq Published /\ hbCtx = "cancelled"
    BY DEF HeartbeatLossIsHonest
  <2>1. Where \in Completed
    BY CompletedWhere DEF ProcessInv
  <2> QED
    BY <2>1, LateIsPushed DEF ProcessInv, HbInv, Late
<1> QED
  BY <1>1, ProcessInvariance, PTL

(* Success and the manager's view of the job agree although the heartbeats *)
(* may end the process at any point (cmd/quay-builder/main.go:148-151).    *)
THEOREM ProcessOutcomesAgree == ProcessSpec => []OutcomeAgrees
<1>1. ProcessInv => OutcomeAgrees
  BY OutcomeInductive DEF ProcessInv
<1> QED
  BY <1>1, ProcessInvariance, PTL

(* The whole process keeps the promise of a build job, wherever the        *)
(* heartbeats end it: for the job, that is a failure like any other        *)
(* (cmd/quay-builder/main.go:90-103, rpc/grpcbuild/grpcbuild.go:200-212).  *)
THEOREM ProcessRefinement == ProcessSpec => ImplementsBuildJob
<1>1. ProcessInit => Job!Init
  BY InitRefines DEF ProcessInit
<1>2. ASSUME ProcessInv, [ProcessNext]_processVars PROVE [Job!Next]_(Job!jobVars)
  <2>1. CASE MainStep \/ UNCHANGED processVars
    <3>1. [Next]_vars
      BY <2>1 DEF MainStep, processVars
    <3> QED
      BY <1>2, <3>1, StepRefines DEF ProcessInv
  <2>2. CASE HeartbeatStep
    <3>1. /\ UNCHANGED <<job, args, registry>>
          /\ exit = "running" /\ exit' \in {"running", "heartbeat"}
      BY <2>2, HeartbeatTouches DEF phaseVars, containerVars, context
    <3> QED
      BY <3>1, Stutters, ErrorFinishes DEF Visible, Failures, Job!Next
  <2> QED
    BY <1>2, <2>1, <2>2 DEF ProcessNext
<1> QED
  BY <1>1, <1>2, ProcessInvariance, PTL DEF ProcessSpec, ImplementsBuildJob, Job!Spec

=============================================================================
