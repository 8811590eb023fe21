--------------------------- MODULE BuilderProofs ----------------------------
(***************************************************************************)
(* Theorems about the main goroutine, for any jobs, names and number of    *)
(* tags.  The invariants of Builder are not inductive; the conjuncts of    *)
(* IInv below are what a step of main() relies on.                         *)
(***************************************************************************)
EXTENDS Builder, TLAPS

(* The step main() is at, or will be at when its call of SetPhase returns. *)
Where == IF pc = "awaitPhase" THEN After(currentPhase) ELSE pc

Unregistered == {"connect", "register"}
Unpacking    == {"download", "parse", "pull"}
Pulling      == {"pullImage", "cache", "inspectBase", "similarTag", "prime", "primeImage",
                 "build"}
Building     == {"buildImage", "push"}
Pushing      == {"tagImage", "pushImage", "inspectBuilt", "stopHeartbeat", "complete"}
Completed    == {"rmCached", "rmBase", "rmBuilt", "prune", "end"}

(* The wire phase main() has announced before it gets to a step. *)
Rank(step) == CASE step \in Unpacking -> UNPACKING
                [] step \in Pulling   -> PULLING
                [] step \in Building  -> BUILDING
                [] step \in Pushing   -> PUSHING
                [] step \in Completed -> COMPLETE
                [] OTHER              -> WAITING

-----------------------------------------------------------------------------
(* The conversation with the manager. *)

LastRequest == [seq |-> phaseSequenceNum, phase |-> phaseEnum(currentPhase)]

RequestsInv ==
  /\ \A r \in requests : /\ 1 <= r.seq /\ r.seq <= phaseSequenceNum
                         /\ r.phase <= phaseEnum(currentPhase)
  /\ NumbersOrderPhases
  /\ phaseSequenceNum # 0 => LastRequest \in requests

JobInv ==
  /\ job \in requests \/ job = [seq |-> 0, phase |-> WAITING]
  /\ \A a \in replies : a.success /\ a.sequenceNumber = a.to => a.to <= job.seq

(* Outside of a call the manager has the job in the phase of main()'s      *)
(* step; so it has in a call whose result makes no difference.             *)
AgreementInv ==
  /\ pc = "awaitPhase" =>
       /\ phaseSequenceNum # 0
       /\ \E step \in DOMAIN Announced : currentPhase = Announced[step]
       /\ ErrorIgnored(currentPhase) => job.phase = PULLING
  /\ pc # "awaitPhase" =>
       /\ phaseEnum(currentPhase) = Rank(pc)
       /\ job.phase = Rank(pc)

PhaseInv == RequestsInv /\ JobInv /\ AgreementInv

-----------------------------------------------------------------------------
(* The work. *)

StepOf(op) == CASE op = "pull"  -> "pullImage"
                [] op = "prime" -> "primeImage"
                [] op = "build" -> "buildImage"
                [] op = "push"  -> "pushImage"

RequestInv ==
  request # Nil =>
    /\ pc = StepOf(request.op)
    /\ request.op \in {"pull", "prime"} => request.ref \in Names
    /\ request.op = "prime" => request.ref = cachedTag
    /\ request.op = "build" => request.ref = BuildID
    /\ request.op = "push"  => request.ref = args.tagNames[tagIdx]

(* What is known by the time main() gets to a step. *)
DataInv ==
  /\ Where \in Unregistered => args = NoJob /\ tagIdx = 1
  /\ Where \in (Pulling \cup {"pull"}) => base # Nil
  /\ Where \in {"prime", "primeImage"} => cachedTag # Nil

(* The image of every tag that is pushed is the built one. *)
PushInv ==
  /\ tagIdx <= Len(args.tagNames) + 1
  /\ \A i \in 1..(tagIdx - 1) : registry[args.tagNames[i]] = "built"
  /\ Where \in {"push", "tagImage", "pushImage"} =>
       buildID = BuildID /\ local[BuildID] = "built"
  /\ Where = "pushImage" => TagsLeft /\ local[args.tagNames[tagIdx]] = "built"
  /\ Where \in ({"inspectBuilt", "stopHeartbeat", "complete"} \cup Completed) => ~TagsLeft
  /\ OnlyBuiltImagesPushed

(* No step fails once the last phase was announced. *)
ExitInv ==
  /\ exit = "done" => pc = "end"
  /\ Where \in Completed => exit \in {"running", "done", "phase", "heartbeat"}

WorkInv == RequestInv /\ DataInv /\ PushInv /\ NoStaleDockerError

IInv == TypeOK /\ PhaseInv /\ WorkInv /\ ExitInv

-----------------------------------------------------------------------------

(* The initial states satisfy the invariant. *)
LEMMA InitInv == Init => IInv
<1> SUFFICES ASSUME Init PROVE IInv
  OBVIOUS
<1> USE NamesAssumption, JobsAssumption
<1> USE DEF Init, PhaseInit, ContainerInit
<1>1. TypeOK
  BY DEF TypeOK, PhaseTypeOK, ContainerTypeOK, Phase, PbPhase, Request, Reply, Image,
         Steps, NoJob, WAITING, ERROR
<1>2. PhaseInv
  BY DEF PhaseInv, RequestsInv, NumbersOrderPhases, JobInv, AgreementInv, Rank, Unpacking,
         Pulling, Building, Pushing, Completed, phaseEnum
<1>3. WorkInv
  BY DEF WorkInv, RequestInv, DataInv, PushInv, NoStaleDockerError, OnlyBuiltImagesPushed,
         Where, NoJob, Unregistered, Pulling, Completed
<1>4. ExitInv
  BY DEF ExitInv, Where, Completed
<1> QED
  BY <1>1, <1>2, <1>3, <1>4 DEF IInv

-----------------------------------------------------------------------------
(* The loop of retryDockerRequest ends in its last attempt: it never       *)
(* returns nil for a request that failed (buildctx/context.go:173, 184).   *)
LEMMA FailureReported ==
  ASSUME TypeOK, RequestFailed
  PROVE  /\ exit = "running" /\ request # Nil
         /\ request \in ContainerRequest
         /\ \/ /\ LastAttempt /\ GiveUp
               /\ request' = Nil
               /\ errResponse' = Nil \/ (request.op = "build" /\ UNCHANGED errResponse)
            \/ /\ ~LastAttempt /\ TryAgain
               /\ request.attempt \in 0..1
               /\ request' = [request EXCEPT !.attempt = @ + 1]
               /\ errResponse' = Nil
         /\ CarriedOut \/ UNCHANGED <<local, registry>>
         /\ UNCHANGED <<runtime, phaseVars, args, hbCtx, base, cachedTag>>
<1>1. /\ exit = "running" /\ request # Nil /\ request \in ContainerRequest
      /\ request.attempt \in 0..2
  BY DEF TypeOK, ContainerTypeOK, RequestFailed, RequestFails, ContainerRequest, MaxAttempts
<1>2. CASE LastAttempt
  <2>1. AfterFailure = "error"
    BY <1>2 DEF AfterFailure
  <2> QED
    BY <1>1, <1>2, <2>1 DEF RequestFailed, RequestFails, ErrResponse, ResetError
<1>3. CASE ~LastAttempt
  <2>1. request.attempt \in 0..1 /\ request.op # "build"
    BY <1>1, <1>3 DEF LastAttempt, LastIndex
  <2>2. AfterFailure = "retry"
    BY <1>3, <2>1 DEF AfterFailure, MaxAttempts
  <2> QED
    BY <1>1, <1>3, <2>1, <2>2 DEF RequestFailed, RequestFails, ErrResponse, ResetError
<1> QED
  BY <1>2, <1>3

(* Each step keeps the types. *)
LEMMA TypePreserved == ASSUME IInv, [Next]_vars PROVE TypeOK'
<1> USE NamesAssumption, JobsAssumption
<1> USE DEF IInv, TypeOK, PhaseTypeOK, ContainerTypeOK, phaseVars, containerVars, context,
            At, Go, Fail, Steps, Failures
<1>1. CASE Connect
  BY <1>1 DEF Connect
<1>2. CASE RegisterBuildJob
  BY <1>2 DEF RegisterBuildJob
<1>3. CASE StartHeartbeat
  BY <1>3 DEF StartHeartbeat
<1>4. CASE NewContext
  BY <1>4 DEF NewContext
<1>5. ASSUME NEW step \in DOMAIN Announced, AnnouncePhase(step)
      PROVE  TypeOK'
  <2>1. /\ currentPhase' \in Phase
        /\ [seq |-> NextSequence, phase |-> phaseEnum(currentPhase')] \in Request
    BY <1>5 DEF AnnouncePhase, SetPhase, Announced, Phase, NextSequence, Request, PbPhase,
                phaseEnum, WAITING, UNPACKING, PULLING, BUILDING, PUSHING, COMPLETE, ERROR
  <2> QED
    BY <1>5, <2>1 DEF AnnouncePhase, SetPhase, NextSequence
<1>6. CASE PhaseReturns
  BY <1>6 DEF PhaseReturns, After
<1>7. CASE Download
  BY <1>7 DEF Download
<1>8. CASE ParseDockerfile
  BY <1>8 DEF ParseDockerfile
<1>9. ASSUME NEW op \in Op, NEW ref \in Refs, BeginRequest(op, ref), UNCHANGED phaseVars,
             Go(pc), UNCHANGED <<context, hbCtx, disk>>
      PROVE  TypeOK'
  <2>1. request' \in ContainerRequest
    BY <1>9 DEF BeginRequest, ContainerRequest, MaxAttempts
  <2>2. errResponse' \in {errResponse, Nil}
    BY <1>9 DEF BeginRequest, ResetError
  <2> QED
    BY <1>9, <2>1, <2>2 DEF BeginRequest
<1>10. CASE PullImage
  <2>1. CASE base = Scratch
    BY <1>10, <2>1 DEF PullImage
  <2>2. CASE base # Scratch
    <3>1. base \in Refs
      BY <1>10, <2>2 DEF PullImage, WorkInv, DataInv, Where, Pulling, Refs
    <3> QED
      BY <1>10, <2>2, <3>1, <1>9 DEF PullImage, Op
  <2> QED
    BY <2>1, <2>2
<1>11. CASE PrimeImage
  <2>1. cachedTag \in Refs
    BY <1>11 DEF PrimeImage, WorkInv, DataInv, Where, Refs
  <2> QED
    BY <1>11, <2>1, <1>9 DEF PrimeImage, Op
<1>12. CASE BuildImage
  BY <1>12, <1>9 DEF BuildImage, Op, Refs
<1>13. CASE PushImage
  <2>1. args.tagNames[tagIdx] \in Refs
    BY <1>13 DEF PushImage, WorkInv, PushInv, TagsLeft, Where, NoJob, Refs
  <2> QED
    BY <1>13, <2>1, <1>9 DEF PushImage, Op
<1>14. ASSUME request # Nil, CarriedOut
       PROVE  local' \in [Refs -> Image] /\ registry' \in [Names -> Image]
  BY <1>14 DEF CarriedOut, Store, ContainerRequest, Image
<1>15. CASE RequestSucceeded
  <2>1. ContainerTypeOK'
    BY <1>14, <1>15 DEF RequestSucceeded, RequestSucceeds, ErrResponse, ResetError
  <2>2. PhaseTypeOK' /\ args' = args /\ hbCtx' = hbCtx /\ base' = base /\ cachedTag' = cachedTag
    BY <1>15 DEF RequestSucceeded
  <2>3. /\ pc' \in Steps /\ exit' = exit /\ disk' \subseteq disk
        /\ cacheTag' \in {cacheTag, cachedTag} /\ tagIdx' \in {tagIdx, tagIdx + 1}
        /\ buildID' \in {buildID, BuildID}
    BY <1>15 DEF RequestSucceeded, GoOn, RequestSucceeds, RemoveContext, WorkInv, RequestInv,
                 ContainerRequest, Op
  <2> QED
    BY <2>1, <2>2, <2>3
<1>16. CASE RequestFailed
  <2>1. request' \in ContainerRequest \cup {Nil}
    BY <1>16, FailureReported DEF ContainerRequest, MaxAttempts
  <2>2. ContainerTypeOK'
    BY <1>14, <1>16, <2>1, FailureReported
  <2>3. /\ pc' \in Steps /\ exit' \in Failures \cup {"running"} /\ disk' \subseteq disk
        /\ UNCHANGED <<cacheTag, buildID, tagIdx>>
    BY <1>16, FailureReported DEF GiveUp, TryAgain, RemoveContext, ContainerRequest, Op
  <2>4. UNCHANGED <<phaseVars, args, hbCtx, base, cachedTag>>
    BY <1>16 DEF RequestFailed
  <2> QED
    BY <2>2, <2>3, <2>4
<1>17. CASE DockerStreamError
  BY <1>17 DEF DockerStreamError, StreamError, mainVars
<1>18. CASE WriterFatal
  BY <1>18 DEF WriterFatal
<1>19. CASE InspectBase
  BY <1>19 DEF InspectBase, ErrResponse, ResetError
<1>20. CASE FindMostSimilarTag
  BY <1>20 DEF FindMostSimilarTag
<1>21. CASE TagImage
  <2>1. buildID = BuildID
    BY <1>21 DEF TagImage, WorkInv, PushInv, Where
  <2>2. local' \in [Refs -> Image]
    BY <1>21, <2>1 DEF TagImage, TagAs, Refs
  <2>3. /\ errResponse' \in {errResponse, Nil} /\ pc' \in Steps
        /\ exit' \in {exit, "tag"}
    BY <1>21 DEF TagImage, ErrResponse, ResetError
  <2> QED
    BY <1>21, <2>2, <2>3 DEF TagImage
<1>22. CASE AllPushed
  BY <1>22 DEF AllPushed
<1>23. CASE InspectBuilt
  BY <1>23 DEF InspectBuilt, ErrResponse, ResetError
<1>24. CASE StopHeartbeat
  BY <1>24 DEF StopHeartbeat
<1>25. CASE RemoveCached \/ RemoveBase \/ RemoveBuilt
  BY <1>25 DEF RemoveCached, RemoveBase, RemoveBuilt, RemoveImage, MayRemove, Image
<1>26. CASE Prune
  BY <1>26 DEF Prune
<1>27. CASE Manager
  BY <1>27 DEF Manager, ManagerAnswers, mainVars, Reply, Request
<1>28. CASE UNCHANGED vars
  BY <1>28 DEF vars, mainVars
<1> QED
  BY <1>1, <1>2, <1>3, <1>4, <1>5, <1>6, <1>7, <1>8, <1>10, <1>11, <1>12, <1>19, <1>20,
     <1>21, <1>22, <1>23, <1>24, <1>25, <1>26, <1>27, <1>28, <1>13, <1>15, <1>16, <1>17,
     <1>18
     DEF Next, Main, RequestReturns, Terminated

-----------------------------------------------------------------------------
(* The conversation.  Only three actions take part in it: a call, its      *)
(* return, and the manager.  Any other step leaves it alone, and takes     *)
(* main() to a step of the same rank.                                      *)

Quiet == /\ UNCHANGED phaseVars
         /\ pc' = pc \/ /\ pc # "awaitPhase" /\ pc' # "awaitPhase"
                        /\ Rank(pc') = Rank(pc)

(* A step that is none of the three is quiet.                              *)
LEMMA OtherStepsQuiet ==
  ASSUME IInv, [Next]_vars, ~PhaseReturns, ~Manager,
         \A step \in DOMAIN Announced : ~AnnouncePhase(step)
  PROVE  Quiet
<1> USE DEF Quiet, At, Go, Fail, Rank, Unpacking, Pulling, Building, Pushing, Completed
<1>1. CASE Connect \/ RegisterBuildJob \/ StartHeartbeat \/ NewContext
  BY <1>1 DEF Connect, RegisterBuildJob, StartHeartbeat, NewContext
<1>2. CASE Download \/ ParseDockerfile
  BY <1>2 DEF Download, ParseDockerfile
<1>3. CASE PullImage \/ PrimeImage \/ BuildImage \/ PushImage
  BY <1>3 DEF PullImage, PrimeImage, BuildImage, PushImage
<1>4. CASE InspectBase \/ FindMostSimilarTag
  BY <1>4 DEF InspectBase, FindMostSimilarTag
<1>5. CASE TagImage \/ AllPushed \/ InspectBuilt
  BY <1>5 DEF TagImage, AllPushed, InspectBuilt
<1>6. CASE StopHeartbeat \/ RemoveCached \/ RemoveBase \/ RemoveBuilt \/ Prune
  BY <1>6 DEF StopHeartbeat, RemoveCached, RemoveBase, RemoveBuilt, RemoveImage, Prune
<1>7. CASE RequestSucceeded
  BY <1>7 DEF RequestSucceeded, GoOn, RequestSucceeds, IInv, TypeOK, ContainerTypeOK,
              ContainerRequest, Op, WorkInv, RequestInv, StepOf
<1>8. CASE RequestFailed
  BY <1>8, FailureReported DEF GiveUp, TryAgain, IInv, ContainerRequest, Op, WorkInv,
              RequestInv, StepOf
<1>9. CASE DockerStreamError \/ WriterFatal
  BY <1>9 DEF DockerStreamError, WriterFatal, mainVars
<1>10. CASE UNCHANGED vars
  BY <1>10 DEF vars, mainVars
<1> QED
  BY <1>1, <1>2, <1>3, <1>4, <1>5, <1>6, <1>7, <1>8, <1>9, <1>10
     DEF Next, Main, RequestReturns, Terminated

(* Every phase has a number on the wire.                                   *)
LEMMA EnumType == \A p : phaseEnum(p) \in Nat
  BY DEF phaseEnum, WAITING, UNPACKING, PULLING, BUILDING, PUSHING, COMPLETE, ERROR

(* A higher request than the job's is for the same phase or a later one,   *)
(* and none is for a later phase than the last one.                        *)
LEMMA PhasePreserved == ASSUME IInv, [Next]_vars PROVE PhaseInv'
<1> USE DEF PhaseInv
<1>1. TypeOK /\ PhaseTypeOK
  BY DEF IInv, TypeOK
<1>2. ASSUME NEW step \in DOMAIN Announced, AnnouncePhase(step)
      PROVE  PhaseInv'
  <2>1. /\ requests' = requests \cup {LastRequest'}
        /\ phaseSequenceNum' = phaseSequenceNum + 1
        /\ phaseSequenceNum \in Nat
        /\ pc' = "awaitPhase"
        /\ currentPhase' = Announced[step]
        /\ UNCHANGED <<replies, job>>
    BY <1>1, <1>2 DEF AnnouncePhase, SetPhase, Go, LastRequest, NextSequence, PhaseTypeOK
  <2>2. /\ phaseEnum(currentPhase) <= phaseEnum(currentPhase')
        /\ ErrorIgnored(currentPhase') => job.phase = PULLING
    <3>1. /\ phaseEnum(currentPhase) = Rank(step)
          /\ job.phase = Rank(step)
      BY <1>2 DEF AnnouncePhase, At, Announced, IInv, AgreementInv
    <3>2. /\ Rank(step) <= phaseEnum(Announced[step])
          /\ ErrorIgnored(Announced[step]) => Rank(step) = PULLING
      BY DEF Announced, Rank, Unpacking, Pulling, Building, Pushing, Completed, phaseEnum,
             ErrorIgnored, WAITING, UNPACKING, PULLING, BUILDING, PUSHING, COMPLETE, ERROR
    <3> QED
      BY <2>1, <3>1, <3>2
  <2>3. RequestsInv'
    <3>1. LastRequest'.seq = phaseSequenceNum + 1
          /\ LastRequest'.phase = phaseEnum(currentPhase')
      BY <2>1 DEF LastRequest
    <3>2. \A r \in requests : /\ r.seq \in Nat /\ r.phase \in Nat
                              /\ 1 <= r.seq /\ r.seq < LastRequest'.seq
                              /\ r.phase <= LastRequest'.phase
      BY <1>1, <2>1, <2>2, <3>1, EnumType
         DEF IInv, RequestsInv, PhaseTypeOK, Request, PbPhase, WAITING, ERROR
    <3>3. NumbersOrderPhases'
      <4> SUFFICES ASSUME NEW r1 \in requests', NEW r2 \in requests'
                   PROVE  /\ r1.seq = r2.seq => r1 = r2
                          /\ r1.seq < r2.seq => r1.phase <= r2.phase
        BY DEF NumbersOrderPhases
      <4> QED
        BY <2>1, <3>1, <3>2 DEF IInv, RequestsInv, NumbersOrderPhases
    <3> QED
      BY <2>1, <3>1, <3>2, <3>3, EnumType DEF RequestsInv
  <2>4. JobInv' /\ AgreementInv'
    BY <2>1, <2>2 DEF IInv, JobInv, AgreementInv
  <2> QED
    BY <2>3, <2>4
<1>3. CASE PhaseReturns
  <2>1. /\ UNCHANGED phaseVars /\ pc = "awaitPhase"
        /\ pc' = "awaitPhase" \/ pc' = After(currentPhase)
    BY <1>3 DEF PhaseReturns, At, Go, Fail
  <2>2. RequestsInv' /\ JobInv'
    BY <2>1 DEF IInv, RequestsInv, JobInv, phaseVars, NumbersOrderPhases, LastRequest
  <2>3. CASE pc' = "awaitPhase"
    BY <2>1, <2>2, <2>3 DEF IInv, AgreementInv, phaseVars
  <2>4. CASE pc' = After(currentPhase)
    <3>1. PICK step \in DOMAIN Announced : currentPhase = Announced[step]
      BY <2>1 DEF IInv, AgreementInv
    <3>2. /\ After(currentPhase) # "awaitPhase"
          /\ phaseEnum(currentPhase) = Rank(After(currentPhase))
          /\ ErrorIgnored(currentPhase) => phaseEnum(currentPhase) = PULLING
      BY <3>1 DEF Announced, After, Rank, Unpacking, Pulling, Building, Pushing, Completed,
             phaseEnum, ErrorIgnored
    <3>3. PhaseAccepted => job.phase = phaseEnum(currentPhase)
      <4> SUFFICES ASSUME PhaseAccepted PROVE job = LastRequest
        BY DEF LastRequest
      <4>1. job.seq >= phaseSequenceNum /\ phaseSequenceNum # 0
        BY <1>1, <2>1 DEF PhaseAccepted, IInv, JobInv, AgreementInv, PhaseTypeOK, Reply, Request
      <4>2. job \in requests
        BY <1>1, <4>1 DEF IInv, JobInv, PhaseTypeOK
      <4> QED
        BY <1>1, <4>1, <4>2 DEF IInv, RequestsInv, NumbersOrderPhases, LastRequest,
           PhaseTypeOK, Request
    <3>4. PhaseAccepted \/ ErrorIgnored(currentPhase)
      BY <1>3, <2>4, <2>1, <3>2 DEF PhaseReturns, At, Go, Fail
    <3>5. job.phase = phaseEnum(currentPhase)
      BY <2>1, <3>2, <3>3, <3>4 DEF IInv, AgreementInv
    <3> QED
      BY <2>1, <2>2, <2>4, <3>2, <3>5 DEF AgreementInv, phaseVars
  <2> QED
    BY <2>1, <2>3, <2>4
<1>4. CASE Manager
  <2>1. UNCHANGED <<currentPhase, phaseSequenceNum, requests, pc>>
    BY <1>4 DEF Manager, ManagerAnswers, mainVars
  <2>2. PICK r \in requests, s \in BOOLEAN, n \in Nat :
          /\ replies' = replies \cup {[to |-> r.seq, success |-> s, sequenceNumber |-> n]}
          /\ \/ r.seq > job.seq /\ job' = r
             \/ (s /\ n = r.seq => r.seq <= job.seq) /\ job' = job
    BY <1>1, <1>4 DEF Manager, ManagerAnswers, PhaseTypeOK, Request
  <2>3. RequestsInv'
    BY <2>1 DEF IInv, RequestsInv, NumbersOrderPhases, LastRequest
  <2>4. JobInv'
    BY <1>1, <2>1, <2>2 DEF IInv, JobInv, PhaseTypeOK, Request, Reply
  <2>5. \/ job.phase <= job'.phase /\ job'.phase <= phaseEnum(currentPhase)
        \/ job' = job
    BY <1>1, <2>2 DEF IInv, JobInv, RequestsInv, NumbersOrderPhases, PhaseTypeOK, Request,
       PbPhase, WAITING
  <2>6. job'.phase \in Nat /\ job.phase \in Nat /\ phaseEnum(currentPhase) \in Nat
    BY <1>1, <2>2, EnumType DEF PhaseTypeOK, Request, PbPhase, WAITING, ERROR
  <2>7. job.phase = phaseEnum(currentPhase) => job'.phase = job.phase
    BY <2>5, <2>6
  <2>8. ErrorIgnored(currentPhase) => phaseEnum(currentPhase) = PULLING
    BY DEF ErrorIgnored, phaseEnum
  <2>9. AgreementInv'
    BY <2>1, <2>7, <2>8 DEF IInv, AgreementInv
  <2> QED
    BY <2>3, <2>4, <2>9
<1>5. CASE Quiet
  BY <1>5 DEF Quiet, IInv, RequestsInv, NumbersOrderPhases, JobInv, AgreementInv,
     LastRequest, phaseVars
<1> QED
  BY <1>2, <1>3, <1>4, <1>5, OtherStepsQuiet

-----------------------------------------------------------------------------
(* The work.  Where follows pc, but is not moved by the return of a call.  *)

(* The tags of the job are a sequence of names, also before there is a job.*)
LEMMA TagNamesType == ASSUME TypeOK PROVE args.tagNames \in Seq(Names)
<1>1. \A j \in Jobs : j.tagNames \in Seq(Names)
  BY JobsAssumption
<1>2. NoJob.tagNames \in Seq(Names)
  BY DEF NoJob
<1> QED
  BY <1>1, <1>2 DEF TypeOK

(* Each step keeps what main() knows about the request in progress, the    *)
(* image it builds and the tags it pushes.                                 *)
LEMMA WorkPreserved == ASSUME IInv, [Next]_vars PROVE WorkInv'
<1> USE NamesAssumption, JobsAssumption
<1> USE DEF WorkInv, At, Go, Fail, phaseVars, containerVars, context
<1> USE DEF RequestInv, StepOf, DataInv, PushInv, NoStaleDockerError, OnlyBuiltImagesPushed,
            Where, TagsLeft, Unregistered, Pulling, Completed
<1>1. TypeOK /\ WorkInv
  BY DEF IInv
<1>2. /\ args.tagNames \in Seq(Names) /\ tagIdx \in Nat \ {0}
      /\ registry \in [Names -> Image] /\ local \in [Refs -> Image]
      /\ request # Nil => request \in ContainerRequest /\ request.op \in Op
  BY <1>1, TagNamesType DEF TypeOK, ContainerTypeOK, ContainerRequest
<1> USE <1>1, <1>2 DEF Op
<1>3. CASE Connect \/ StartHeartbeat \/ NewContext \/ StopHeartbeat \/ Prune
  BY <1>3 DEF Connect, StartHeartbeat, NewContext, StopHeartbeat, Prune, Wanted
<1>4. CASE RegisterBuildJob
  BY <1>4 DEF RegisterBuildJob, Wanted, NoJob
<1>5. ASSUME NEW step \in DOMAIN Announced, AnnouncePhase(step)
      PROVE  WorkInv'
  BY <1>5 DEF AnnouncePhase, SetPhase, Announced, After, Wanted
<1>6. CASE PhaseReturns
  BY <1>6 DEF PhaseReturns, Wanted
<1>7. CASE Download \/ ParseDockerfile
  BY <1>7 DEF Download, ParseDockerfile, Wanted, Refs
<1>8. CASE PullImage \/ PrimeImage \/ BuildImage \/ PushImage
  <2>1. CASE PullImage
    <3>1. base = Scratch \/ base \in Names
      BY <2>1 DEF PullImage, TypeOK
    <3> QED
      BY <2>1, <3>1 DEF PullImage, BeginRequest, ResetError, Wanted
  <2>2. CASE PrimeImage
    <3>1. cachedTag \in Names
      BY <2>2 DEF PrimeImage, TypeOK
    <3> QED
      BY <2>2, <3>1 DEF PrimeImage, BeginRequest, ResetError, Wanted
  <2>3. CASE BuildImage
    BY <2>3 DEF BuildImage, BeginRequest, Wanted
  <2>4. CASE PushImage
    BY <2>4 DEF PushImage, BeginRequest, ResetError, Wanted
  <2> QED
    BY <1>8, <2>1, <2>2, <2>3, <2>4
<1>9. CASE RequestSucceeded
  <2> USE DEF RequestSucceeded, GoOn, RequestSucceeds, CarriedOut, ErrResponse, ResetError, Store
  <2>1. RequestInv' /\ NoStaleDockerError'
    BY <1>9
  <2>2. CASE request.op \in {"pull", "prime"}
    <3>1. /\ args' = args /\ base' = base /\ cachedTag' = cachedTag /\ tagIdx' = tagIdx
          /\ pc' \in {"cache", "build"} /\ base # Nil
      BY <1>9, <2>2
    <3>2. registry' = registry
      BY <1>9, <2>2
    <3>3. DataInv'
      BY <3>1
    <3>4. PushInv'
      BY <3>1, <3>2 DEF Wanted
    <3> QED
      BY <2>1, <3>3, <3>4
  <2>3. CASE request.op = "build"
    <3>1. /\ args' = args /\ base' = base /\ cachedTag' = cachedTag /\ tagIdx' = tagIdx
          /\ buildID' = BuildID /\ pc' = "push"
      BY <1>9, <2>3
    <3>2. registry' = registry /\ local' = [local EXCEPT ![BuildID] = "built"]
      BY <1>9, <2>3
    <3>3. local'[BuildID] = "built"
      BY <3>2 DEF Refs
    <3>4. DataInv'
      BY <3>1
    <3>5. PushInv'
      BY <3>1, <3>2, <3>3 DEF Wanted
    <3> QED
      BY <2>1, <3>4, <3>5
  <2>4. CASE request.op = "push"
    <3>1. /\ args' = args /\ local' = local /\ buildID' = buildID /\ tagIdx' = tagIdx + 1
          /\ pc' = "tagImage" /\ pc = "pushImage"
          /\ registry' = [registry EXCEPT ![args.tagNames[tagIdx]] = "built"]
          /\ args.tagNames[tagIdx] \in Wanted /\ args.tagNames[tagIdx] \in Names
          /\ tagIdx <= Len(args.tagNames)
      BY <1>9, <2>4 DEF Wanted
    <3>2. \A i \in 1..tagIdx : registry'[args.tagNames[i]] = "built"
      BY <3>1
    <3>3. OnlyBuiltImagesPushed'
      BY <3>1 DEF Wanted
    <3>4. PushInv'
      BY <3>1, <3>2, <3>3
    <3> QED
      BY <2>1, <3>1, <3>4
  <2> QED
    BY <1>9, <2>2, <2>3, <2>4
<1>10. CASE RequestFailed
  <2> USE <1>10, FailureReported DEF CarriedOut, Store, Refs
  <2>1. /\ UNCHANGED <<args, base, cachedTag, buildID, tagIdx>>
        /\ pc' \in {pc, "build"}
        /\ request.op # "prime" => pc' = pc
    BY DEF GiveUp, TryAgain
  <2>2. RequestInv'
    <3>1. CASE request' = Nil
      BY <3>1
    <3>2. CASE request' # Nil
      <4>1. /\ pc' = pc /\ request'.op = request.op /\ request'.ref = request.ref
        BY <3>2 DEF TryAgain, ContainerRequest
      <4> HIDE FailureReported
      <4> QED
        BY <2>1, <3>2, <4>1, FailureReported
    <3> QED
      BY <3>1, <3>2
  <2>3. NoStaleDockerError'
    BY DEF GiveUp, LastAttempt
  <2>4. DataInv'
    BY <2>1
  <2>5. PushInv'
    <3>1. CASE UNCHANGED <<local, registry>>
      BY <2>1, <3>1 DEF Wanted
    <3>2. CASE CarriedOut /\ request.op \in {"pull", "prime"}
      BY <2>1, <3>2 DEF Wanted
    <3>3. CASE CarriedOut /\ request.op = "build"
      BY <2>1, <3>3 DEF Wanted
    <3>4. CASE CarriedOut /\ request.op = "push"
      BY <2>1, <3>4 DEF Wanted
    <3> QED
      BY <3>1, <3>2, <3>3, <3>4
  <2> QED
    BY <2>2, <2>3, <2>4, <2>5
<1>11. CASE DockerStreamError \/ WriterFatal
  BY <1>11 DEF DockerStreamError, StreamError, WriterFatal, mainVars, Wanted
<1>12. CASE InspectBase \/ FindMostSimilarTag
  BY <1>12 DEF InspectBase, FindMostSimilarTag, ErrResponse, ResetError, Wanted
<1>13. CASE TagImage
  BY <1>13 DEF TagImage, TagAs, ErrResponse, ResetError, Wanted, Refs
<1>14. CASE AllPushed \/ InspectBuilt
  BY <1>14 DEF AllPushed, InspectBuilt, ErrResponse, ResetError, Wanted
<1>15. CASE RemoveCached \/ RemoveBase \/ RemoveBuilt
  BY <1>15 DEF RemoveCached, RemoveBase, RemoveBuilt, RemoveImage, Wanted
<1>16. CASE Manager
  BY <1>16 DEF Manager, ManagerAnswers, mainVars, Wanted
<1>17. CASE UNCHANGED vars
  BY <1>17 DEF vars, mainVars, Wanted
<1> QED
  BY <1>3, <1>4, <1>5, <1>6, <1>7, <1>8, <1>9, <1>10, <1>11, <1>12, <1>13, <1>14, <1>15,
     <1>16, <1>17
     DEF Next, Main, RequestReturns, Terminated

-----------------------------------------------------------------------------
(* Only the return of a call can fail once the last phase was announced.   *)
LEMMA ExitPreserved == ASSUME IInv, [Next]_vars PROVE ExitInv'
<1> USE DEF ExitInv, At, Go, Fail, Where, Completed
<1>1. ExitInv
  BY DEF IInv
<1>2. /\ request # Nil => pc \in {"pullImage", "primeImage", "buildImage", "pushImage"}
      /\ request # Nil => request.op \in Op
  BY DEF IInv, TypeOK, ContainerTypeOK, ContainerRequest, Op, WorkInv, RequestInv, StepOf
<1> USE <1>1, <1>2
<1>3. CASE Connect \/ RegisterBuildJob \/ StartHeartbeat \/ NewContext \/ Download
           \/ ParseDockerfile \/ StopHeartbeat \/ Prune
  BY <1>3 DEF Connect, RegisterBuildJob, StartHeartbeat, NewContext, Download,
     ParseDockerfile, StopHeartbeat, Prune
<1>4. ASSUME NEW step \in DOMAIN Announced, AnnouncePhase(step)
      PROVE  ExitInv'
  BY <1>4 DEF AnnouncePhase
<1>5. CASE PhaseReturns
  BY <1>5 DEF PhaseReturns, phaseVars
<1>6. CASE PullImage \/ PrimeImage \/ BuildImage \/ PushImage
  BY <1>6 DEF PullImage, PrimeImage, BuildImage, PushImage
<1>7. CASE RequestSucceeded
  BY <1>7 DEF RequestSucceeded, GoOn, RequestSucceeds, Op
<1>8. CASE RequestFailed
  <2>1. TypeOK
    BY DEF IInv
  <2> QED
    BY <1>8, <2>1, FailureReported DEF GiveUp, TryAgain, Op
<1>9. CASE DockerStreamError \/ WriterFatal
  BY <1>9 DEF DockerStreamError, WriterFatal, Streams, phaseVars, mainVars
<1>10. CASE InspectBase \/ FindMostSimilarTag \/ TagImage \/ AllPushed \/ InspectBuilt
  BY <1>10 DEF InspectBase, FindMostSimilarTag, TagImage, AllPushed, InspectBuilt
<1>11. CASE RemoveCached \/ RemoveBase \/ RemoveBuilt
  BY <1>11 DEF RemoveCached, RemoveBase, RemoveBuilt, RemoveImage
<1>12. CASE Manager
  BY <1>12 DEF Manager, ManagerAnswers, mainVars
<1>13. CASE UNCHANGED vars
  BY <1>13 DEF vars, mainVars, phaseVars
<1> QED
  BY <1>3, <1>4, <1>5, <1>6, <1>7, <1>8, <1>9, <1>10, <1>11, <1>12, <1>13
     DEF Next, Main, RequestReturns, Terminated

(* The invariant holds in every reachable state. *)
THEOREM Invariance == Spec => []IInv
<1>1. IInv /\ [Next]_vars => IInv'
  BY TypePreserved, PhasePreserved, WorkPreserved, ExitPreserved DEF IInv
<1> QED
  BY InitInv, <1>1, PTL DEF Spec

-----------------------------------------------------------------------------
(* The properties. *)

(* Every variable keeps its type.                                          *)
THEOREM TypeCorrect == Spec => []TypeOK
<1>1. IInv => TypeOK
  BY DEF IInv
<1> QED
  BY <1>1, Invariance, PTL

(* A call of SetPhase never reuses a number, and later numbers never ask   *)
(* for earlier phases, whatever the manager answers and whichever calls    *)
(* fail.                                                                   *)
THEOREM PhaseOrder == Spec => []NumbersOrderPhases
<1>1. IInv => NumbersOrderPhases
  BY DEF IInv, PhaseInv, RequestsInv
<1> QED
  BY <1>1, Invariance, PTL

(* A request is made at one step only, whose rank is the job's phase.      *)
LEMMA KnownInductive == IInv => ManagerKnowsWork
  BY DEF IInv, TypeOK, ContainerTypeOK, ContainerRequest, Op, PhaseInv, AgreementInv, WorkInv,
     RequestInv, StepOf, Rank, Unpacking, Pulling, Building, Pushing, Completed,
     ManagerKnowsWork, PhaseOf

(* While a request to the runtime is carried out, the manager has the job  *)
(* in that request's phase.                                                *)
THEOREM WorkIsKnown == Spec => []ManagerKnowsWork
  BY KnownInductive, Invariance, PTL

(* No error of one request to Docker is charged to another one.            *)
THEOREM ErrorsDoNotLeak == Spec => []NoStaleDockerError
<1>1. IInv => NoStaleDockerError
  BY DEF IInv, WorkInv
<1> QED
  BY <1>1, Invariance, PTL

(* Nothing but the built image is pushed, and only under the job's tags.   *)
THEOREM PushesAreBuilt == Spec => []OnlyBuiltImagesPushed
<1>1. IInv => OnlyBuiltImagesPushed
  BY DEF IInv, WorkInv, PushInv
<1> QED
  BY <1>1, Invariance, PTL

(* main() never announces a phase after the last one, such as ERROR.       *)
LEMMA LastPhase == ASSUME IInv PROVE phaseEnum(currentPhase) <= COMPLETE
<1>1. CASE pc = "awaitPhase"
  BY <1>1 DEF IInv, PhaseInv, AgreementInv, Announced, phaseEnum,
     WAITING, UNPACKING, PULLING, BUILDING, PUSHING, COMPLETE
<1>2. CASE pc # "awaitPhase"
  BY <1>2 DEF IInv, PhaseInv, AgreementInv, Rank,
     WAITING, UNPACKING, PULLING, BUILDING, PUSHING, COMPLETE
<1> QED
  BY <1>1, <1>2

(* Once the last phase is announced, main() has left the push loop.        *)
LEMMA CompletedWhere ==
  ASSUME IInv
  PROVE  /\ (\E r \in requests : r.phase = COMPLETE) => Where \in Completed
         /\ job.phase = COMPLETE => \E r \in requests : r.phase = COMPLETE
<1>1. phaseEnum(currentPhase) = COMPLETE => Where \in Completed
  <2>1. CASE pc = "awaitPhase"
    BY <2>1 DEF IInv, PhaseInv, AgreementInv, Announced, Where, After, Completed, phaseEnum,
       WAITING, UNPACKING, PULLING, BUILDING, PUSHING, COMPLETE, ERROR
  <2>2. CASE pc # "awaitPhase"
    BY <2>2 DEF IInv, PhaseInv, AgreementInv, Where, Rank,
       WAITING, UNPACKING, PULLING, BUILDING, PUSHING, COMPLETE
  <2> QED
    BY <2>1, <2>2
<1>2. (\E r \in requests : r.phase = COMPLETE) => phaseEnum(currentPhase) = COMPLETE
  BY LastPhase, EnumType DEF IInv, PhaseInv, RequestsInv, COMPLETE
<1> QED
  BY <1>1, <1>2 DEF IInv, PhaseInv, JobInv, WAITING, COMPLETE

(* Behind the push loop, the position of the loop has passed every tag.    *)
LEMMA PushedInductive == IInv => CompleteMeansPushed
<1> SUFFICES ASSUME IInv, Where \in Completed PROVE Wanted \subseteq Published
  BY CompletedWhere DEF CompleteMeansPushed
<1>1. args.tagNames \in Seq(Names)
  BY TagNamesType DEF IInv
<1>2. ~TagsLeft /\ tagIdx \in Nat
  BY DEF IInv, TypeOK, WorkInv, PushInv
<1>3. \A i \in DOMAIN args.tagNames : i \in 1..(tagIdx - 1) /\ args.tagNames[i] \in Names
  BY <1>1, <1>2 DEF TagsLeft
<1> QED
  BY <1>3 DEF IInv, WorkInv, PushInv, Wanted, Published

(* When the last phase is announced, every tag of the job is pushed.       *)
THEOREM NoTagIsForgotten == Spec => []CompleteMeansPushed
  BY PushedInductive, Invariance, PTL

(* The end of main() is a step of the last rank.                           *)
LEMMA OutcomeInductive == IInv => OutcomeAgrees
<1> SUFFICES ASSUME IInv PROVE OutcomeAgrees
  OBVIOUS
<1>1. exit = "done" => job.phase = COMPLETE
  BY DEF IInv, ExitInv, PhaseInv, AgreementInv, Rank, Unpacking, Pulling, Building, Pushing,
     Completed
<1> QED
  BY <1>1, CompletedWhere DEF IInv, ExitInv, OutcomeAgrees

(* The builder succeeds only with a complete job, and fails with one only  *)
(* for the answer to its last call, or for its heartbeats.                 *)
THEOREM OutcomesAgree == Spec => []OutcomeAgrees
  BY OutcomeInductive, Invariance, PTL

-----------------------------------------------------------------------------
(* The cache.  bc.cacheTag is set by the pull of that very image, and      *)
(* nothing touches the runtime's images between it and the build.          *)

CacheInv ==
  cacheTag # Nil =>
    /\ Where \notin {"connect", "register", "startHeartbeat", "newContext", "unpack"}
    /\ Where \notin Unpacking
    /\ Where \notin Pulling \ {"build"}
    /\ Where \in {"build", "buildImage"} => local[cacheTag] = "cached"

(* Each step keeps the cached image where the build will look for it.      *)
LEMMA CachePreserved == ASSUME IInv, CacheInv, [Next]_vars PROVE CacheInv'
<1> USE DEF CacheInv, At, Go, Fail, phaseVars, containerVars, context, Where, Unpacking,
            Pulling
<1>1. TypeOK /\ WorkInv
  BY DEF IInv
<1>2. /\ local \in [Refs -> Image] /\ cacheTag \in Names \cup {Nil}
      /\ request # Nil => request \in ContainerRequest /\ request.op \in Op
  BY <1>1 DEF TypeOK, ContainerTypeOK, ContainerRequest
<1> USE <1>2 DEF Op
<1>3. CASE Connect \/ RegisterBuildJob \/ StartHeartbeat \/ NewContext \/ Download
           \/ ParseDockerfile
  BY <1>3 DEF Connect, RegisterBuildJob, StartHeartbeat, NewContext, Download, ParseDockerfile
<1>4. ASSUME NEW step \in DOMAIN Announced, AnnouncePhase(step)
      PROVE  CacheInv'
  BY <1>4 DEF AnnouncePhase, SetPhase, Announced, After
<1>5. CASE PhaseReturns
  BY <1>5 DEF PhaseReturns
<1>6. CASE PullImage \/ PrimeImage \/ BuildImage \/ PushImage
  BY <1>6 DEF PullImage, PrimeImage, BuildImage, PushImage, BeginRequest
<1>7. CASE InspectBase \/ FindMostSimilarTag
  BY <1>7 DEF InspectBase, FindMostSimilarTag
<1>8. CASE TagImage \/ AllPushed \/ InspectBuilt
  BY <1>8 DEF TagImage, AllPushed, InspectBuilt
<1>9. CASE StopHeartbeat \/ RemoveCached \/ RemoveBase \/ RemoveBuilt \/ Prune
  BY <1>9 DEF StopHeartbeat, RemoveCached, RemoveBase, RemoveBuilt, RemoveImage, Prune
<1>10. request # Nil => pc = StepOf(request.op)
  BY <1>1 DEF WorkInv, RequestInv
<1>11. CASE RequestSucceeded
  <2>1. CASE request.op = "prime"
    <3>1. request.ref = cachedTag /\ cachedTag \in Names
      BY <1>1, <1>10, <1>11, <2>1 DEF WorkInv, RequestInv, RequestSucceeded, RequestSucceeds
    <3>2. local' = [local EXCEPT ![cachedTag] = "cached"] /\ cacheTag' = cachedTag
      BY <1>11, <2>1, <3>1 DEF RequestSucceeded, GoOn, RequestSucceeds, CarriedOut, Store
    <3>3. local'[cacheTag'] = "cached" /\ pc' = "build"
      BY <1>11, <2>1, <3>1, <3>2 DEF Refs, RequestSucceeded, GoOn
    <3> QED
      BY <3>3
  <2>2. CASE request.op # "prime"
    BY <1>10, <1>11, <2>2 DEF RequestSucceeded, GoOn, RequestSucceeds, StepOf
  <2> QED
    BY <2>1, <2>2
<1>12. CASE RequestFailed
  <2>1. CASE request.op = "build"
    <3>1. local' = local \/ local' = [local EXCEPT ![BuildID] = "built"]
      BY <1>1, <1>12, <2>1, FailureReported DEF CarriedOut, Store
    <3>2. cacheTag # Nil => local'[cacheTag] = local[cacheTag]
      BY <3>1, NamesAssumption DEF Refs
    <3> QED
      BY <1>1, <1>10, <1>12, <2>1, <3>2, FailureReported DEF GiveUp, TryAgain, StepOf
  <2>2. CASE request.op # "build"
    BY <1>1, <1>10, <1>12, <2>2, FailureReported DEF GiveUp, TryAgain, StepOf
  <2> QED
    BY <2>1, <2>2
<1>13. CASE DockerStreamError \/ WriterFatal
  BY <1>13 DEF DockerStreamError, WriterFatal, StreamError, mainVars
<1>14. CASE Manager
  BY <1>14 DEF Manager, ManagerAnswers, mainVars
<1>15. CASE UNCHANGED vars
  BY <1>15 DEF vars, mainVars
<1> QED
  BY <1>3, <1>4, <1>5, <1>6, <1>7, <1>8, <1>9, <1>11, <1>12, <1>13, <1>14, <1>15
     DEF Next, Main, RequestReturns, Terminated

(* While a build runs, the cached image that it names as a source of       *)
(* layers is in the runtime's store (buildctx/context.go:122-127, 401-411).*)
THEOREM CacheIsThere == Spec => []CacheFromPresent
<1>1. Init => CacheInv
  BY DEF Init, CacheInv
<1>2. IInv /\ CacheInv => CacheFromPresent
  BY DEF IInv, WorkInv, RequestInv, StepOf, CacheInv, CacheFromPresent, Where
<1> QED
  BY <1>1, <1>2, Invariance, CachePreserved, PTL DEF Spec

-----------------------------------------------------------------------------
(* The builder implements BuildJob.  What the abstract job shows is the    *)
(* phase in the manager, the job's tags, the registry, and how the process *)
(* ended; a step of main() that touches none of them is a stutter.         *)

Visible == <<job, args, registry, exit>>

(* A step that shows nothing but an error ends the job as a failed one.    *)
LEMMA ErrorFinishes ==
  ASSUME exit = "running", exit' \in Failures, UNCHANGED <<job, args, registry>>
  PROVE  Job!Finish
  BY DEF Job!Finish, Failures, Wanted, Published

(* A step that shows nothing stutters.                                     *)
LEMMA Stutters == ASSUME UNCHANGED Visible PROVE UNCHANGED Job!jobVars
  BY DEF Visible, Job!jobVars, Wanted, Published

(* Success is the end of a complete job.                                   *)
LEMMA PruneFinishes == ASSUME IInv, Prune PROVE Job!Finish
<1>1. /\ exit = "running" /\ exit' = "done"
      /\ UNCHANGED <<job, args, registry>>
  BY DEF Prune, At, phaseVars, containerVars, context
<1>2. job.phase = COMPLETE
  BY DEF Prune, At, IInv, PhaseInv, AgreementInv, Rank, Unpacking, Pulling, Building,
     Pushing, Completed
<1> QED
  BY <1>1, <1>2 DEF Job!Finish, Job!COMPLETE, COMPLETE, Wanted, Published

(* The manager names the job while it is in the first phase.               *)
LEMMA RegisterRefines ==
  ASSUME IInv, RegisterBuildJob
  PROVE  Job!Register \/ Job!Finish
<1>1. /\ exit = "running"
      /\ UNCHANGED <<job, registry>>
  BY DEF RegisterBuildJob, At, phaseVars, containerVars
<1>2. CASE args' = args /\ Fail("startup")
  BY <1>1, <1>2, ErrorFinishes DEF Fail, Failures
<1>3. CASE args' \in Jobs /\ Go("startHeartbeat")
  <2>1. job.phase = WAITING
    BY DEF RegisterBuildJob, At, IInv, PhaseInv, AgreementInv, Rank, Unpacking, Pulling,
       Building, Pushing, Completed
  <2>2. Wanted = {}
    BY DEF RegisterBuildJob, At, IInv, WorkInv, DataInv, Where, Unregistered, Wanted, NoJob
  <2>3. Wanted' \subseteq Names
    BY <1>3, JobsAssumption DEF Wanted
  <2> QED
    BY <1>1, <1>3, <2>1, <2>2, <2>3 DEF Job!Register, Job!WAITING, WAITING, Go, Published
<1> QED
  BY <1>2, <1>3 DEF RegisterBuildJob

(* The manager moves the job forward only, at most to COMPLETE, and only   *)
(* with all tags pushed.                                                   *)
LEMMA ManagerRefines ==
  ASSUME IInv, Manager
  PROVE  Job!Advance \/ UNCHANGED Job!jobVars
<1>1. UNCHANGED <<args, registry, exit>>
  BY DEF Manager, ManagerAnswers, mainVars, containerVars
<1>2. PICK r \in requests : job' = job \/ (r.seq > job.seq /\ job' = r)
  BY DEF Manager, ManagerAnswers
<1>3. CASE job'.phase = job.phase
  BY <1>1, <1>3 DEF Job!jobVars, Wanted, Published
<1>4. CASE job'.phase # job.phase
  <2>1. r.seq > job.seq /\ job' = r
    BY <1>2, <1>4
  <2>2. /\ job.phase \in Nat /\ r.phase \in Nat
        /\ r.seq \in Nat /\ job.seq \in Nat
    BY DEF IInv, TypeOK, PhaseTypeOK, Request, PbPhase, WAITING, ERROR
  <2>3. job.phase <= r.phase
    BY <2>1, <2>2 DEF IInv, PhaseInv, JobInv, RequestsInv, NumbersOrderPhases, WAITING
  <2>4. r.phase <= COMPLETE
    BY <2>2, LastPhase, EnumType DEF IInv, PhaseInv, RequestsInv, COMPLETE
  <2>5. exit # "done"
    BY <1>4, <2>1, <2>2, <2>3, <2>4, OutcomeInductive DEF OutcomeAgrees, COMPLETE
  <2>6. r.phase = COMPLETE => Wanted \subseteq Published
    BY PushedInductive DEF CompleteMeansPushed
  <2>7. job'.phase \in (job.phase + 1)..Job!COMPLETE
    BY <1>4, <2>1, <2>2, <2>3, <2>4 DEF COMPLETE, Job!COMPLETE
  <2> QED
    BY <1>1, <2>1, <2>5, <2>6, <2>7
       DEF Job!Advance, Job!COMPLETE, COMPLETE, Wanted, Published
<1> QED
  BY <1>3, <1>4

-----------------------------------------------------------------------------
(* A push that is carried out publishes one more tag, whether or not it    *)
(* reports an error.                                                       *)
LEMMA PushPublishes ==
  ASSUME IInv, request # Nil, request.op = "push", CarriedOut, exit = "running",
         exit' \in Failures \cup {"running"}, UNCHANGED <<job, args>>
  PROVE  Job!Publish
<1>1. /\ Where = "pushImage" /\ request.ref = args.tagNames[tagIdx]
      /\ TagsLeft /\ local[request.ref] = "built"
  BY DEF IInv, WorkInv, RequestInv, PushInv, StepOf, Where
<1>2. /\ args.tagNames \in Seq(Names) /\ tagIdx \in Nat \ {0}
      /\ registry \in [Names -> Image]
  BY TagNamesType DEF IInv, TypeOK, ContainerTypeOK
<1>3. request.ref \in Wanted /\ request.ref \in Names
  BY <1>1, <1>2 DEF TagsLeft, Wanted
<1>4. registry' = [registry EXCEPT ![request.ref] = "built"]
  BY <1>1 DEF CarriedOut
<1>5. Published' = Published \cup {request.ref}
  BY <1>2, <1>3, <1>4 DEF Published
<1>6. job.phase = PUSHING
  BY KnownInductive DEF ManagerKnowsWork, PhaseOf
<1> QED
  BY <1>3, <1>5, <1>6 DEF Job!Publish, Job!PUSHING, PUSHING, Wanted, Failures

(* The answer to a request shows a push that was carried out, an error, or *)
(* nothing.                                                                *)
LEMMA RequestRefines ==
  ASSUME IInv, RequestSucceeded \/ RequestFailed
  PROVE  Job!Publish \/ Job!Finish \/ UNCHANGED Job!jobVars
<1>1. /\ exit = "running" /\ request # Nil /\ request.op \in Op
      /\ CarriedOut \/ registry' = registry
      /\ UNCHANGED <<job, args>>
  BY DEF RequestSucceeded, RequestFailed, RequestSucceeds, RequestFails, phaseVars, context,
     IInv, TypeOK, ContainerTypeOK, ContainerRequest
<1>2. exit' \in Failures \cup {"running"}
  <2>1. TypeOK
    BY DEF IInv
  <2>2. CASE RequestSucceeded
    BY <1>1, <2>2 DEF RequestSucceeded, GoOn, Op, Go
  <2>3. CASE RequestFailed
    BY <1>1, <2>1, <2>3, FailureReported DEF GiveUp, TryAgain, Op, Go, Fail, Failures
  <2> QED
    BY <2>2, <2>3
<1>3. CASE request.op = "push" /\ CarriedOut
  BY <1>1, <1>2, <1>3, PushPublishes
<1>4. CASE ~(request.op = "push" /\ CarriedOut)
  <2>1. registry' = registry
    BY <1>1, <1>4 DEF CarriedOut, Store, Op
  <2>2. CASE exit' = exit
    BY <1>1, <2>1, <2>2, Stutters DEF Visible
  <2>3. CASE exit' # exit
    BY <1>1, <1>2, <2>1, <2>3, ErrorFinishes
  <2> QED
    BY <2>2, <2>3
<1> QED
  BY <1>3, <1>4

-----------------------------------------------------------------------------
(* No other step touches the job, its tags or the registry.                *)
LEMMA OtherStepsRefine ==
  ASSUME IInv, [Next]_vars, ~RegisterBuildJob, ~Prune, ~Manager, ~RequestSucceeded,
         ~RequestFailed
  PROVE  Job!Finish \/ UNCHANGED Job!jobVars
<1> USE DEF At, Go, Fail, phaseVars, containerVars, context, Visible, Failures
<1>1. \/ UNCHANGED Visible
      \/ exit = "running" /\ exit' \in Failures /\ UNCHANGED <<job, args, registry>>
  <2>1. CASE Connect \/ StartHeartbeat \/ NewContext \/ Download \/ ParseDockerfile
             \/ StopHeartbeat
    BY <2>1 DEF Connect, StartHeartbeat, NewContext, Download, ParseDockerfile, StopHeartbeat
  <2>2. ASSUME NEW step \in DOMAIN Announced, AnnouncePhase(step) PROVE UNCHANGED Visible
    BY <2>2 DEF AnnouncePhase, SetPhase
  <2>3. CASE PhaseReturns
    BY <2>3 DEF PhaseReturns
  <2>4. CASE PullImage \/ PrimeImage \/ BuildImage \/ PushImage
    BY <2>4 DEF PullImage, PrimeImage, BuildImage, PushImage, BeginRequest
  <2>5. CASE InspectBase \/ FindMostSimilarTag
    BY <2>5 DEF InspectBase, FindMostSimilarTag
  <2>6. CASE TagImage \/ AllPushed \/ InspectBuilt
    BY <2>6 DEF TagImage, AllPushed, InspectBuilt
  <2>7. CASE RemoveCached \/ RemoveBase \/ RemoveBuilt
    BY <2>7 DEF RemoveCached, RemoveBase, RemoveBuilt, RemoveImage
  <2>8. CASE DockerStreamError \/ WriterFatal
    BY <2>8 DEF DockerStreamError, StreamError, WriterFatal, mainVars
  <2>9. CASE UNCHANGED vars
    BY <2>9 DEF vars, mainVars
  <2> QED
    BY <2>1, <2>2, <2>3, <2>4, <2>5, <2>6, <2>7, <2>8, <2>9
       DEF Next, Main, RequestReturns, Terminated
<1> QED
  BY <1>1, Stutters, ErrorFinishes

(* The builder starts with a job that waits.                               *)
LEMMA InitRefines == Init => Job!Init
  BY DEF Init, PhaseInit, ContainerInit, Job!Init, Job!WAITING, WAITING, Wanted, Published,
     NoJob

(* Each of its steps is one of the job or shows nothing.                   *)
LEMMA StepRefines == IInv /\ [Next]_vars => [Job!Next]_(Job!jobVars)
  BY PruneFinishes, RegisterRefines, ManagerRefines, RequestRefines, OtherStepsRefine
     DEF Job!Next

(* The manager and the registry see a job that advances through its phases *)
(* in one direction, is published in PUSHING only, and is complete, or the *)
(* build a success, only with every tag published                          *)
(* (cmd/quay-builder/main.go:107-151).                                     *)
THEOREM Refinement == Spec => ImplementsBuildJob
  BY InitRefines, StepRefines, Invariance, PTL DEF Spec, ImplementsBuildJob, Job!Spec

-----------------------------------------------------------------------------
(* What the abstract job implies. *)

(* A build that succeeded has a complete job, for good. *)
JobIInv == /\ Job!TypeOK
           /\ Job!CompleteMeansPublished
           /\ exit = "done" => job.phase = COMPLETE

(* A job that is complete, and a build that succeeded, left no tag without *)
(* the new image: the abstract job promises it by itself, whatever else    *)
(* the builder does (cmd/quay-builder/main.go:139-151).                    *)
THEOREM Promise == Job!Spec => []Job!CompleteMeansPublished
<1> USE DEF JobIInv, Job!TypeOK, Job!CompleteMeansPublished, Job!PbPhase, Job!WAITING,
            Job!PUSHING, Job!COMPLETE, Job!ERROR, COMPLETE
<1>1. Job!Init => JobIInv
  BY DEF Job!Init
<1>2. ASSUME JobIInv, [Job!Next]_(Job!jobVars) PROVE JobIInv'
  <2> USE <1>2
  <2>1. CASE Job!Register
    <3>1. /\ job.phase = 0 /\ job'.phase = 0 /\ Wanted = {} /\ Wanted' \subseteq Names
          /\ Published' = Published
      BY <2>1 DEF Job!Register
    <3>2. exit # "done" /\ exit' # "done"
      BY <2>1, <3>1 DEF Job!Register
    <3> QED
      BY <3>1, <3>2
  <2>2. CASE Job!Advance
    BY <2>2 DEF Job!Advance
  <2>3. CASE Job!Publish
    BY <2>3 DEF Job!Publish
  <2>4. CASE Job!Finish
    BY <2>4 DEF Job!Finish
  <2>5. CASE UNCHANGED Job!jobVars
    BY <2>5 DEF Job!jobVars
  <2> QED
    BY <2>1, <2>2, <2>3, <2>4, <2>5 DEF Job!Next
<1>3. JobIInv => Job!CompleteMeansPublished
  OBVIOUS
<1> QED
  BY <1>1, <1>2, <1>3, PTL DEF Job!Spec

(* So the builder keeps it: the registry serves exactly the job's tags     *)
(* once the manager has the job complete (cmd/quay-builder/main.go:148).   *)
THEOREM PromiseKept == Spec => []Job!CompleteMeansPublished
  BY Refinement, Promise, PTL DEF ImplementsBuildJob

=============================================================================
