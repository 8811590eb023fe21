------------------------------ MODULE Builder -------------------------------
(***************************************************************************)
(* The main goroutine of quay-builder: main() and build() of               *)
(* cmd/quay-builder, and the steps of a buildctx.Context, from the         *)
(* connection to the build manager to the exit of the process.             *)
(*                                                                         *)
(* The process has no state that outlives it: every error of a step, and   *)
(* every log.Fatal, ends it.  `exit` says how.                             *)
(***************************************************************************)
EXTENDS PhaseClient, ContainerRequests, Sequences

CONSTANTS
  Jobs,     \* the jobs the manager may hand out (rpc.BuildArgs)
  Scratch   \* the built-in base image, which is never pulled

ASSUME JobsAssumption ==
  /\ Jobs \subseteq [tagNames : Seq(Names), pullToken : BOOLEAN]
  /\ Scratch \notin Refs \cup {Nil}

VARIABLES
  pc,         \* the next step of the main goroutine
  exit,       \* "running", or how the process ended
  args,       \* bc.args
  hbCtx,      \* the context of the heartbeats: "none", "live", "cancelled"
  disk,       \* what is left of the buildpack: bc.buildpackDir, and the rest
  base,       \* bc.metadata, Nil before the Dockerfile is parsed
  cachedTag,  \* the tag Cache found, Nil for ""
  cacheTag,   \* bc.cacheTag: the tag it pulled, Nil for ""
  buildID,    \* bc.buildID, Nil for ""
  tagIdx      \* the position of the push loop in args.TagNames

mainVars == <<pc, exit, args, hbCtx, disk, base, cachedTag, cacheTag, buildID, tagIdx>>
vars == <<phaseVars, containerVars, mainVars>>

NoJob == [tagNames |-> <<>>, pullToken |-> FALSE]

Steps == {"connect", "register", "startHeartbeat", "newContext",
          "unpack", "download", "parse", "pull", "pullImage",
          "cache", "inspectBase", "similarTag", "prime", "primeImage",
          "build", "buildImage", "push", "tagImage", "pushImage", "inspectBuilt",
          "stopHeartbeat", "complete", "rmCached", "rmBase", "rmBuilt", "prune",
          "awaitPhase", "end"}

Failures == {"startup", "phase", "buildpack", "pull", "build", "tag", "push", "writer",
             "heartbeat"}

TypeOK ==
  /\ PhaseTypeOK
  /\ ContainerTypeOK
  /\ pc \in Steps
  /\ exit \in Failures \cup {"running", "done"}
  /\ args \in Jobs \cup {NoJob}
  /\ hbCtx \in {"none", "live", "cancelled"}
  /\ disk \subseteq {"context", "rest"}
  /\ base \in Names \cup {Scratch, Nil}
  /\ cachedTag \in Names \cup {Nil}
  /\ cacheTag \in Names \cup {Nil}
  /\ buildID \in {BuildID, Nil}
  /\ tagIdx \in Nat \ {0}

Init ==
  /\ PhaseInit
  /\ ContainerInit
  /\ pc = "connect"
  /\ exit = "running"
  /\ args = NoJob
  /\ hbCtx = "none"
  /\ disk = {}
  /\ base = Nil /\ cachedTag = Nil /\ cacheTag = Nil /\ buildID = Nil
  /\ tagIdx = 1

-----------------------------------------------------------------------------
(* The shape of the steps. *)

At(step) == exit = "running" /\ pc = step

Go(step) == pc' = step /\ exit' = exit

(* A step returns an error, or calls log.Fatal. *)
Fail(why) == exit' = why /\ pc' = pc

(* Which variables of the main goroutine a step leaves alone. *)
context == <<args, base, cachedTag, cacheTag, buildID, tagIdx>>

-----------------------------------------------------------------------------
(* Startup: dial, ping and open the log stream; register; start the        *)
(* heartbeats; connect to the container runtime.                           *)

Connect ==
  /\ At("connect")
  /\ Go("register") \/ Fail("startup")
  /\ UNCHANGED <<phaseVars, containerVars, context, hbCtx, disk>>

RegisterBuildJob ==
  /\ At("register")
  /\ \/ args' \in Jobs /\ Go("startHeartbeat")
     \/ args' = args /\ Fail("startup")
  /\ UNCHANGED <<phaseVars, containerVars, hbCtx, disk, base, cachedTag, cacheTag,
                 buildID, tagIdx>>

StartHeartbeat ==
  /\ At("startHeartbeat")
  /\ hbCtx' = "live"
  /\ Go("newContext")
  /\ UNCHANGED <<phaseVars, containerVars, context, disk>>

NewContext ==
  /\ At("newContext")
  /\ Go("unpack") \/ Fail("startup")
  /\ UNCHANGED <<phaseVars, containerVars, context, hbCtx, disk>>

-----------------------------------------------------------------------------
(* Phase transitions.  The caller blocks in "awaitPhase" until the call    *)
(* returns, and goes on from there with After.                             *)

Announced == [unpack |-> "unpacking", pull |-> "pulling", cache |-> "checking-cache",
              prime |-> "priming-cache", build |-> "building", push |-> "pushing",
              complete |-> "complete"]

After(p) ==
  CASE p = "unpacking"      -> "download"
    [] p = "pulling"        -> "pullImage"
    [] p = "checking-cache" -> "inspectBase"
    [] p = "priming-cache"  -> "primeImage"
    [] p = "building"       -> "buildImage"
    [] p = "pushing"        -> "tagImage"
    [] p = "complete"       -> "rmCached"
    [] OTHER                -> "end"

(* Mutant: the last call may fail too. *)
ErrorIgnoredAtEnd(p) == p \in {"checking-cache", "priming-cache", "complete"}

(* The two phases of Cache may fail: the manager knows only PULLING, and   *)
(* may well refuse to enter it again.                                      *)
ErrorIgnored(p) == p \in {"checking-cache", "priming-cache"}

AnnouncePhase(step) ==
  /\ At(step)
  /\ SetPhase(Announced[step])
  /\ Go("awaitPhase")
  /\ UNCHANGED <<containerVars, context, hbCtx, disk>>


PhaseReturns ==
  /\ At("awaitPhase")
  /\ \/ PhaseAccepted /\ Go(After(currentPhase))
     \/ IF ErrorIgnored(currentPhase) THEN Go(After(currentPhase)) ELSE Fail("phase")
  /\ UNCHANGED <<phaseVars, containerVars, context, hbCtx, disk>>

(* Mutant: the cancel function is not called. *)
StopNoHeartbeat ==
  /\ At("stopHeartbeat")
  /\ Go("complete")
  /\ UNCHANGED <<phaseVars, containerVars, context, hbCtx, disk>>

(* build() stops the heartbeats before it announces the last phase. *)
StopHeartbeat ==
  /\ At("stopHeartbeat")
  /\ hbCtx' = "cancelled"
  /\ Go("complete")
  /\ UNCHANGED <<phaseVars, containerVars, context, disk>>

-----------------------------------------------------------------------------
(* Unpack: whatever Download leaves on the disk stays there when it fails. *)
(* It does not look for the context directory; opening the Dockerfile does.*)

Download ==
  /\ At("download")
  /\ disk' \in SUBSET {"context", "rest"}
  /\ Go("parse") \/ Fail("buildpack")
  /\ UNCHANGED <<phaseVars, containerVars, context, hbCtx>>

ParseDockerfile ==
  /\ At("parse")
  /\ \/ "context" \in disk /\ base' \in Names \cup {Scratch} /\ Go("pull")
     \/ base' = base /\ Fail("buildpack")
  /\ UNCHANGED <<phaseVars, containerVars, args, hbCtx, disk, cachedTag, cacheTag,
                 buildID, tagIdx>>

-----------------------------------------------------------------------------
(* Requests to the container runtime, one per step that makes them.        *)

PullImage ==
  /\ At("pullImage")
  /\ \/ base = Scratch /\ request = Nil /\ Go("cache") /\ UNCHANGED containerVars
     \/ base # Scratch /\ BeginRequest("pull", base) /\ Go(pc)
  /\ UNCHANGED <<phaseVars, context, hbCtx, disk>>

(* Mutant: the tag that is pulled is not the one that was found. *)
PrimeCacheTag ==
  /\ At("primeImage")
  /\ BeginRequest("prime", cacheTag)
  /\ Go(pc)
  /\ UNCHANGED <<phaseVars, context, hbCtx, disk>>

PrimeImage ==
  /\ At("primeImage")
  /\ BeginRequest("prime", cachedTag)
  /\ Go(pc)
  /\ UNCHANGED <<phaseVars, context, hbCtx, disk>>

BuildImage ==
  /\ At("buildImage")
  /\ BeginRequest("build", BuildID)
  /\ Go(pc)
  /\ UNCHANGED <<phaseVars, context, hbCtx, disk>>

PushImage ==
  /\ At("pushImage")
  /\ BeginRequest("push", args.tagNames[tagIdx])
  /\ Go(pc)
  /\ UNCHANGED <<phaseVars, context, hbCtx, disk>>

(* Build removes the build context when it returns, whatever it returns,   *)
(* and goes on if that fails.                                              *)
RemoveContext == disk' \in {disk, disk \ {"context"}}

(* The request, or the loop of its attempts, returned nil. *)
GoOn ==
  CASE request.op = "pull" ->
         Go("cache") /\ UNCHANGED <<cacheTag, buildID, tagIdx, disk>>
    [] request.op = "prime" ->
         /\ cacheTag' = cachedTag
         /\ Go("build") /\ UNCHANGED <<buildID, tagIdx, disk>>
    [] request.op = "build" ->
         /\ buildID' = request.ref
         /\ RemoveContext
         /\ Go("push") /\ UNCHANGED <<cacheTag, tagIdx>>
    [] request.op = "push" ->
         /\ tagIdx' = tagIdx + 1
         /\ Go("tagImage") /\ UNCHANGED <<cacheTag, buildID, disk>>

(* It returned an error, which is only a warning when priming the cache. *)
GiveUp ==
  /\ CASE request.op = "prime" -> Go("build") /\ UNCHANGED disk
       [] request.op = "build" -> Fail("build") /\ RemoveContext
       [] OTHER                -> Fail(request.op) /\ UNCHANGED disk
  /\ UNCHANGED <<cacheTag, buildID, tagIdx>>

TryAgain == Go(pc) /\ UNCHANGED <<cacheTag, buildID, tagIdx, disk>>

RequestSucceeded ==
  /\ exit = "running"
  /\ RequestSucceeds
  /\ GoOn
  /\ UNCHANGED <<phaseVars, args, hbCtx, base, cachedTag>>

RequestFailed ==
  /\ exit = "running"
  /\ RequestFails
  /\ CASE AfterFailure = "error" -> GiveUp
       [] AfterFailure = "retry" -> TryAgain
       [] AfterFailure = "nil"   -> GoOn
  /\ UNCHANGED <<phaseVars, args, hbCtx, base, cachedTag>>

DockerStreamError ==
  /\ exit = "running"
  /\ StreamError
  /\ UNCHANGED <<phaseVars, mainVars>>

(* The writer calls log.Fatal when it cannot decode or publish an entry.   *)
WriterFatal ==
  /\ exit = "running"
  /\ Streams
  /\ Fail("writer")
  /\ UNCHANGED <<phaseVars, containerVars, context, hbCtx, disk>>

-----------------------------------------------------------------------------
(* Cache: an error of any of its steps, and no tag, skip to the build. *)

InspectBase ==
  /\ At("inspectBase")
  /\ IF base = Scratch THEN Go("similarTag") /\ UNCHANGED errResponse
     ELSE \/ ~HasErrResponse /\ ErrResponse /\ Go("similarTag")
          \/ HasErrResponse /\ ErrResponse /\ Go("build")
          \/ Go("build") /\ UNCHANGED errResponse
  /\ UNCHANGED <<phaseVars, runtime, request, local, registry, context, hbCtx, disk>>

(* Mutant: bc.cacheTag is set before the tag is pulled. *)
FindAndKeepTag ==
  /\ At("similarTag")
  /\ \/ cachedTag' \in Names /\ cacheTag' = cachedTag' /\ args.pullToken /\ Go("prime")
     \/ UNCHANGED <<cachedTag, cacheTag>> /\ Go("build")
  /\ UNCHANGED <<phaseVars, containerVars, args, hbCtx, disk, base, buildID, tagIdx>>

FindMostSimilarTag ==
  /\ At("similarTag")
  /\ \/ cachedTag' \in Names /\ args.pullToken /\ Go("prime")
     \/ cachedTag' = cachedTag /\ Go("build")
  /\ UNCHANGED <<phaseVars, containerVars, args, hbCtx, disk, base, cacheTag, buildID,
                 tagIdx>>

-----------------------------------------------------------------------------
(* Push: tag and push each name, then look the image up. *)

(* Mutant: the loop ends one tag early. *)
TagsLeftButOne == tagIdx < Len(args.tagNames)

TagsLeft == tagIdx <= Len(args.tagNames)

(* Mutant: a name that is taken is left alone, as without Force. *)
TagUnlessTaken(t) ==
  /\ local[buildID] # "absent"
  /\ local' = IF local[t] = "absent" THEN [local EXCEPT ![t] = local[buildID]] ELSE local

TagAs(t) ==
  /\ local[buildID] # "absent"
  /\ local' = [local EXCEPT ![t] = local[buildID]]

(* A tag that returns an error may have been set all the same. *)
TagImage ==
  /\ At("tagImage")
  /\ TagsLeft
  /\ \/ TagAs(args.tagNames[tagIdx]) /\ ~HasErrResponse /\ ErrResponse /\ Go("pushImage")
     \/ TagAs(args.tagNames[tagIdx]) /\ HasErrResponse /\ ErrResponse /\ Fail("tag")
     \/ (TagAs(args.tagNames[tagIdx]) \/ local' = local)
        /\ Fail("tag") /\ UNCHANGED errResponse
  /\ UNCHANGED <<phaseVars, runtime, request, registry, context, hbCtx, disk>>

AllPushed ==
  /\ At("tagImage")
  /\ ~TagsLeft
  /\ Go("inspectBuilt")
  /\ UNCHANGED <<phaseVars, containerVars, context, hbCtx, disk>>

InspectBuilt ==
  /\ At("inspectBuilt")
  /\ \/ ~HasErrResponse /\ ErrResponse /\ Go("stopHeartbeat")
     \/ HasErrResponse /\ ErrResponse /\ Fail("tag")
     \/ Fail("tag") /\ UNCHANGED errResponse
  /\ UNCHANGED <<phaseVars, runtime, request, local, registry, context, hbCtx, disk>>

-----------------------------------------------------------------------------
(* Cleanup: every removal may fail, which is only a warning. *)

MayRemove(ref) ==
  local' \in {local, IF ref \in Refs THEN [local EXCEPT ![ref] = "absent"] ELSE local}

RemoveImage(step, ref, next) ==
  /\ At(step)
  /\ MayRemove(ref)
  /\ Go(next)
  /\ UNCHANGED <<phaseVars, runtime, request, errResponse, registry, context, hbCtx, disk>>

RemoveCached == RemoveImage("rmCached", cacheTag, "rmBase")
RemoveBase   == RemoveImage("rmBase", base, "rmBuilt")

(* The built image goes by its ID, with all its names. *)
RemoveBuilt ==
  /\ At("rmBuilt")
  /\ local' \in {local, [r \in Refs |-> IF local[r] = "built" THEN "absent" ELSE local[r]]}
  /\ Go("prune")
  /\ UNCHANGED <<phaseVars, runtime, request, errResponse, registry, context, hbCtx, disk>>

(* Pruning removes untagged images only: none of ours.  main() returns     *)
(* after it, and the process ends.                                         *)
Prune ==
  /\ At("prune")
  /\ pc' = "end" /\ exit' = "done"
  /\ UNCHANGED <<phaseVars, containerVars, context, hbCtx, disk>>

-----------------------------------------------------------------------------

(* The steps main() takes, waiting for nothing but its own calls' answers. *)
Main ==
  \/ Connect \/ RegisterBuildJob \/ StartHeartbeat \/ NewContext
  \/ \E step \in DOMAIN Announced : AnnouncePhase(step)
  \/ PhaseReturns
  \/ Download \/ ParseDockerfile
  \/ PullImage \/ PrimeImage \/ BuildImage \/ PushImage
  \/ InspectBase \/ FindMostSimilarTag
  \/ TagImage \/ AllPushed \/ InspectBuilt
  \/ StopHeartbeat
  \/ RemoveCached \/ RemoveBase \/ RemoveBuilt \/ Prune

(* The runtime's answers. *)
RequestReturns == RequestSucceeded \/ RequestFailed

Manager == ManagerAnswers /\ UNCHANGED <<containerVars, mainVars>>

Terminated == exit # "running" /\ UNCHANGED vars

Next ==
  \/ Main
  \/ RequestReturns \/ DockerStreamError \/ WriterFatal
  \/ Manager
  \/ Terminated

Spec == Init /\ [][Next]_vars

(* main() is in a call on which the code puts no deadline: a request to    *)
(* the runtime, which also waits for the manager's answers to what it      *)
(* logs; the connection to podman; the download or clone of the buildpack; *)
(* any other call of the runtime's API.                                    *)
Blocked ==
  /\ exit = "running"
  /\ \/ request # Nil
     \/ pc = "newContext" /\ runtime = "podman"
     \/ pc = "inspectBase" /\ base # Scratch
     \/ pc = "tagImage" /\ TagsLeft
     \/ pc = "rmCached" /\ cacheTag # Nil
     \/ pc \in {"download", "inspectBuilt", "rmBase", "rmBuilt", "prune"}

(* main() keeps running, but for the calls that may never return. *)
FairSpec == Spec /\ WF_vars(Main /\ ~Blocked)

-----------------------------------------------------------------------------
(* Properties. *)

Wanted    == {args.tagNames[i] : i \in DOMAIN args.tagNames}
Published == {n \in Names : registry[n] = "built"}

(* When the builder tells the manager that the build is complete, the      *)
(* registry serves the built image under every tag of the job: the push    *)
(* loop and its retries leave none out (main.go:139-148).                  *)
CompleteMeansPushed ==
  (\E r \in requests : r.phase = COMPLETE) => Wanted \subseteq Published

(* The manager can tell the order of the phases from the numbers alone:    *)
(* no two calls share a number, and a higher number never asks for an      *)
(* earlier phase, even though calls fail and their requests linger         *)
(* (grpcbuild.go:103-138).                                                 *)
NumbersOrderPhases ==
  \A r1, r2 \in requests : /\ r1.seq = r2.seq => r1 = r2
                           /\ r1.seq < r2.seq => r1.phase <= r2.phase

(* While the runtime carries out a request for the builder, the manager    *)
(* has the job in the phase of that request: no work is done before its    *)
(* phase was accepted, and no request left over from an abandoned call     *)
(* moves the job away from it (context.go:88-98, 120-122, 135-150, 157-162).*)
PhaseOf == [pull |-> PULLING, prime |-> PULLING, build |-> BUILDING, push |-> PUSHING]

ManagerKnowsWork == request # Nil => job.phase = PhaseOf[request.op]

(* The registry gets the built image or nothing, and only under the job's  *)
(* tags, although the base image and the cached image may be in the        *)
(* runtime's store under the very same names (context.go:295-332).         *)
OnlyBuiltImagesPushed ==
  \A n \in Names : registry[n] # "old" => registry[n] = "built" /\ n \in Wanted

(* An error that a stream reported is charged to the request that caused   *)
(* it, and is gone when that request is: none leaks into a later request,  *)
(* in particular not from priming the cache into the build, which begins   *)
(* without ResetError (context.go:174-190, 408-425).                       *)
NoStaleDockerError ==
  exit = "running" /\ errResponse # Nil => errResponse = request

(* The image a build names in CacheFrom is in the runtime's store, and is  *)
(* the cached one (context.go:122-127, 401-411).                           *)
CacheFromPresent ==
  request # Nil /\ request.op = "build" /\ cacheTag # Nil => local[cacheTag] = "cached"

(* The builder's exit and the manager's view of the job agree: success     *)
(* only with a COMPLETE job, and a failure with a COMPLETE job only when   *)
(* the answer to the very last call was lost (main.go:148-151), or when    *)
(* the heartbeat ended the process (grpcbuild.go:210-212).                 *)
OutcomeAgrees ==
  /\ exit = "done" => job.phase = COMPLETE
  /\ job.phase = COMPLETE /\ exit # "running" => exit \in {"done", "phase", "heartbeat"}

(* The builder implements the promise made for a job. *)
Job == INSTANCE BuildJob WITH
         Tags      <- Names,
         phase     <- job.phase,
         wanted    <- Wanted,
         published <- Published,
         status    <- CASE exit = "running" -> "running"
                        [] exit = "done"    -> "succeeded"
                        [] OTHER            -> "failed"

ImplementsBuildJob == Job!Spec


(* "Buildpack directories are eventually deleted" (buildpack.go:254-255):  *)
(* a builder that has ended has none left.                                 *)
BuildpackDeleted == exit # "running" => disk = {}

=============================================================================
