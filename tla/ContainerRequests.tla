------------------------- MODULE ContainerRequests --------------------------
(***************************************************************************)
(* Requests to the container runtime: containerclient.Client, the error    *)
(* state of its LogWriter, and retryDockerRequest of package buildctx.     *)
(*                                                                         *)
(* The runtime and the registry are external.  `local` is the runtime's    *)
(* image store and `registry` the remote one, both by image reference; the *)
(* images are the three this build handles.                                *)
(***************************************************************************)
EXTENDS Naturals

CONSTANTS
  Names,    \* image references: the job's tags, its base image, a cached tag
  BuildID,  \* the name given to the image under construction
  Nil       \* Go's nil and the empty string

ASSUME NamesAssumption == /\ BuildID \notin Names
                          /\ Nil \notin Names \cup {BuildID}

VARIABLES
  runtime,      \* CONTAINER_RUNTIME
  request,      \* the streaming request in progress, Nil when there is none
  errResponse,  \* LogWriter.errResponse: the request whose stream reported an error
  local,        \* the runtime's images
  registry      \* the registry's images

containerVars == <<runtime, request, errResponse, local, registry>>

Refs  == Names \cup {BuildID}
Image == {"absent", "old", "base", "cached", "built"}
Op    == {"pull", "prime", "build", "push"}

(* Mutant: the loop ends before the attempt that it takes for its last. *)
TwoAttempts == 2

(* The bound of the loop, and the attempt that it takes for its last one. *)
MaxAttempts == 3
LastIndex   == 2

ContainerRequest == [op : Op, ref : Refs, attempt : 0..(MaxAttempts - 1)]

ContainerTypeOK ==
  /\ runtime \in {"docker", "podman"}
  /\ request \in ContainerRequest \cup {Nil}
  /\ errResponse \in ContainerRequest \cup {Nil}
  /\ local \in [Refs -> Image]
  /\ registry \in [Names -> Image]

ContainerInit ==
  /\ runtime \in {"docker", "podman"}
  /\ request = Nil
  /\ errResponse = Nil
  /\ local = [n \in Refs |-> "absent"]
  /\ registry = [n \in Names |-> "old"]

-----------------------------------------------------------------------------
(* What a request does at the runtime when it is carried out. *)

Store(ref, image) ==
  /\ local' = [local EXCEPT ![ref] = image]
  /\ UNCHANGED registry

CarriedOut ==
  \/ request.op = "pull"  /\ Store(request.ref, "base")
  \/ request.op = "prime" /\ Store(request.ref, "cached")
  \/ request.op = "build" /\ Store(BuildID, "built")
  \/ /\ request.op = "push"
     /\ local[request.ref] # "absent"
     /\ registry' = [registry EXCEPT ![request.ref] = local[request.ref]]
     /\ UNCHANGED local

(* Only Docker streams the progress of a pull or a push through the        *)
(* writer; both runtimes stream a build.                                   *)
Streams == request # Nil /\ (runtime = "docker" \/ request.op = "build")

-----------------------------------------------------------------------------
ResetError == errResponse' = Nil

(* A request begins.  retryDockerRequest throws away the writer's error    *)
(* before every attempt; a build is made without it.                       *)
BeginRequest(op, ref) ==
  /\ request = Nil
  /\ request' = [op |-> op, ref |-> ref, attempt |-> 0]
  /\ IF op = "build" THEN UNCHANGED errResponse ELSE ResetError
  /\ UNCHANGED <<runtime, local, registry>>

(* Docker's stream reports an error: Write keeps it, in place of an        *)
(* earlier one.  Podman's writer keeps none.                               *)
StreamError ==
  /\ request # Nil
  /\ runtime = "docker"
  /\ errResponse' = request
  /\ UNCHANGED <<runtime, request, local, registry>>

(* Mutant: the error is handed over and kept. *)
ErrResponseKept == UNCHANGED errResponse

(* ErrResponse hands the error over and forgets it. *)
HasErrResponse == errResponse # Nil
ErrResponse    == ResetError

(* The request returns without an error of either kind. *)
RequestSucceeds ==
  /\ request # Nil
  /\ ~HasErrResponse
  /\ ErrResponse
  /\ CarriedOut
  /\ request' = Nil
  /\ UNCHANGED runtime

(* What becomes of an attempt that failed.  A build has only one.  The     *)
(* loop of retryDockerRequest returns the error of the attempt that it     *)
(* takes for its last one, and returns nil if it ends before.              *)
LastAttempt == request.op = "build" \/ request.attempt = LastIndex

AfterFailure == IF LastAttempt THEN "error"
                ELSE IF request.attempt + 1 < MaxAttempts THEN "retry" ELSE "nil"

(* The request returns an error, or its stream reported one.  The runtime  *)
(* may have carried it out all the same.  The error of the stream is taken *)
(* from the writer in either case, except by a build, which looks for it   *)
(* only after a call that returned none.                                   *)
RequestFails ==
  /\ request # Nil
  /\ \/ ErrResponse
     \/ request.op = "build" /\ UNCHANGED errResponse
  /\ CarriedOut \/ UNCHANGED <<local, registry>>
  /\ request' = IF AfterFailure = "retry" THEN [request EXCEPT !.attempt = @ + 1] ELSE Nil
  /\ UNCHANGED runtime

=============================================================================
