-------------------------- MODULE ContainerClients --------------------------
(***************************************************************************)
(* dockerClient and podmanClient (containerclient): how the requests of a  *)
(* buildctx.Context become calls of the two runtimes' APIs, and which      *)
(* image each call names, the base image among them that the metadata of   *)
(* the Dockerfile names.  A build that meets no failure, but for its       *)
(* Dockerfile and for priming the cache, is enough to say whether the      *)
(* calls belong together; failures are in Builder.                         *)
(***************************************************************************)
EXTENDS DockerfileMetadata

CONSTANTS Jobs      \* [registry, repository, tagNames, cachedTag, pullToken]

ASSUME JobsAssumption ==
  Jobs \subseteq [registry : STRING, repository : STRING, tagNames : Seq(STRING),
                  cachedTag : STRING, pullToken : STRING]

Scratch == <<"scratch">>
BuildID == "build-uuid"
None    == ""

VARIABLES
  runtime,     \* CONTAINER_RUNTIME
  job,         \* bc.args and the tag the manager finds
  pc,
  cacheTag,    \* bc.cacheTag
  tagIdx,      \* the position of the push loop
  calls        \* history: the calls of the runtime's API

vars == <<metadataVars, runtime, job, pc, cacheTag, tagIdx, calls>>

(* An image, by repository and tag; one without a tag is a name or an ID.  *)
Image(repo, tag) == <<repo, tag>>
FullRepoName     == <<job.registry, job.repository>>
BaseImage        == Image(metadata.BaseImage, metadata.BaseImageTag)
BuiltImage       == Image(<<BuildID>>, None)
BuiltID          == Image(<<"sha256">>, None)
CachedImage(tag) == Image(FullRepoName, tag)

(* A call of the API: its subject, a second image that it uses, and those  *)
(* it may take layers from.                                                *)
Call(api, image, from, cache) == [api |-> api, image |-> image, from |-> from, cache |-> cache]

-----------------------------------------------------------------------------
(* Both clients name an image by repository and tag.  The repository       *)
(* begins with the registry, so that docker's client hands that on beside  *)
(* it, and podman's drops it.                                              *)

(* Mutant: fullImageRef in place of imagePath. *)
PullFullImageRef(repo, registry, tag) ==
  Call("pull", IF runtime = "podman" THEN Image(<<registry>> \o repo, tag) ELSE Image(repo, tag),
       None, {})

PullImage(repo, registry, tag) == Call("pull", Image(repo, tag), None, {})

(* Mutant: fullImageRef in place of imagePath. *)
PushFullImageRef(repo, registry, tag) ==
  Call("push", IF runtime = "podman" THEN Image(<<registry>> \o repo, tag) ELSE Image(repo, tag),
       None, {})

PushImage(repo, registry, tag) == Call("push", Image(repo, tag), None, {})

(* Mutant: tag and repository change places. *)
TagImageSwapped(name, repo, tag) ==
  Call("tag", IF runtime = "podman" THEN Image(<<tag>>, repo) ELSE Image(repo, tag), name, {})

TagImage(name, repo, tag) == Call("tag", Image(repo, tag), name, {})

InspectImage(name) == Call("inspect", name, None, {})

RemoveImageExtended(name) == Call("remove", name, None, {})

PruneImages == Call("prune", None, None, {})

(* podman's options have no place for opts.CacheFrom. *)
BuildImage(name, cacheFrom) ==
  Call("build", name, None, IF runtime = "docker" THEN cacheFrom ELSE {})

-----------------------------------------------------------------------------

Init ==
  /\ runtime \in {"docker", "podman"}
  /\ job \in Jobs
  /\ MetadataInit
  /\ pc = "unpack" /\ cacheTag = None /\ tagIdx = 1
  /\ calls = <<>>

Calls(call, next) ==
  /\ calls' = Append(calls, call)
  /\ pc' = next
  /\ UNCHANGED <<metadataVars, runtime, job>>

Skips(next) == pc' = next /\ UNCHANGED <<metadataVars, runtime, job, calls>>

(* Without metadata the build fails, before the runtime is asked for       *)
(* anything; after a panic the process is over as well.                    *)
Unpack ==
  /\ pc = "unpack"
  /\ NewMetadataFromDir
  /\ pc' = IF metadata'.err = "" THEN "pull" ELSE "end"
  /\ UNCHANGED <<runtime, job, cacheTag, tagIdx, calls>>

PullBase ==
  /\ pc = "pull"
  /\ IF metadata.BaseImage = Scratch THEN Skips("prime")
     ELSE Calls(PullImage(metadata.BaseImage, job.registry, metadata.BaseImageTag), "inspectBase")
  /\ UNCHANGED <<cacheTag, tagIdx>>

InspectBase ==
  /\ pc = "inspectBase"
  /\ Calls(InspectImage(BaseImage), "prime")
  /\ UNCHANGED <<cacheTag, tagIdx>>

PrimeCache ==
  /\ pc = "prime"
  /\ IF job.pullToken # None /\ job.cachedTag # None
       THEN /\ Calls(PullImage(FullRepoName, job.registry, job.cachedTag), "build")
            /\ cacheTag' \in {None, job.cachedTag}
       ELSE Skips("build") /\ UNCHANGED cacheTag
  /\ UNCHANGED tagIdx

Build ==
  /\ pc = "build"
  /\ Calls(BuildImage(BuiltImage, IF cacheTag = None THEN {} ELSE {CachedImage(cacheTag)}),
           "tag")
  /\ UNCHANGED <<cacheTag, tagIdx>>

Tag ==
  /\ pc = "tag"
  /\ IF tagIdx \in DOMAIN job.tagNames
       THEN Calls(TagImage(BuiltImage, FullRepoName, job.tagNames[tagIdx]), "push")
       ELSE Calls(InspectImage(BuiltImage), "rmCached")
  /\ UNCHANGED <<cacheTag, tagIdx>>

Push ==
  /\ pc = "push"
  /\ Calls(PushImage(FullRepoName, job.registry, job.tagNames[tagIdx]), "tag")
  /\ tagIdx' = tagIdx + 1
  /\ UNCHANGED cacheTag

(* Mutant: Cleanup is given the name of the build in place of the ID. *)
ToRemoveByName ==
  [rmCached |-> CachedImage(cacheTag), rmBase |-> BaseImage, rmBuilt |-> BuiltImage]

(* Cleanup is given the ID that looking up the built image returned. *)
ToRemove ==
  [rmCached |-> CachedImage(cacheTag), rmBase |-> BaseImage, rmBuilt |-> BuiltID]

AfterRemove == [rmCached |-> "rmBase", rmBase |-> "rmBuilt", rmBuilt |-> "prune"]

Cleanup ==
  /\ \/ /\ pc \in DOMAIN ToRemove
        /\ IF pc = "rmCached" /\ cacheTag = None THEN Skips("rmBase")
           ELSE Calls(RemoveImageExtended(ToRemove[pc]), AfterRemove[pc])
     \/ pc = "prune" /\ Calls(PruneImages, "end")
  /\ UNCHANGED <<cacheTag, tagIdx>>

Terminated == pc = "end" /\ UNCHANGED vars

Next ==
  Unpack \/ PullBase \/ InspectBase \/ PrimeCache \/ Build \/ Tag \/ Push \/ Cleanup \/ Terminated

Spec == Init /\ [][Next]_vars

-----------------------------------------------------------------------------
(* Properties. *)

TypeOK ==
  /\ MetadataTypeOK
  /\ runtime \in {"docker", "podman"}
  /\ job \in Jobs
  /\ cacheTag \in {None, job.cachedTag}
  /\ tagIdx \in 1 .. Len(job.tagNames) + 1
  /\ \A i \in DOMAIN calls : calls[i].api # "prune" =>
       calls[i].image[1] \in {metadata.BaseImage, FullRepoName, <<BuildID>>, BuiltID[1]}

Before(i, api, image) == \E j \in 1 .. i - 1 : calls[j].api = api /\ calls[j].image = image

(* What is inspected, used as a cache or removed was pulled or built under *)
(* that very name, or is the ID that was looked up, and each client pushes *)
(* under the name it tagged the built image with.  Cleanup's attempt at    *)
(* the built-in scratch is the only call that names another                *)
(* (docker_client.go:90-131, podman_client.go:71-95, context.go:122-127,   *)
(* 271, 295-337, 350-381, 401-406).                                        *)
UsedIsThere ==
  \A i \in DOMAIN calls :
    /\ calls[i].api \in {"inspect", "remove"} =>
         \/ Before(i, "pull", calls[i].image) \/ Before(i, "build", calls[i].image)
         \/ calls[i].image = BuiltID /\ Before(i, "inspect", BuiltImage)
         \/ calls[i].api = "remove" /\ BaseImage[1] = Scratch /\ calls[i].image = BaseImage
    /\ \A image \in calls[i].cache : Before(i, "pull", image)
    /\ calls[i].api = "push" =>
         \E j \in 1 .. i - 1 : /\ calls[j].api = "tag" /\ calls[j].image = calls[i].image
                               /\ Before(j, "build", calls[j].from)

(* The names of the built image: to remove an image by its ID removes all. *)
BuiltNames ==
  {BuiltImage} \union {calls[i].image : i \in {j \in DOMAIN calls : calls[j].api = "tag"}}

Removed(image) ==
  \E i \in DOMAIN calls :
    /\ calls[i].api = "remove"
    /\ calls[i].image = image \/ (calls[i].image = BuiltID /\ image \in BuiltNames)

(* Cleanup leaves nothing in the runtime that the build has pulled, built  *)
(* or tagged, unless it does not know of it, as priming the cache failed   *)
(* (context.go:122-127, 350-381, main.go:155).                             *)
NothingStays ==
  pc = "end" =>
    \A i \in DOMAIN calls : calls[i].api \in {"pull", "build", "tag"} =>
      \/ Removed(calls[i].image)
      \/ cacheTag = None /\ calls[i].image = CachedImage(job.cachedTag)

=============================================================================
