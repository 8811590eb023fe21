------------------------------ MODULE BuildJob ------------------------------
(***************************************************************************)
(* What the system promises about one build, as the build manager and the  *)
(* registry see it: the job moves through the phases in one direction, its *)
(* tags are published only while it is in PUSHING, it becomes COMPLETE     *)
(* only with all of them published, and the builder ends with success only *)
(* when it is COMPLETE.  Builder.tla is shown to implement this.           *)
(***************************************************************************)
EXTENDS Phases

CONSTANT Tags

VARIABLES
  phase,      \* the phase the manager has put the job in
  wanted,     \* the tags to publish
  published,  \* the tags the registry serves the new image under
  status      \* the builder: "running", "succeeded" or "failed"

jobVars == <<phase, wanted, published, status>>

TypeOK ==
  /\ phase \in PbPhase
  /\ wanted \subseteq Tags
  /\ published \subseteq Tags
  /\ status \in {"running", "succeeded", "failed"}

Init ==
  /\ phase = WAITING
  /\ wanted = {}
  /\ published = {}
  /\ status = "running"

Register ==
  /\ phase = WAITING
  /\ wanted = {}
  /\ wanted' \in SUBSET Tags
  /\ UNCHANGED <<phase, published, status>>

(* The manager may act on a request long after the builder made it, even   *)
(* after the builder failed.                                               *)
Advance ==
  /\ status # "succeeded"
  /\ phase' \in (phase + 1)..COMPLETE
  /\ phase' = COMPLETE => wanted \subseteq published
  /\ UNCHANGED <<wanted, published, status>>

(* The push that publishes a tag may still report an error, and end the    *)
(* build.                                                                  *)
Publish ==
  /\ status = "running"
  /\ phase = PUSHING
  /\ \E t \in wanted : published' = published \cup {t}
  /\ status' \in {"running", "failed"}
  /\ UNCHANGED <<phase, wanted>>

(* An error may end the build even after the last request reached the      *)
(* manager: a builder that failed says nothing about the job.              *)
Finish ==
  /\ status = "running"
  /\ \/ status' = "succeeded" /\ phase = COMPLETE
     \/ status' = "failed"
  /\ UNCHANGED <<phase, wanted, published>>

Next == Register \/ Advance \/ Publish \/ Finish

Spec == Init /\ [][Next]_jobVars

(* A job that is complete, and a build that succeeded, left no tag without *)
(* the new image; and nothing but the job's tags was published.            *)
CompleteMeansPublished ==
  /\ published \subseteq wanted
  /\ (phase = COMPLETE \/ status = "succeeded") => published = wanted

=============================================================================
