----------------------------- MODULE Buildpack ------------------------------
(***************************************************************************)
(* Download (buildpack): the job's repository is cloned, or its package is *)
(* fetched and extracted.  The commands of a clone are those of Command,   *)
(* which TimedCommand implements.                                          *)
(***************************************************************************)
EXTENDS Integers, Sequences

VARIABLES
  job,         \* what the job names: a "git" repository, a "package", or "none"
  pc,          \* the next step
  result,      \* of Download: "running", "ok", "failed", or the builder "died"
  defers,      \* what Clone has deferred, last one last
  files,       \* what is on the disk: "key", "archive", "dir"
  keyFile,     \* the handle and contents of the key file
  PKEY,        \* the environment tells ssh-git.sh where the key is
  cwd,         \* the working directory of the process
  git,         \* the git command that was run last
  outcome, alive,  \* see Command
  resp,        \* the server's answer
  contents     \* what was put into the directory

command == <<git, outcome, alive>>
disk    == <<files, keyFile, PKEY, cwd>>
package == <<resp, contents>>
vars    == <<job, pc, result, defers, disk, command, package>>

Git == INSTANCE Command

Mimes  == {"zip", "tar", "plain", "other"}
Bodies == {"zip", "tgz", "tar", "text", "html"}

(* Whether the status is a success; the type of the content, if the server *)
(* says it; the content; and whether the connection breaks in the middle.  *)
(* A server that fails says why in words.                                  *)
Response ==
  {r \in [success : BOOLEAN, mime : Mimes \union {""}, body : Bodies, cut : BOOLEAN] :
     r.success \/ r.body \in {"text", "html"}}

NoResponse == [success |-> FALSE, mime |-> "", body |-> "html", cut |-> TRUE]

TypeOK ==
  /\ job \in {"git", "package", "none"}
  /\ result \in {"running", "ok", "failed", "died"}
  /\ defers \in {<<>>, <<"remove", "close">>, <<"remove", "close", "chdir">>,
                 <<"remove">>}
  /\ files \subseteq {"key", "archive", "dir"}
  /\ keyFile \in {"none", "open", "written", "closed"}
  /\ PKEY \in BOOLEAN
  /\ cwd \in {"start", "buildpack", "root"}
  /\ git \in {"none", "clone", "checkout", "submodule"}
  /\ Git!CommandTypeOK
  /\ resp \in Response
  /\ contents \in Bodies \union {"none", "part"}

Init ==
  /\ job \in {"git", "package", "none"}
  /\ pc = "download" /\ result = "running" /\ defers = <<>>
  /\ files = {} /\ keyFile = "none" /\ PKEY = FALSE /\ cwd = "start"
  /\ git = "none" /\ outcome = "ok" /\ alive = {}
  /\ resp = NoResponse /\ contents = "none"

-----------------------------------------------------------------------------

At(step) == result = "running" /\ outcome # "died" /\ pc = step
Go(step) == pc' = step /\ result' = result

(* A function returns: what it deferred comes first. *)
Fails    == pc' = "failing" /\ result' = result
Succeeds == pc' = "succeeding" /\ result' = result
Fatal    == result' = "died" /\ pc' = pc

Download ==
  /\ At("download")
  /\ CASE job = "git"     -> Go("tempKey")
       [] job = "package" -> Go("get")
       [] OTHER           -> Fails
  /\ UNCHANGED <<job, defers, disk, command, package>>

Return ==
  /\ At("failing") \/ At("succeeding")
  /\ defers = <<>>
  /\ result' = IF pc = "failing" THEN "failed" ELSE "ok"
  /\ UNCHANGED <<job, pc, defers, disk, command, package>>

-----------------------------------------------------------------------------
(* Clone. *)

(* Mutants: the removal comes first; the key is not removed. *)
DeferredSwapped   == <<"close", "remove">>
DeferredCloseOnly == <<"close">>

Deferred == <<"remove", "close">>

TempKey ==
  /\ At("tempKey")
  /\ \/ /\ files' = files \union {"key"} /\ keyFile' = "open"
        /\ defers' = Deferred
        /\ Go("writeKey")
     \/ Fails /\ UNCHANGED <<files, keyFile, defers>>
  /\ UNCHANGED <<job, PKEY, cwd, command, package>>

(* Its permissions and its contents. *)
WriteKey ==
  /\ At("writeKey")
  /\ \/ keyFile' = "written" /\ Go("cloneDir")
     \/ Fails /\ UNCHANGED keyFile
  /\ UNCHANGED <<job, defers, files, PKEY, cwd, command, package>>

CloneDir ==
  /\ At("cloneDir")
  /\ \/ files' = files \union {"dir"} /\ Go("setenv")
     \/ Fails /\ UNCHANGED files
  /\ UNCHANGED <<job, defers, keyFile, PKEY, cwd, command, package>>

Setenv ==
  /\ At("setenv")
  /\ \/ PKEY' = TRUE /\ Go("clone")
     \/ Fails /\ UNCHANGED PKEY
  /\ UNCHANGED <<job, defers, files, keyFile, cwd, command, package>>

(* timeoutActiveCommand for the first two, timeoutCommand for submodules.  *)
RunGit ==
  /\ \E step \in {"clone", "checkout", "submodule"} :
       At(step) /\ git # step /\ git' = step
  /\ outcome' = "running"
  /\ alive' = alive \union {"child"}
  /\ UNCHANGED <<job, pc, result, defers, disk, package>>

(* Mutant: a command that was killed is taken for one that is done. *)
GoesOnUnlessFailed == outcome # "failed"

GoesOn == outcome = "ok"

AfterGit == [clone |-> "chdir", checkout |-> "submodule", submodule |-> "succeeding"]

GitReturns ==
  /\ pc \in DOMAIN AfterGit /\ At(pc) /\ git = pc
  /\ outcome # "running"
  /\ IF GoesOn THEN Go(AfterGit[pc]) ELSE Fails
  /\ UNCHANGED <<job, defers, disk, command, package>>

GitRuns ==
  /\ outcome # "died" /\ Git!Next
  /\ result' = IF outcome' = "died" THEN "died" ELSE result
  /\ UNCHANGED <<job, pc, defers, disk, git, package>>

(* Mutant: nothing leads out of the clone again. *)
NoChdirBack == defers

ChdirBack == Append(defers, "chdir")

Chdir ==
  /\ At("chdir")
  /\ \/ cwd' = "buildpack" /\ defers' = ChdirBack /\ Go("checkout")
     \/ Fatal /\ UNCHANGED <<cwd, defers>>
  /\ UNCHANGED <<job, files, keyFile, PKEY, command, package>>

(* Errors of closing and removing the key file are dropped; that it can be *)
(* removed is assumed.                                                     *)
RunDeferred ==
  /\ At("failing") \/ At("succeeding")
  /\ defers # <<>>
  /\ LET last == defers[Len(defers)] IN
       /\ \/ last = "chdir" /\ cwd' = "root" /\ Go(pc) /\ UNCHANGED <<files, keyFile>>
          \/ last = "chdir" /\ Fatal /\ UNCHANGED <<cwd, files, keyFile>>
          \/ last = "close" /\ keyFile' = "closed" /\ Go(pc) /\ UNCHANGED <<cwd, files>>
          \/ /\ last = "remove" /\ files' = files \ {"key"} /\ Go(pc)
             /\ UNCHANGED <<cwd, keyFile>>
  /\ defers' = SubSeq(defers, 1, Len(defers) - 1)
  /\ UNCHANGED <<job, PKEY, command, package>>

-----------------------------------------------------------------------------
(* download: the package. *)

(* http.DetectContentType of the first bytes, of which there may be none   *)
(* when the connection breaks.  A tar that is not compressed looks binary. *)
Sniffed(r) ==
  LET looks == CASE r.body = "zip"  -> "zip"
                 [] r.body = "tgz"  -> "tar"
                 [] r.body = "html" -> "other"
                 [] OTHER           -> "plain"
  IN {looks} \union IF r.cut THEN {"plain"} ELSE {}

Unpacker == [zip |-> "archive", tar |-> "archive", plain |-> "plainDir", other |-> "failing"]

(* The status of the answer is not looked at. *)
Get ==
  /\ At("get")
  /\ \/ \E r \in Response :
          /\ resp' = r
          /\ \E mime \in IF r.mime = "" THEN Sniffed(r) ELSE {r.mime} : Go(Unpacker[mime])
     \/ Fails /\ UNCHANGED resp
  /\ UNCHANGED <<job, defers, disk, command, contents>>

(* Reading to the end; an error of the connection that Peek has dropped    *)
(* comes again.                                                            *)
BodyRead == ~resp.cut

Archive ==
  /\ At("archive")
  /\ \/ files' = files \union {"archive"} /\ Go("extract") /\ BodyRead
     \/ files' \in {files, files \union {"archive"}} /\ Fails
  /\ UNCHANGED <<job, defers, keyFile, PKEY, cwd, command, package>>

(* The unzipper wants a zip, and the other a compressed tar; either may    *)
(* leave a part when it fails.                                             *)
Extract ==
  /\ At("extract")
  /\ \/ /\ resp.body \in {"zip", "tgz"}
        /\ resp.mime \in {"", IF resp.body = "zip" THEN "zip" ELSE "tar"}
        /\ contents' = resp.body /\ files' = files \union {"dir"} /\ Succeeds
     \/ Fails /\ UNCHANGED <<contents, files>>
     \/ Fails /\ contents' = "part" /\ files' = files \union {"dir"}
  /\ UNCHANGED <<job, defers, keyFile, PKEY, cwd, command, resp>>

PlainDir ==
  /\ At("plainDir")
  /\ \/ files' = files \union {"dir"} /\ contents' = resp.body /\ Succeeds /\ BodyRead
     \/ files' \in {files, files \union {"dir"}} /\ Fails /\ UNCHANGED contents
  /\ UNCHANGED <<job, defers, keyFile, PKEY, cwd, command, resp>>

-----------------------------------------------------------------------------

Terminated == result # "running" /\ UNCHANGED vars

Clone == TempKey \/ WriteKey \/ CloneDir \/ Setenv \/ RunGit \/ GitReturns \/ Chdir

Next ==
  \/ Download \/ Return \/ Clone \/ RunDeferred \/ GitRuns
  \/ Get \/ Archive \/ Extract \/ PlainDir
  \/ Terminated

Spec == Init /\ [][Next]_vars

-----------------------------------------------------------------------------
(* Properties. *)

(* Nobody writes in the clone when it is handed out, or when the next git  *)
(* command starts to work in it: what a command leaves running ends the    *)
(* clone (buildpack.go:236-283).                                           *)
NobodyWrites ==
  /\ result = "ok" => alive = {}
  /\ pc \in {"chdir", "checkout", "submodule"} /\ git # pc => alive = {}

(* Every git command finds the key, complete, where PKEY says it is; after *)
(* a Clone that returned the key is gone, and closed (buildpack.go:193-215,*)
(* 230).                                                                   *)
KeyForGitOnly ==
  /\ outcome = "running" => "key" \in files /\ keyFile = "written" /\ PKEY
  /\ result \in {"ok", "failed"} => "key" \notin files /\ keyFile \in {"none", "closed"}

(* The builder never goes on in a directory that will be removed           *)
(* (buildpack.go:254-262).                                                 *)
LeavesTheClone == result \in {"ok", "failed"} => cwd # "buildpack"

=============================================================================
