-------------------------- MODULE BuildpackProofs ---------------------------
(***************************************************************************)
(* Theorems about Download: what its git commands find and leave,          *)
(* whichever of its steps fails or hangs.                                  *)
(***************************************************************************)
EXTENDS Buildpack, SequenceTheorems, TLAPS

Fetching    == {"download", "get", "archive", "extract", "plainDir", "tempKey"}
KeyMade     == {"writeKey", "cloneDir", "setenv", "clone", "chdir"}
KeyWritten  == {"cloneDir", "setenv", "clone", "chdir", "checkout", "submodule"}
InClone     == {"checkout", "submodule"}
Commands    == {"clone", "checkout", "submodule"}

(* The stack of deferred calls, at each stage of its way down.             *)
Stack1 == <<"remove">>
Stack2 == <<"remove", "close">>
Stack3 == <<"remove", "close", "chdir">>

(* The key file is there as long as its removal is still deferred, and the *)
(* working directory is the clone only as long as the way back is.         *)
DefersInv ==
  /\ defers \in {<<>>, Stack1, Stack2, Stack3}
  /\ pc \in Fetching => defers = <<>>
  /\ pc \in KeyMade  => defers = Stack2
  /\ pc \in InClone  => defers = Stack3
  /\ "key" \in files <=> defers # <<>>
  /\ defers = <<>> => keyFile \in {"none", "closed"}
  /\ defers = Stack1 => keyFile = "closed"
  /\ cwd = "buildpack" => defers = Stack3 \/ result = "died"
  /\ result \in {"ok", "failed"} => defers = <<>>

(* A command runs only at its own step, with a key that is written.        *)
CommandInv ==
  /\ outcome = "running" => pc \in Commands
  /\ pc \in KeyWritten => keyFile = "written"
  /\ pc \in Commands \cup {"chdir"} => PKEY

(* A command that is over without an error has left nobody behind, and     *)
(* only after such a one the clone goes on.                                *)
QuietInv ==
  /\ outcome = "ok" => alive = {}
  /\ pc = "chdir" \/ (pc \in Commands /\ git # pc) => outcome = "ok"
  /\ pc \in Fetching \cup {"writeKey", "cloneDir", "setenv"} => outcome = "ok"
  /\ pc = "succeeding" => outcome = "ok"
  /\ result = "ok" => pc = "succeeding"

PackInv == DefersInv /\ CommandInv /\ QuietInv

-----------------------------------------------------------------------------
(* What the stacks hold.                                                   *)
Calls == {"remove", "close", "chdir"}

LEMMA StackSeqs ==
  /\ Stack2 \in Seq(Calls) /\ Len(Stack2) = 2
  /\ Stack3 \in Seq(Calls) /\ Len(Stack3) = 3
  /\ Stack1 \in Seq(Calls) /\ Len(Stack1) = 1
  BY DEF Stack1, Stack2, Stack3, Calls

(* The last call is made and leaves the ones before it.                    *)
LEMMA PopsOne == ASSUME NEW s \in Seq(Calls), NEW t \in Seq(Calls), Len(s) = Len(t) + 1,
                        \A i \in 1..Len(t) : s[i] = t[i]
                 PROVE  SubSeq(s, 1, Len(s) - 1) = t
<1>1. \A i \in 1..Len(t) : s[i] \in Calls
  OBVIOUS
<1>2. /\ SubSeq(s, 1, Len(t)) \in Seq(Calls)
      /\ Len(SubSeq(s, 1, Len(t))) = Len(t)
      /\ \A i \in 1..Len(t) : SubSeq(s, 1, Len(t))[i] = s[i]
  BY <1>1, SubSeqProperties
<1>3. SubSeq(s, 1, Len(t)) = t
  BY <1>2, SeqEqual
<1> QED
  BY <1>3

LEMMA Pops ==
  /\ SubSeq(Stack3, 1, Len(Stack3) - 1) = Stack2
  /\ SubSeq(Stack2, 1, Len(Stack2) - 1) = Stack1
  /\ SubSeq(Stack1, 1, Len(Stack1) - 1) = <<>>
<1>1. SubSeq(Stack3, 1, Len(Stack3) - 1) = Stack2
  <2>1. \A i \in 1..Len(Stack2) : Stack3[i] = Stack2[i]
    BY DEF Stack1, Stack2, Stack3
  <2> QED
    BY <2>1, StackSeqs, PopsOne
<1>2. SubSeq(Stack2, 1, Len(Stack2) - 1) = Stack1
  <2>1. \A i \in 1..Len(Stack1) : Stack2[i] = Stack1[i]
    BY DEF Stack1, Stack2
  <2>2. Len(Stack2) = Len(Stack1) + 1
    BY StackSeqs
  <2> QED
    BY <2>1, <2>2, StackSeqs, PopsOne
<1>3. SubSeq(Stack1, 1, Len(Stack1) - 1) = <<>>
  BY SubSeqEmpty, StackSeqs
<1> QED
  BY <1>1, <1>2, <1>3

(* Each stack is known by its last call.                                   *)
LEMMA Lasts ==
  /\ Stack3[Len(Stack3)] = "chdir"
  /\ Stack2[Len(Stack2)] = "close"
  /\ Stack1[Len(Stack1)] = "remove"
  BY DEF Stack1, Stack2, Stack3

(* The stacks differ.                                                      *)
LEMMA StacksDiffer ==
  /\ Stack2 # <<>> /\ Stack3 # <<>> /\ Stack1 # <<>>
  /\ Stack2 # Stack3 /\ Stack1 # Stack2 /\ Stack1 # Stack3
  BY DEF Stack1, Stack2, Stack3

(* The way back joins the two other calls.                                 *)
LEMMA Pushes == Append(Stack2, "chdir") = Stack3
<1> DEFINE pushed == Append(Stack2, "chdir")
<1>1. Len(Stack2) = 2 /\ Len(Stack3) = 3 /\ Stack2 \in Seq(Calls) /\ Stack3 \in Seq(Calls)
  BY StackSeqs
<1>2. "chdir" \in Calls
  BY DEF Calls
<1>3. /\ pushed \in Seq(Calls)
      /\ Len(pushed) = Len(Stack2) + 1
      /\ \A i \in 1..Len(Stack2) : pushed[i] = Stack2[i]
      /\ pushed[Len(Stack2) + 1] = "chdir"
  <2>1. \A s \in Seq(Calls) : \A c \in Calls :
          /\ Append(s, c) \in Seq(Calls)
          /\ Len(Append(s, c)) = Len(s) + 1
          /\ \A i \in 1..Len(s) : Append(s, c)[i] = s[i]
          /\ Append(s, c)[Len(s) + 1] = c
    BY AppendProperties
  <2> QED
    BY <1>1, <1>2, <2>1
<1> HIDE DEF pushed
<1>4. \A i \in 1..3 : pushed[i] = Stack3[i]
  BY <1>1, <1>3 DEF Stack2, Stack3
<1>5. Len(pushed) = Len(Stack3)
  BY <1>1, <1>3
<1>6. pushed = Stack3
  BY <1>1, <1>3, <1>4, <1>5, SeqEqual
<1> QED
  BY <1>6 DEF pushed

-----------------------------------------------------------------------------
(* The invariant holds whichever step fails.                               *)
LEMMA InitPack == Init => PackInv
  BY StacksDiffer
  DEF Init, PackInv, DefersInv, CommandInv, QuietInv, Fetching, KeyMade, KeyWritten,
      InClone, Commands

(* An answer leads to one of the ways of unpacking, or to none.            *)
LEMMA GetGoes ==
  ASSUME Get
  PROVE  pc' \in {"archive", "plainDir", "failing"} /\ result' = result
<1>1. \A mime \in Mimes : Unpacker[mime] \in {"archive", "plainDir", "failing"}
  BY DEF Mimes, Unpacker
<1>2. \A r \in Response : (IF r.mime = "" THEN Sniffed(r) ELSE {r.mime}) \subseteq Mimes
  BY DEF Response, Sniffed, Mimes
<1> QED
  BY <1>1, <1>2 DEF Get, Go, Fails

(* While no command has been run, none is at work.                         *)
LEMMA FetchSteps ==
  ASSUME PackInv, Download \/ Get \/ Archive \/ Extract \/ PlainDir
  PROVE  PackInv'
<1> USE DEF PackInv, DefersInv, CommandInv, QuietInv, Fetching, KeyMade, KeyWritten,
            InClone, Commands, At, Go, Fails, Succeeds, disk, command, package
<1>1. CASE Download
  BY <1>1, StacksDiffer DEF Download
<1>2. CASE Get
  <2>1. pc' \in {"archive", "plainDir", "failing"} /\ result' = result
    BY <1>2, GetGoes
  <2> QED
    BY <1>2, <2>1, StacksDiffer DEF Get
<1>3. CASE Archive
  BY <1>3, StacksDiffer DEF Archive
<1>4. CASE Extract
  BY <1>4, StacksDiffer DEF Extract
<1>5. CASE PlainDir
  BY <1>5, StacksDiffer DEF PlainDir
<1> QED
  BY <1>1, <1>2, <1>3, <1>4, <1>5

(* The key comes before the commands that need it.                         *)
LEMMA KeySteps ==
  ASSUME PackInv, TempKey \/ WriteKey \/ CloneDir \/ Setenv
  PROVE  PackInv'
<1> USE DEF PackInv, DefersInv, CommandInv, QuietInv, Fetching, KeyMade, KeyWritten,
            InClone, Commands, At, Go, Fails, disk, command, package
<1>1. CASE TempKey
  BY <1>1, StacksDiffer DEF TempKey, Deferred, Stack2
<1>2. CASE WriteKey
  BY <1>2, StacksDiffer DEF WriteKey
<1>3. CASE CloneDir
  BY <1>3, StacksDiffer DEF CloneDir
<1>4. CASE Setenv
  BY <1>4, StacksDiffer DEF Setenv
<1> QED
  BY <1>1, <1>2, <1>3, <1>4

(* A command starts when nobody is at work, and ends before the next step. *)
LEMMA GitSteps ==
  ASSUME PackInv, RunGit \/ GitReturns \/ GitRuns \/ Chdir
  PROVE  PackInv'
<1> USE DEF PackInv, DefersInv, CommandInv, QuietInv, Fetching, KeyMade, KeyWritten,
            InClone, Commands, At, Go, Fails, Fatal, disk, command, package
<1>1. CASE RunGit
  BY <1>1, StacksDiffer DEF RunGit
<1>2. CASE GitReturns
  <2>1. pc \in Commands
    BY <1>2 DEF GitReturns, AfterGit
  <2>2. /\ pc = "clone" => AfterGit[pc] = "chdir"
        /\ pc = "checkout" => AfterGit[pc] = "submodule"
        /\ pc = "submodule" => AfterGit[pc] = "succeeding"
    BY DEF AfterGit
  <2> QED
    BY <1>2, <2>1, <2>2, StacksDiffer DEF GitReturns, GoesOn
<1>3. CASE GitRuns
  <2>1. outcome # "ok" /\ (outcome' = "ok" => alive' = {})
    BY <1>3 DEF GitRuns, Git!Next, Git!Forks, Git!Ends, Git!OwnResult, Git!Killed, Git!Died
  <2>2. outcome' = "running" => outcome = "running"
    BY <1>3 DEF GitRuns, Git!Next, Git!Forks, Git!Ends, Git!OwnResult, Git!Killed, Git!Died
  <2>3. result' \in {result, "died"}
    BY <1>3 DEF GitRuns
  <2> QED
    BY <1>3, <2>1, <2>2, <2>3, StacksDiffer DEF GitRuns
<1>4. CASE Chdir
  <2>1. pc = "chdir" /\ defers = Stack2 /\ outcome = "ok"
    BY <1>4 DEF Chdir
  <2>2. defers' = Stack3 \/ (defers' = defers /\ cwd' = cwd /\ pc' = pc)
    BY <1>4, <2>1, Pushes DEF Chdir, ChdirBack
  <2> QED
    BY <1>4, <2>1, <2>2, StacksDiffer DEF Chdir
<1> QED
  BY <1>1, <1>2, <1>3, <1>4

(* What was deferred is undone in its order before Clone returns.          *)
LEMMA ReturnSteps ==
  ASSUME PackInv, Return \/ RunDeferred
  PROVE  PackInv'
<1> USE DEF PackInv, DefersInv, CommandInv, QuietInv, Fetching, KeyMade, KeyWritten,
            InClone, Commands, At, Go, Fatal, disk, command, package
<1>1. CASE Return
  BY <1>1, StacksDiffer DEF Return
<1>2. CASE RunDeferred
  <2>1. CASE defers = Stack3
    <3>1. defers' = Stack2 /\ defers[Len(defers)] = "chdir"
      BY <1>2, <2>1, Pops, Lasts DEF RunDeferred
    <3> QED
      BY <1>2, <2>1, <3>1, StacksDiffer DEF RunDeferred
  <2>2. CASE defers = Stack2
    <3>1. defers' = Stack1 /\ defers[Len(defers)] = "close"
      BY <1>2, <2>2, Pops, Lasts DEF RunDeferred
    <3> QED
      BY <1>2, <2>2, <3>1, StacksDiffer DEF RunDeferred
  <2>3. CASE defers = Stack1
    <3>1. defers' = <<>> /\ defers[Len(defers)] = "remove"
      BY <1>2, <2>3, Pops, Lasts DEF RunDeferred
    <3> QED
      BY <1>2, <2>3, <3>1, StacksDiffer DEF RunDeferred
  <2> QED
    BY <1>2, <2>1, <2>2, <2>3 DEF RunDeferred
<1> QED
  BY <1>1, <1>2

(* PackInv is inductive.                                                   *)
LEMMA NextPack == PackInv /\ [Next]_vars => PackInv'
<1> SUFFICES ASSUME PackInv, [Next]_vars
             PROVE  PackInv'
  OBVIOUS
<1>1. CASE Terminated \/ UNCHANGED vars
  BY <1>1 DEF Terminated, vars, disk, command, package, PackInv, DefersInv, CommandInv,
              QuietInv
<1> QED
  BY <1>1, FetchSteps, KeySteps, GitSteps, ReturnSteps DEF Next, Clone

LEMMA PackInvariance == Spec => []PackInv
  BY InitPack, NextPack, PTL DEF Spec

-----------------------------------------------------------------------------
(* Nobody writes in a clone that is handed out or about to be worked in,   *)
(* whatever the git commands fork and leave behind (buildpack.go:236-285). *)
THEOREM CloneIsQuiet == Spec => []NobodyWrites
<1>1. PackInv => NobodyWrites
  BY DEF PackInv, QuietInv, NobodyWrites, Commands
<1> QED
  BY <1>1, PackInvariance, PTL

(* git finds the key complete while it runs, and Clone leaves no key,      *)
(* whichever of its steps fails (buildpack.go:193-215, 230).               *)
THEOREM KeyIsForGit == Spec => []KeyForGitOnly
<1>1. PackInv => KeyForGitOnly
  BY StacksDiffer DEF PackInv, DefersInv, CommandInv, KeyForGitOnly, KeyMade, KeyWritten,
                      InClone, Commands
<1> QED
  BY <1>1, PackInvariance, PTL

(* After Clone the builder is not in the clone any more                    *)
(* (buildpack.go:249-262).                                                 *)
THEOREM CloneIsLeft == Spec => []LeavesTheClone
<1>1. PackInv => LeavesTheClone
  BY StacksDiffer DEF PackInv, DefersInv, LeavesTheClone
<1> QED
  BY <1>1, PackInvariance, PTL

-----------------------------------------------------------------------------
(* Types: the stack of deferred calls is one of the three that Clone can   *)
(* build up, as its invariant says; the other variables by their own steps.*)
FieldTypes ==
  /\ job \in {"git", "package", "none"}
  /\ result \in {"running", "ok", "failed", "died"}
  /\ files \subseteq {"key", "archive", "dir"}
  /\ keyFile \in {"none", "open", "written", "closed"}
  /\ PKEY \in BOOLEAN
  /\ cwd \in {"start", "buildpack", "root"}
  /\ git \in {"none", "clone", "checkout", "submodule"}
  /\ Git!CommandTypeOK

PackageTypes == resp \in Response /\ contents \in Bodies \union {"none", "part"}

TypeInv == PackInv /\ FieldTypes /\ PackageTypes

LEMMA InitTypes == Init => FieldTypes /\ PackageTypes
<1> SUFFICES ASSUME Init PROVE FieldTypes /\ PackageTypes
  OBVIOUS
<1>1. FieldTypes
  BY DEF Init, FieldTypes, Git!CommandTypeOK
<1>2. NoResponse \in Response
  BY DEF NoResponse, Response, Bodies, Mimes
<1> QED
  BY <1>1, <1>2 DEF Init, PackageTypes

LEMMA NextFields == FieldTypes /\ [Next]_vars => FieldTypes'
<1> SUFFICES ASSUME FieldTypes, [Next]_vars PROVE FieldTypes'
  OBVIOUS
<1> USE DEF FieldTypes, Git!CommandTypeOK, At, Go, Fails, Succeeds, Fatal, disk, command,
            package
<1>1. CASE Download \/ Return
  BY <1>1 DEF Download, Return
<1>2. CASE TempKey
  BY <1>2 DEF TempKey
<1>3. CASE WriteKey \/ CloneDir \/ Setenv
  <2>1. /\ keyFile' \in {keyFile, "written"} /\ files' \in {files, files \union {"dir"}}
        /\ PKEY' \in BOOLEAN /\ result' = result
    BY <1>3 DEF WriteKey, CloneDir, Setenv
  <2>2. UNCHANGED <<job, cwd, git, outcome, alive>>
    BY <1>3 DEF WriteKey, CloneDir, Setenv
  <2> QED
    BY <2>1, <2>2
<1>4. CASE RunGit \/ GitReturns
  BY <1>4 DEF RunGit, GitReturns
<1>5. CASE GitRuns
  BY <1>5 DEF GitRuns, Git!Next, Git!Forks, Git!Ends, Git!OwnResult, Git!Killed, Git!Died
<1>6. CASE Chdir
  BY <1>6 DEF Chdir
<1>7. CASE RunDeferred
  <2>1. /\ files' \subseteq files /\ keyFile' \in {keyFile, "closed"} /\ cwd' \in {cwd, "root"}
        /\ result' \in {result, "died"}
    BY <1>7 DEF RunDeferred
  <2>2. UNCHANGED <<job, PKEY, git, outcome, alive>>
    BY <1>7 DEF RunDeferred
  <2> QED
    BY <2>1, <2>2
<1>8. CASE Get
  <2>1. result' = result
    BY <1>8, GetGoes
  <2>2. UNCHANGED <<job, files, keyFile, PKEY, cwd, git, outcome, alive>>
    BY <1>8 DEF Get
  <2> QED
    BY <2>1, <2>2
<1>9. CASE Archive \/ Extract \/ PlainDir
  <2>1. files' \subseteq {"key", "archive", "dir"} /\ result' = result
    BY <1>9 DEF Archive, Extract, PlainDir
  <2>2. UNCHANGED <<job, keyFile, PKEY, cwd, git, outcome, alive>>
    BY <1>9 DEF Archive, Extract, PlainDir
  <2> QED
    BY <2>1, <2>2
<1>10. CASE Terminated \/ UNCHANGED vars
  <2>1. UNCHANGED <<job, result, files, keyFile, PKEY, cwd, git, outcome, alive>>
    BY <1>10 DEF Terminated, vars
  <2> QED
    BY <2>1
<1> QED
  BY <1>1, <1>2, <1>3, <1>4, <1>5, <1>6, <1>7, <1>8, <1>9, <1>10 DEF Next, Clone

LEMMA NextPackage == PackageTypes /\ [Next]_vars => PackageTypes'
<1> SUFFICES ASSUME PackageTypes, [Next]_vars PROVE PackageTypes'
  OBVIOUS
<1> USE DEF PackageTypes, package
<1>1. CASE Download \/ Return \/ Clone
  BY <1>1 DEF Download, Return, Clone, TempKey, WriteKey, CloneDir, Setenv, RunGit, GitReturns,
              Chdir
<1>2. CASE GitRuns \/ RunDeferred \/ Archive
  BY <1>2 DEF GitRuns, RunDeferred, Archive
<1>3. CASE Get
  BY <1>3 DEF Get
<1>4. CASE Extract \/ PlainDir
  <2>1. resp.body \in Bodies
    BY DEF Response
  <2> QED
    BY <1>4, <2>1 DEF Extract, PlainDir
<1>5. CASE Terminated \/ UNCHANGED vars
  BY <1>5 DEF Terminated, vars
<1> QED
  BY <1>1, <1>2, <1>3, <1>4, <1>5 DEF Next

(* The variables keep their types, Clone has deferred nothing but the      *)
(* three stacks, and what a command is left to be is a Command             *)
(* (buildpack.go:193-262).                                                 *)
THEOREM TypeCorrect == Spec => []TypeOK
<1>1. Init => TypeInv
  BY InitPack, InitTypes DEF TypeInv
<1>2. TypeInv /\ [Next]_vars => TypeInv'
  BY NextPack, NextFields, NextPackage DEF TypeInv
<1>3. TypeInv => TypeOK
  <2> SUFFICES ASSUME TypeInv PROVE TypeOK
    OBVIOUS
  <2>1. defers \in {<<>>, <<"remove", "close">>, <<"remove", "close", "chdir">>, <<"remove">>}
    BY Zenon DEF TypeInv, PackInv, DefersInv, Stack1, Stack2, Stack3
  <2> QED
    BY <2>1, Zenon DEF TypeInv, FieldTypes, PackageTypes, TypeOK
<1> QED
  BY <1>1, <1>2, <1>3, PTL DEF Spec

=============================================================================
