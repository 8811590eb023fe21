------------------------- MODULE DockerfileMetadata -------------------------
(***************************************************************************)
(* NewMetadataFromDir (containerclient/dockerfile): the base image of a    *)
(* Dockerfile, found by reading its first stage and the ARGs before it.    *)
(* A reference is a name with perhaps a tag and a digest; the empty name   *)
(* stands for one that is not valid.  A word is a reference or a variable. *)
(***************************************************************************)
EXTENDS Integers, Sequences

CONSTANTS
  Dockerfiles,    \* sequences of instructions: see Instruction
  Refs,           \* [name, tag, digest], a name being a sequence of words
  Args            \* the names of variables

Invalid == [name |-> <<>>, tag |-> "", digest |-> FALSE]

Literal(ref) == [var |-> "", ref |-> ref]
Variable(v)  == [var |-> v, ref |-> Invalid]
NoWord       == Literal(Invalid)

Words == {Literal(r) : r \in Refs} \union {Variable(v) : v \in Args}

(* ARG with or without a default, FROM, an instruction that belongs to a   *)
(* stage, and one that the second parser does not accept.                  *)
Instruction ==
  [op : {"ARG"}, key : Args, word : Words \union {NoWord}]
    \union [op : {"FROM", "RUN", "bad"}, key : {""}, word : Words \union {NoWord}]

ASSUME DockerfilesAssumption ==
  /\ \A r \in Refs : r.name # <<>>
  /\ "" \notin Args
  /\ Dockerfiles \subseteq Seq(Instruction)

VARIABLES
  file,           \* "missing", "unreadable" for the first parser, or "readable"
  dockerfile,     \* its instructions
  metadata        \* what NewMetadataFromDir returned

metadataVars == <<file, dockerfile, metadata>>

-----------------------------------------------------------------------------
(* The ARGs before the first FROM are the only ones outside of a stage.    *)

Froms(d) == {i \in 1..Len(d) : d[i].op = "FROM"}

FirstFrom(d) == CHOOSE i \in Froms(d) : \A j \in Froms(d) : i <= j

BaseName(d) == d[FirstFrom(d)].word

(* instructions.Parse: without a stage only ARG is allowed. *)
Parses(d) ==
  \A i \in 1..Len(d) :
    d[i].op # "bad" /\ (d[i].op = "RUN" => \E j \in Froms(d) : j < i)

(* Mutants: an ARG without a default unsets it; the first default counts.  *)
DefaultsOrUnset(d, v) ==
  LET is == {i \in 1 .. FirstFrom(d) - 1 : d[i].key = v}
  IN IF is = {} THEN NoWord ELSE d[CHOOSE i \in is : \A j \in is : i >= j].word
DefaultsFirst(d, v) ==
  LET is == {i \in 1 .. FirstFrom(d) - 1 : d[i].key = v /\ d[i].word # NoWord}
  IN IF is = {} THEN NoWord ELSE d[CHOOSE i \in is : \A j \in is : i <= j].word

(* The envGetter, filled with the text of the defaults: the last one of a  *)
(* variable counts, and none leaves it unset.                              *)
Default(d, v) ==
  LET is == {i \in 1 .. FirstFrom(d) - 1 : d[i].key = v /\ d[i].word # NoWord}
  IN IF is = {} THEN NoWord ELSE d[CHOOSE i \in is : \A j \in is : i >= j].word

(* reference.Parse: the text of a variable is no reference. *)
Parse(word) == IF word.var = "" THEN word.ref ELSE Invalid

(* Variables are substituted once, and only when the file begins with ARG. *)
ImageAndTag(d) ==
  IF d[1].op = "ARG" /\ BaseName(d).var # ""
    THEN Parse(Default(d, BaseName(d).var))
    ELSE Parse(BaseName(d))

(* Mutant: no tag stays no tag. *)
BaseTagAsGiven(ref) == ref.tag

BaseTag(ref) == IF ref.tag = "" THEN "latest" ELSE ref.tag

Error(e)      == [err |-> e, BaseImage |-> <<>>, BaseImageTag |-> ""]
Metadata(ref) == [err |-> "", BaseImage |-> ref.name, BaseImageTag |-> BaseTag(ref)]

(* The error of the second parser is dropped, and the first stage is taken *)
(* from a list that may be empty.                                          *)
NewMetadata(d) ==
  CASE d = <<>>                       -> Error("ErrEmptyDockerfile")
    [] d # <<>> /\ d[1].op \notin {"ARG", "FROM"}
                                      -> Error("ErrDockerfileMissingFROMorARG")
    [] d # <<>> /\ d[1].op \in {"ARG", "FROM"} /\ (~Parses(d) \/ Froms(d) = {})
                                      -> Error("panic")
    [] OTHER -> IF ImageAndTag(d).name = <<>> THEN Error("ErrInvalidBaseImage")
                                            ELSE Metadata(ImageAndTag(d))

NewMetadataFromDir ==
  /\ metadata = Error("none")
  /\ metadata' = CASE file = "missing"    -> Error("ErrMissingDockerfile")
                   [] file = "unreadable" -> Error("ErrInvalidDockerfile")
                   [] file = "readable"   -> NewMetadata(dockerfile)
  /\ UNCHANGED <<file, dockerfile>>

MetadataInit ==
  /\ file \in {"missing", "unreadable", "readable"}
  /\ dockerfile \in IF file = "readable" THEN Dockerfiles ELSE {<<>>}
  /\ metadata = Error("none")

-----------------------------------------------------------------------------
(* What the runtime does with the Dockerfile: defaults may use the         *)
(* variables before them.                                                  *)

Substituted(env, word) == IF word.var = "" THEN word.ref ELSE env[word.var]

RuntimeEnv(d) ==
  LET env[i \in 0..Len(d)] ==
        IF i = 0 THEN [v \in Args |-> Invalid]
        ELSE IF d[i].op = "ARG" /\ d[i].word # NoWord
          THEN [env[i - 1] EXCEPT ![d[i].key] = Substituted(env[i - 1], d[i].word)]
          ELSE env[i - 1]
  IN env[FirstFrom(d) - 1]

RuntimeBase(d) == Substituted(RuntimeEnv(d), BaseName(d))

Buildable(d) == Parses(d) /\ Froms(d) # {} /\ RuntimeBase(d).name # <<>>

Chained(d) == \E i \in 1..Len(d) : d[i].op = "ARG" /\ d[i].word.var # ""

-----------------------------------------------------------------------------
(* Properties. *)

MetadataTypeOK ==
  /\ file \in {"missing", "unreadable", "readable"}
  /\ dockerfile \in Dockerfiles \union {<<>>}
  /\ metadata.err = "" <=> metadata.BaseImage # <<>>
  /\ metadata.err = "" <=> metadata.BaseImageTag # ""

(* The image that is found is the one the runtime starts from, whatever    *)
(* ARGs and stages there are, and its tag as well unless there is a        *)
(* digest; and what the runtime can build is not refused, unless the       *)
(* default of an ARG uses another one (dockerfile.go:71-141).              *)
BaseIsTheRuntimes ==
  metadata # Error("none") /\ file = "readable" =>
    IF metadata.err = ""
      THEN LET base == RuntimeBase(dockerfile) IN
             /\ Buildable(dockerfile)
             /\ metadata.BaseImage = base.name
             /\ base.digest \/ metadata.BaseImageTag = IF base.tag = "" THEN "latest" ELSE base.tag
      ELSE ~Buildable(dockerfile) \/ Chained(dockerfile)

=============================================================================
