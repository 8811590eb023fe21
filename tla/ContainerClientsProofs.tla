----------------------- MODULE ContainerClientsProofs -----------------------
(***************************************************************************)
(* Theorems about the calls of the runtimes' APIs and the base image of a  *)
(* Dockerfile, for Dockerfiles of any length, any names and any job: the   *)
(* base image that is found is the one the runtime starts from, each call  *)
(* names an image that is there, and Cleanup removes all of them.          *)
(***************************************************************************)
EXTENDS ContainerClients, SequenceTheorems, WellFoundedInduction, TLAPS

-----------------------------------------------------------------------------
(* Numbers: the least and the greatest of a set, and induction, from the   *)
(* well-foundedness of their order.                                        *)

LEMMA LeastElement ==
  ASSUME NEW T, T \subseteq Nat, T # {}
  PROVE  \E x \in T : \A y \in T : x <= y
<1>1. \E x \in T : \A y \in T : ~(<<y, x>> \in OpToRel(<, Nat))
  BY NatLessThanWellFounded, WFMin, Zenon
<1>2. \A x, y \in Nat : y < x => <<y, x>> \in OpToRel(<, Nat)
  BY Zenon DEF OpToRel
<1>3. PICK x \in T : \A y \in T : ~(y < x)
  BY <1>1, <1>2, Zenon
<1>4. x \in Nat /\ \A y \in T : y \in Nat
  OBVIOUS
<1>5. \A y \in T : x <= y
  BY <1>3, <1>4
<1> QED
  BY <1>5

LEMMA Induction ==
  ASSUME NEW T, T \subseteq Nat, 0 \in T, \A n \in T : n + 1 \in T
  PROVE  T = Nat
<1> DEFINE B == Nat \ T
<1> SUFFICES ASSUME B # {} PROVE FALSE
  OBVIOUS
<1>1. PICK x \in B : \A y \in B : x <= y
  <2> B \subseteq Nat OBVIOUS
  <2> HIDE DEF B
  <2> QED BY LeastElement
<1>2. x \in Nat /\ x # 0 /\ x - 1 \in Nat /\ x - 1 \notin B
  BY <1>1
<1> QED BY <1>2

LEMMA GreatestElement ==
  ASSUME NEW n \in Nat, NEW T, T \subseteq 1..n, T # {}
  PROVE  \E x \in T : \A y \in T : x >= y
<1> DEFINE D == {k \in 0..n : n - k \in T}
<1>1. D \subseteq Nat /\ D # {}
  <2>1. PICK x \in T : TRUE
    OBVIOUS
  <2>2. x \in 1..n /\ n - x \in 0..n /\ n - (n - x) = x
    OBVIOUS
  <2>3. n - x \in D
    BY <2>2
  <2>4. 0..n \subseteq Nat /\ D \subseteq 0..n
    OBVIOUS
  <2> HIDE DEF D
  <2> QED
    BY <2>3, <2>4
<1>2. PICK d \in D : \A e \in D : d <= e
  <2> HIDE DEF D
  <2> QED
    BY <1>1, LeastElement
<1>3. ASSUME NEW y \in T PROVE n - d >= y
  <2>1. y \in 1..n /\ n - y \in 0..n /\ n - (n - y) = y
    BY <1>3
  <2>2. d <= n - y
    BY <1>2, <2>1
  <2> QED
    BY <1>2, <2>1, <2>2
<1>4. n - d \in T
  BY <1>2
<1> QED
  BY <1>3, <1>4

-----------------------------------------------------------------------------
(* The instructions before the first FROM are ARGs.                        *)

LEMMA FirstFromFacts ==
  ASSUME NEW d \in Seq(Instruction), Froms(d) # {}
  PROVE  /\ FirstFrom(d) \in 1..Len(d) /\ d[FirstFrom(d)].op = "FROM"
         /\ \A i \in 1 .. FirstFrom(d) - 1 : d[i].op # "FROM"
<1>1. Froms(d) \subseteq 1..Len(d) /\ Len(d) \in Nat
  BY DEF Froms
<1>2. \E x \in Froms(d) : \A y \in Froms(d) : x <= y
  <2>1. Froms(d) \subseteq Nat
    BY <1>1
  <2> QED
    BY <2>1, LeastElement
<1>3. FirstFrom(d) \in Froms(d) /\ \A j \in Froms(d) : FirstFrom(d) <= j
  BY <1>2, Zenon DEF FirstFrom
<1>4. ASSUME NEW i \in 1 .. FirstFrom(d) - 1 PROVE d[i].op # "FROM"
  <2>1. FirstFrom(d) \in 1..Len(d)
    BY <1>1, <1>3
  <2>2. i \in 1..Len(d) /\ ~(FirstFrom(d) <= i)
    BY <1>1, <2>1
  <2>3. i \notin Froms(d)
    BY <1>3, <2>2
  <2> QED
    BY <2>2, <2>3 DEF Froms
<1> QED
  BY <1>1, <1>3, <1>4 DEF Froms

LEMMA InstructionTypes ==
  ASSUME NEW d \in Seq(Instruction), NEW i \in 1..Len(d)
  PROVE  /\ d[i].op \in {"ARG", "FROM", "RUN", "bad"}
         /\ d[i].op = "ARG" => d[i].key \in Args
         /\ d[i].word \in Words \union {NoWord}
<1>1. d[i] \in Instruction
  BY ElementOfSeq
<1> QED
  BY <1>1 DEF Instruction

LEMMA ArgsFirst ==
  ASSUME NEW d \in Seq(Instruction), Parses(d), Froms(d) # {},
         NEW i \in 1 .. FirstFrom(d) - 1
  PROVE  i \in 1..Len(d) /\ d[i].op = "ARG" /\ d[i].key \in Args
         /\ d[i].word \in Words \union {NoWord}
<1>1. i \in 1..Len(d) /\ d[i].op # "FROM"
  BY FirstFromFacts
<1>2. \A j \in 1 .. i - 1 : j \notin Froms(d)
  <2>1. \A j \in 1 .. i - 1 : j \in 1 .. FirstFrom(d) - 1
    BY FirstFromFacts
  <2> QED
    BY <2>1, FirstFromFacts DEF Froms
<1>3. d[i].op # "RUN"
  <2>1. ASSUME NEW j \in Froms(d), j < i PROVE FALSE
    <3>1. j \in 1 .. i - 1
      BY <1>1, <2>1 DEF Froms
    <3> QED
      BY <1>2, <3>1
  <2> QED
    BY <1>1, <2>1 DEF Parses
<1>4. d[i].op # "bad"
  BY <1>1 DEF Parses
<1> QED
  BY <1>1, <1>3, <1>4, InstructionTypes

(* A word is a reference, a variable, or none. *)
LEMMA WordCases ==
  ASSUME NEW w \in Words \union {NoWord}
  PROVE  \/ w.var = "" /\ w.ref \in Refs \union {Invalid} /\ (w # NoWord => w.ref \in Refs)
         \/ w.var \in Args /\ w.var # "" /\ w # NoWord
<1>1. CASE w = NoWord
  BY <1>1 DEF NoWord, Literal
<1>2. ASSUME NEW r \in Refs, w = Literal(r)
      PROVE  w.var = "" /\ w.ref \in Refs
  BY <1>2 DEF Literal
<1>3. ASSUME NEW v \in Args, w = Variable(v)
      PROVE  w.var \in Args /\ w.var # "" /\ w # NoWord
  <2>1. w.var = v /\ NoWord.var = ""
    BY <1>3 DEF Variable, NoWord, Literal
  <2>2. v # ""
    BY DockerfilesAssumption
  <2> QED
    BY <2>1, <2>2
<1> QED
  BY <1>1, <1>2, <1>3 DEF Words

-----------------------------------------------------------------------------
(* The runtime's ARGs: the recursive function of RuntimeEnv exists.        *)

EnvVals == [Args -> Refs \union {Invalid}]

NoArgs == [v \in Args |-> Invalid]

(* What one instruction does to the variables.                             *)
EnvAfter(d, env, i) ==
  IF d[i].op = "ARG" /\ d[i].word # NoWord
    THEN [env EXCEPT ![d[i].key] = Substituted(env, d[i].word)]
    ELSE env

Envs(d, n, f) == f = [i \in 0..n |-> IF i = 0 THEN NoArgs ELSE EnvAfter(d, f[i - 1], i)]

LEMMA EnvsExist == ASSUME NEW d, NEW m \in Nat PROVE \E f : Envs(d, m, f)
<1> DEFINE T == {n \in Nat : \E f : Envs(d, n, f)}
<1>1. 0 \in T
  <2>1. \A i \in 0..0 : i = 0
    OBVIOUS
  <2>2. Envs(d, 0, [i \in 0..0 |-> NoArgs])
    BY <2>1 DEF Envs
  <2> QED
    BY <2>2
<1>2. ASSUME NEW n \in T PROVE n + 1 \in T
  <2>1. PICK f : Envs(d, n, f)
    BY <1>2
  <2> DEFINE g == [i \in 0..(n + 1) |-> IF i <= n THEN f[i] ELSE EnvAfter(d, f[i - 1], i)]
  <2>2. n \in Nat
    BY <1>2
  <2>3. ASSUME NEW i \in 0..(n + 1)
        PROVE  g[i] = IF i = 0 THEN NoArgs ELSE EnvAfter(d, g[i - 1], i)
    <3>1. CASE i <= n
      <4>1. i \in 0..n /\ (i # 0 => i - 1 \in 0..n /\ i - 1 <= n /\ i - 1 \in 0..(n + 1))
        BY <2>2, <3>1
      <4>2. f[i] = IF i = 0 THEN NoArgs ELSE EnvAfter(d, f[i - 1], i)
        BY <2>1, <4>1, Zenon DEF Envs
      <4> QED
        BY <3>1, <4>1, <4>2, Zenon
    <3>2. CASE ~(i <= n)
      <4>1. i # 0 /\ i - 1 \in 0..n /\ i - 1 <= n /\ i - 1 \in 0..(n + 1)
        BY <2>2, <3>2
      <4> QED
        BY <3>2, <4>1, Zenon
    <3> QED
      BY <3>1, <3>2
  <2>4. g = [i \in 0..(n + 1) |-> IF i = 0 THEN NoArgs ELSE EnvAfter(d, g[i - 1], i)]
    BY <2>3, Zenon
  <2>5. Envs(d, n + 1, g)
    BY <2>4, Zenon DEF Envs
  <2> QED
    BY <2>2, <2>5
<1>3. T = Nat
  <2> T \subseteq Nat
    OBVIOUS
  <2> HIDE DEF T
  <2> QED
    BY <1>1, <1>2, Induction
<1> QED
  BY <1>3

LEMMA RuntimeEnvIs ==
  ASSUME NEW d \in Seq(Instruction)
  PROVE  \E f : Envs(d, Len(d), f) /\ RuntimeEnv(d) = f[FirstFrom(d) - 1]
<1> DEFINE P(f) == f = [i \in 0..Len(d) |->
                          IF i = 0 THEN [v \in Args |-> Invalid]
                          ELSE IF d[i].op = "ARG" /\ d[i].word # NoWord
                            THEN [f[i - 1] EXCEPT ![d[i].key] = Substituted(f[i - 1], d[i].word)]
                            ELSE f[i - 1]]
           F == CHOOSE f : P(f)
<1>1. \A f : P(f) <=> Envs(d, Len(d), f)
  BY Zenon DEF Envs, EnvAfter, NoArgs
<1>2. Len(d) \in Nat
  OBVIOUS
<1>3. \E f : P(f)
  <2> HIDE DEF P
  <2> QED
    BY <1>1, <1>2, EnvsExist, Zenon
<1>4. P(F)
  <2> HIDE DEF P
  <2> QED
    BY <1>3, Zenon
<1>5. RuntimeEnv(d) = F[FirstFrom(d) - 1]
  BY Zenon DEF RuntimeEnv
<1> HIDE DEF P, F
<1> QED
  BY <1>1, <1>4, <1>5, Zenon
-----------------------------------------------------------------------------
(* What the variables are worth before the first FROM: a variable has the  *)
(* value of the last of its defaults, taken where it stands.               *)

Settings(d, n, v) == {i \in 1..n : d[i].key = v /\ d[i].word # NoWord}

LEMMA SubstitutedType ==
  ASSUME NEW env \in EnvVals, NEW w \in Words
  PROVE  Substituted(env, w) \in Refs \union {Invalid}
  BY WordCases DEF Substituted, EnvVals

EnvValue(d, f, n, v) ==
  /\ f[n] \in EnvVals
  /\ Settings(d, n, v) = {} => f[n][v] = Invalid
  /\ \A i \in Settings(d, n, v) :
       (\A j \in Settings(d, n, v) : i >= j) => f[n][v] = Substituted(f[i - 1], d[i].word)

LEMMA EnvValueStep ==
  ASSUME NEW d \in Seq(Instruction), NEW f, NEW n \in Nat, NEW v \in Args,
         d[n + 1].op = "ARG", d[n + 1].key \in Args,
         d[n + 1].word \in Words \union {NoWord},
         f[n + 1] = EnvAfter(d, f[n], n + 1), EnvValue(d, f, n, v)
  PROVE  EnvValue(d, f, n + 1, v)
<1> DEFINE k == d[n + 1].key
           w == d[n + 1].word
<1>1. \A i \in 1..(n + 1) : i \in 1..n \/ i = n + 1
  OBVIOUS
<1>2. \A i \in 1..n : i \in 1..(n + 1) /\ i <= n + 1 /\ ~(i >= n + 1)
  OBVIOUS
<1>3. CASE w # NoWord
  <2>1. f[n + 1] = [f[n] EXCEPT ![k] = Substituted(f[n], w)]
    BY <1>3 DEF EnvAfter
  <2>2. Substituted(f[n], w) \in Refs \union {Invalid} /\ f[n] \in EnvVals
    BY <1>3, SubstitutedType DEF EnvValue
  <2>3. f[n + 1] \in EnvVals
    BY <2>1, <2>2 DEF EnvVals
  <2>4. CASE k = v
    <3>1. f[n + 1][v] = Substituted(f[n], w)
      BY <2>1, <2>2, <2>4 DEF EnvVals
    <3>2. n + 1 \in Settings(d, n + 1, v) /\ Settings(d, n + 1, v) \subseteq 1..(n + 1)
      BY <1>3, <2>4 DEF Settings
    <3>3. ASSUME NEW i \in Settings(d, n + 1, v), \A j \in Settings(d, n + 1, v) : i >= j
          PROVE  f[n + 1][v] = Substituted(f[i - 1], d[i].word)
      <4>1. i = n + 1 /\ i - 1 = n
        BY <1>1, <1>2, <3>2, <3>3
      <4> QED
        BY <3>1, <4>1
    <3> QED
      BY <2>3, <3>2, <3>3 DEF EnvValue
  <2>5. CASE k # v
    <3>1. f[n + 1][v] = f[n][v]
      BY <2>1, <2>2, <2>5 DEF EnvVals
    <3>2. Settings(d, n + 1, v) = Settings(d, n, v)
      BY <1>1, <1>2, <2>5 DEF Settings
    <3> QED
      BY <2>3, <3>1, <3>2 DEF EnvValue
  <2> QED
    BY <2>4, <2>5
<1>4. CASE w = NoWord
  <2>1. f[n + 1] = f[n]
    BY <1>4 DEF EnvAfter
  <2>2. Settings(d, n + 1, v) = Settings(d, n, v)
    BY <1>1, <1>2, <1>4 DEF Settings
  <2> QED
    BY <2>1, <2>2 DEF EnvValue
<1> QED
  BY <1>3, <1>4

LEMMA EnvValues ==
  ASSUME NEW d \in Seq(Instruction), Parses(d), Froms(d) # {}, NEW v \in Args,
         NEW f, Envs(d, Len(d), f)
  PROVE  \A n \in 0 .. FirstFrom(d) - 1 : EnvValue(d, f, n, v)
<1> DEFINE T == {n \in Nat : n <= FirstFrom(d) - 1 => EnvValue(d, f, n, v)}
<1>1. FirstFrom(d) \in 1..Len(d) /\ Len(d) \in Nat
  BY FirstFromFacts
<1>2. 0 \in T
  <2>1. f[0] = NoArgs
    BY <1>1 DEF Envs
  <2>2. Settings(d, 0, v) = {}
    BY DEF Settings
  <2>3. NoArgs \in EnvVals /\ NoArgs[v] = Invalid
    BY DEF NoArgs, EnvVals
  <2>4. EnvValue(d, f, 0, v)
    BY <2>1, <2>2, <2>3 DEF EnvValue
  <2> QED
    BY <2>4
<1>3. ASSUME NEW n \in T PROVE n + 1 \in T
  <2>1. CASE n + 1 <= FirstFrom(d) - 1
    <3>1. /\ n \in Nat /\ n + 1 \in 1 .. FirstFrom(d) - 1 /\ n + 1 \in 0..Len(d)
          /\ n + 1 # 0 /\ (n + 1) - 1 = n /\ n <= FirstFrom(d) - 1
      BY <1>1, <1>3, <2>1
    <3>2. /\ d[n + 1].op = "ARG" /\ d[n + 1].key \in Args
          /\ d[n + 1].word \in Words \union {NoWord}
      BY <3>1, ArgsFirst
    <3>3. f[n + 1] = EnvAfter(d, f[n], n + 1)
      <4>1. f[n + 1] = IF n + 1 = 0 THEN NoArgs ELSE EnvAfter(d, f[(n + 1) - 1], n + 1)
        BY <3>1, Zenon DEF Envs
      <4> QED
        BY <3>1, <4>1
    <3>4. EnvValue(d, f, n, v)
      BY <1>3, <3>1
    <3> QED
      BY <3>1, <3>2, <3>3, <3>4, EnvValueStep
  <2>2. CASE ~(n + 1 <= FirstFrom(d) - 1)
    BY <1>3, <2>2
  <2> QED
    BY <2>1, <2>2
<1>4. T = Nat
  <2> T \subseteq Nat
    OBVIOUS
  <2> HIDE DEF T
  <2> QED
    BY <1>2, <1>3, Induction
<1>5. ASSUME NEW n \in 0 .. FirstFrom(d) - 1 PROVE EnvValue(d, f, n, v)
  <2>1. n \in Nat /\ n <= FirstFrom(d) - 1
    BY <1>1
  <2> QED
    BY <1>4, <2>1
<1> QED
  BY <1>5

(* The code's default of a variable and the runtime's: the same, unless it *)
(* uses another variable.                                                  *)
LEMMA DefaultAgrees ==
  ASSUME NEW d \in Seq(Instruction), Parses(d), Froms(d) # {}, NEW v \in Args
  PROVE  /\ Default(d, v) \in Words \union {NoWord}
         /\ Default(d, v).var = "" => Parse(Default(d, v)) = RuntimeEnv(d)[v]
         /\ Default(d, v).var # "" => Chained(d)
<1> DEFINE m == FirstFrom(d) - 1
           is == Settings(d, m, v)
<1>1. m \in Nat /\ FirstFrom(d) \in 1..Len(d)
  BY FirstFromFacts
<1>2. PICK f : Envs(d, Len(d), f) /\ RuntimeEnv(d) = f[m]
  BY RuntimeEnvIs
<1>3. EnvValue(d, f, m, v)
  <2>1. m \in 0..m
    BY <1>1
  <2> QED
    BY <1>2, <2>1, EnvValues
<1>4. Default(d, v) = IF is = {} THEN NoWord
                      ELSE d[CHOOSE i \in is : \A j \in is : i >= j].word
  BY Zenon DEF Default, Settings
<1>5. CASE is = {}
  <2>1. Default(d, v) = NoWord /\ NoWord.var = "" /\ Parse(NoWord) = Invalid
    BY <1>4, <1>5 DEF NoWord, Literal, Parse
  <2>2. f[m][v] = Invalid
    BY <1>3, <1>5 DEF EnvValue
  <2> QED
    BY <1>2, <2>1, <2>2
<1>6. CASE is # {}
  <2>1. is \subseteq 1..m
    BY DEF Settings
  <2>2. \E x \in is : \A y \in is : x >= y
    <3> HIDE DEF is, m
    <3> QED
      BY <1>1, <1>6, <2>1, GreatestElement
  <2>3. PICK i \in is : Default(d, v) = d[i].word /\ \A j \in is : i >= j
    <3> HIDE DEF is, m
    <3> QED
      BY <1>4, <1>6, <2>2, Zenon
  <2>4. /\ i \in 1..Len(d) /\ d[i].op = "ARG" /\ d[i].word \in Words \union {NoWord}
        /\ d[i].word # NoWord
    BY <2>1, ArgsFirst DEF Settings
  <2>5. RuntimeEnv(d)[v] = Substituted(f[i - 1], d[i].word)
    BY <1>2, <1>3, <2>3 DEF EnvValue
  <2>6. d[i].word.var # "" => Chained(d)
    BY <2>4, Zenon DEF Chained
  <2> QED
    BY <2>3, <2>4, <2>5, <2>6 DEF Substituted, Parse
<1> QED
  BY <1>5, <1>6

-----------------------------------------------------------------------------
(* NewMetadata.                                                            *)

(* The base image is the runtime's as far as the code can read its name.   *)
LEMMA ImageAgrees ==
  ASSUME NEW d \in Seq(Instruction), Parses(d), Froms(d) # {}, d # <<>>
  PROVE  /\ ImageAndTag(d) \in Refs \union {Invalid}
         /\ ImageAndTag(d) = RuntimeBase(d) \/ (ImageAndTag(d) = Invalid /\ Chained(d))
<1> DEFINE w == BaseName(d)
<1>1. FirstFrom(d) \in 1..Len(d) /\ d[FirstFrom(d)].op = "FROM"
  BY FirstFromFacts
<1>2. w \in Words \union {NoWord}
  BY <1>1, InstructionTypes DEF BaseName
<1>3. RuntimeBase(d) = IF w.var = "" THEN w.ref ELSE RuntimeEnv(d)[w.var]
  BY DEF RuntimeBase, Substituted
<1>4. CASE w.var = ""
  BY <1>2, <1>3, <1>4, WordCases DEF ImageAndTag, Parse
<1>5. CASE w.var # "" /\ d[1].op = "ARG"
  <2>1. w.var \in Args
    BY <1>2, <1>5, WordCases
  <2>2. ImageAndTag(d) = Parse(Default(d, w.var))
    BY <1>5 DEF ImageAndTag
  <2>3. /\ Default(d, w.var) \in Words \union {NoWord}
        /\ Default(d, w.var).var = "" => Parse(Default(d, w.var)) = RuntimeEnv(d)[w.var]
        /\ Default(d, w.var).var # "" => Chained(d)
    BY <2>1, DefaultAgrees
  <2>4. CASE Default(d, w.var).var = ""
    <3>1. ImageAndTag(d) = Default(d, w.var).ref
      BY <2>2, <2>4 DEF Parse
    <3>2. Default(d, w.var).ref \in Refs \union {Invalid}
      BY <2>3, <2>4, WordCases
    <3> QED
      BY <1>3, <1>5, <2>2, <2>3, <2>4, <3>1, <3>2
  <2>5. CASE Default(d, w.var).var # ""
    BY <2>2, <2>3, <2>5 DEF Parse
  <2> QED
    BY <2>4, <2>5
<1>6. CASE w.var # "" /\ d[1].op # "ARG"
  <2>1. FirstFrom(d) = 1
    <3>1. FirstFrom(d) # 1 => 1 \in 1 .. FirstFrom(d) - 1
      BY <1>1
    <3> QED
      BY <1>6, <3>1, ArgsFirst
  <2>2. w.var \in Args /\ ImageAndTag(d) = Invalid
    BY <1>2, <1>6, WordCases DEF ImageAndTag, Parse
  <2>3. PICK f : Envs(d, Len(d), f) /\ RuntimeEnv(d) = f[0]
    BY <2>1, RuntimeEnvIs
  <2>4. f[0] = NoArgs
    BY <1>1, <2>3 DEF Envs
  <2>5. RuntimeEnv(d)[w.var] = Invalid
    BY <2>2, <2>3, <2>4 DEF NoArgs
  <2> QED
    BY <1>3, <1>6, <2>2, <2>5
<1> QED
  BY <1>4, <1>5, <1>6

(* What NewMetadata may return, and when. *)
LEMMA MetadataCases ==
  ASSUME NEW d \in Seq(Instruction)
  PROVE  \/ /\ d # <<>> /\ Parses(d) /\ Froms(d) # {}
            /\ ImageAndTag(d).name # <<>> /\ NewMetadata(d) = Metadata(ImageAndTag(d))
         \/ /\ d # <<>> /\ Parses(d) /\ Froms(d) # {}
            /\ ImageAndTag(d).name = <<>> /\ NewMetadata(d) = Error("ErrInvalidBaseImage")
         \/ /\ ~(Parses(d) /\ Froms(d) # {})
            /\ NewMetadata(d) \in {Error("ErrEmptyDockerfile"),
                                   Error("ErrDockerfileMissingFROMorARG"), Error("panic")}
<1>1. CASE d = <<>>
  <2>1. Froms(d) = {}
    BY <1>1 DEF Froms
  <2> QED
    BY <1>1, <2>1 DEF NewMetadata
<1>2. CASE d # <<>> /\ d[1].op \notin {"ARG", "FROM"}
  <2>1. 1 \in 1..Len(d)
    BY <1>2
  <2>2. d[1].op \in {"RUN", "bad"}
    BY <1>2, <2>1, InstructionTypes
  <2>3. \A j \in Froms(d) : ~(j < 1)
    BY DEF Froms
  <2>4. ~Parses(d)
    BY <2>1, <2>2, <2>3 DEF Parses
  <2> QED
    BY <1>2, <2>4 DEF NewMetadata
<1>3. CASE d # <<>> /\ d[1].op \in {"ARG", "FROM"} /\ (~Parses(d) \/ Froms(d) = {})
  BY <1>3 DEF NewMetadata
<1>4. CASE d # <<>> /\ d[1].op \in {"ARG", "FROM"} /\ Parses(d) /\ Froms(d) # {}
  BY <1>4 DEF NewMetadata
<1> QED
  BY <1>1, <1>2, <1>3, <1>4

(* The two agree: a base image is found exactly where the runtime finds    *)
(* one, unless the default of an ARG uses another, and it is the same.     *)
LEMMA MetadataAgrees ==
  ASSUME NEW d \in Dockerfiles
  PROVE  /\ NewMetadata(d).err = "" =>
              /\ Buildable(d)
              /\ NewMetadata(d).BaseImage = RuntimeBase(d).name
              /\ NewMetadata(d).BaseImageTag = BaseTag(RuntimeBase(d))
              /\ NewMetadata(d).BaseImage # <<>> /\ NewMetadata(d).BaseImageTag # ""
         /\ NewMetadata(d).err # "" =>
              /\ ~Buildable(d) \/ Chained(d)
              /\ NewMetadata(d).BaseImage = <<>> /\ NewMetadata(d).BaseImageTag = ""
<1>1. d \in Seq(Instruction)
  BY DockerfilesAssumption
<1>2. /\ \A ref : /\ Metadata(ref).err = "" /\ Metadata(ref).BaseImage = ref.name
                  /\ Metadata(ref).BaseImageTag = BaseTag(ref)
      /\ \A ref : BaseTag(ref) # ""
      /\ \A e : Error(e).err = e /\ Error(e).BaseImage = <<>> /\ Error(e).BaseImageTag = ""
  BY DEF Metadata, Error, BaseTag
<1>3. CASE /\ d # <<>> /\ Parses(d) /\ Froms(d) # {}
           /\ ImageAndTag(d).name # <<>> /\ NewMetadata(d) = Metadata(ImageAndTag(d))
  <2>1. Invalid.name = <<>>
    BY DEF Invalid
  <2>2. ImageAndTag(d) = RuntimeBase(d)
    BY <1>1, <1>3, <2>1, ImageAgrees, Zenon
  <2>3. Buildable(d)
    BY <1>3, <2>2, Zenon DEF Buildable
  <2> QED
    BY <1>2, <1>3, <2>2, <2>3, Zenon
<1>4. CASE /\ d # <<>> /\ Parses(d) /\ Froms(d) # {}
           /\ ImageAndTag(d).name = <<>> /\ NewMetadata(d) = Error("ErrInvalidBaseImage")
  <2>1. ~Buildable(d) \/ Chained(d)
    BY <1>1, <1>4, ImageAgrees, Zenon DEF Buildable
  <2>2. "ErrInvalidBaseImage" # ""
    OBVIOUS
  <2> QED
    BY <1>2, <1>4, <2>1, <2>2, Zenon
<1>5. CASE /\ ~(Parses(d) /\ Froms(d) # {})
           /\ NewMetadata(d) \in {Error("ErrEmptyDockerfile"),
                                  Error("ErrDockerfileMissingFROMorARG"), Error("panic")}
  <2>1. ~Buildable(d)
    BY <1>5, Zenon DEF Buildable
  <2>2. /\ NewMetadata(d).err # "" /\ NewMetadata(d).BaseImage = <<>>
        /\ NewMetadata(d).BaseImageTag = ""
    BY <1>2, <1>5
  <2> QED
    BY <2>1, <2>2
<1> QED
  BY <1>1, <1>3, <1>4, <1>5, MetadataCases

-----------------------------------------------------------------------------
(* Sequences of calls. *)

Made(s, api, image) == \E j \in DOMAIN s : s[j].api = api /\ s[j].image = image

MadeBefore(s, i, api, image) == \E j \in 1 .. i - 1 : s[j].api = api /\ s[j].image = image

(* A tag of an image that had been built. *)
TagMade(s, image) ==
  \E j \in DOMAIN s :
    s[j].api = "tag" /\ s[j].image = image /\ MadeBefore(s, j, "build", s[j].from)

(* What UsedIsThere says of one call, and of the next one.                 *)
UsedBy(s, i, c, base) ==
  /\ c.api \in {"inspect", "remove"} =>
       \/ MadeBefore(s, i, "pull", c.image) \/ MadeBefore(s, i, "build", c.image)
       \/ c.image = BuiltID /\ MadeBefore(s, i, "inspect", BuiltImage)
       \/ c.api = "remove" /\ base[1] = Scratch /\ c.image = base
  /\ \A image \in c.cache : MadeBefore(s, i, "pull", image)
  /\ c.api = "push" =>
       \E j \in 1 .. i - 1 : /\ s[j].api = "tag" /\ s[j].image = c.image
                             /\ MadeBefore(s, j, "build", s[j].from)

UsedAt(s, i, base) == UsedBy(s, i, s[i], base)

MayCall(s, c, base) ==
  /\ c.api \in {"inspect", "remove"} =>
       \/ Made(s, "pull", c.image) \/ Made(s, "build", c.image)
       \/ c.image = BuiltID /\ Made(s, "inspect", BuiltImage)
       \/ c.api = "remove" /\ base[1] = Scratch /\ c.image = base
  /\ \A image \in c.cache : Made(s, "pull", image)
  /\ c.api = "push" => TagMade(s, c.image)

LEMMA AppendFacts ==
  ASSUME NEW S, NEW s \in Seq(S), NEW c
  PROVE  /\ DOMAIN s = 1..Len(s) /\ Len(s) \in Nat
         /\ DOMAIN Append(s, c) = 1..(Len(s) + 1)
         /\ \A i \in 1..Len(s) : Append(s, c)[i] = s[i]
         /\ Append(s, c)[Len(s) + 1] = c
         /\ Append(s, c) # <<>>
         /\ \A i \in 1..(Len(s) + 1) : i \in 1..Len(s) \/ i = Len(s) + 1
<1> DEFINE U == S \union {c}
<1>1. s \in Seq(U) /\ c \in U
  OBVIOUS
<1> HIDE DEF U
<1>2. /\ Append(s, c) \in Seq(U) /\ Append(s, c) # <<>>
      /\ Len(Append(s, c)) = Len(s) + 1
      /\ \A i \in 1..Len(s) : Append(s, c)[i] = s[i]
      /\ Append(s, c)[Len(s) + 1] = c
  BY <1>1, AppendProperties
<1>3. DOMAIN s = 1..Len(s) /\ Len(s) \in Nat
  BY <1>1
<1>4. DOMAIN Append(s, c) = 1..(Len(s) + 1)
  <2>1. DOMAIN Append(s, c) = 1..Len(Append(s, c))
    BY <1>2, LenProperties
  <2> QED
    BY <1>2, <2>1
<1>5. \A i \in 1..(Len(s) + 1) : i \in 1..Len(s) \/ i = Len(s) + 1
  BY <1>3
<1> QED
  BY <1>2, <1>3, <1>4, <1>5, Zenon

LEMMA MadeAppend ==
  ASSUME NEW S, NEW s \in Seq(S), NEW c
  PROVE  \A api, image :
           Made(Append(s, c), api, image) <=>
             Made(s, api, image) \/ (c.api = api /\ c.image = image)
<1> DEFINE t == Append(s, c)
<1>1. /\ DOMAIN s = 1..Len(s) /\ Len(s) \in Nat /\ DOMAIN t = 1..(Len(s) + 1)
      /\ \A i \in 1..Len(s) : t[i] = s[i]
      /\ t[Len(s) + 1] = c
      /\ \A i \in 1..(Len(s) + 1) : i \in 1..Len(s) \/ i = Len(s) + 1
  BY AppendFacts
<1>2. Len(s) + 1 \in 1..(Len(s) + 1) /\ \A i \in 1..Len(s) : i \in 1..(Len(s) + 1)
  BY <1>1
<1> HIDE DEF t
<1>3. \A api, image :
        Made(t, api, image) <=> Made(s, api, image) \/ (c.api = api /\ c.image = image)
  BY <1>1, <1>2, Zenon DEF Made
<1> QED
  BY <1>3 DEF t

LEMMA BeforeAppend ==
  ASSUME NEW S, NEW s \in Seq(S), NEW c
  PROVE  /\ \A i \in 1..Len(s) : \A api, image :
              MadeBefore(Append(s, c), i, api, image) <=> MadeBefore(s, i, api, image)
         /\ \A api, image : MadeBefore(Append(s, c), Len(s) + 1, api, image) <=>
              Made(s, api, image)
<1> DEFINE t == Append(s, c)
<1>1. /\ DOMAIN s = 1..Len(s) /\ Len(s) \in Nat
      /\ \A i \in 1..Len(s) : t[i] = s[i]
  BY AppendFacts
<1>2. \A i \in 1..Len(s) : \A j \in 1 .. i - 1 : j \in 1..Len(s)
  BY <1>1
<1>3. 1 .. (Len(s) + 1) - 1 = DOMAIN s
  BY <1>1
<1> HIDE DEF t
<1>4. \A i \in 1..Len(s) : \A api, image :
        MadeBefore(t, i, api, image) <=> MadeBefore(s, i, api, image)
  BY <1>1, <1>2, Zenon DEF MadeBefore
<1>5. \A api, image : MadeBefore(t, Len(s) + 1, api, image) <=> Made(s, api, image)
  BY <1>1, <1>3, Zenon DEF MadeBefore, Made
<1> QED
  BY <1>4, <1>5 DEF t

(* A tag stays, and one that is made of a built image is one.              *)
LEMMA TagAppend ==
  ASSUME NEW S, NEW s \in Seq(S), NEW c
  PROVE  /\ \A image : TagMade(s, image) => TagMade(Append(s, c), image)
         /\ c.api = "tag" /\ Made(s, "build", c.from) => TagMade(Append(s, c), c.image)
<1> DEFINE t == Append(s, c)
<1>1. /\ DOMAIN s = 1..Len(s) /\ Len(s) \in Nat /\ DOMAIN t = 1..(Len(s) + 1)
      /\ \A i \in 1..Len(s) : t[i] = s[i]
      /\ t[Len(s) + 1] = c
  BY AppendFacts
<1>2. Len(s) + 1 \in DOMAIN t /\ \A i \in DOMAIN s : i \in DOMAIN t /\ t[i] = s[i]
  BY <1>1
<1>3. /\ \A i \in DOMAIN s : \A api, image :
           MadeBefore(t, i, api, image) <=> MadeBefore(s, i, api, image)
      /\ \A api, image : MadeBefore(t, Len(s) + 1, api, image) <=> Made(s, api, image)
  BY <1>1, BeforeAppend
<1> HIDE DEF t
<1>4. \A image : TagMade(s, image) => TagMade(t, image)
  BY <1>2, <1>3, Zenon DEF TagMade
<1>5. c.api = "tag" /\ Made(s, "build", c.from) => TagMade(t, c.image)
  BY <1>1, <1>2, <1>3, Zenon DEF TagMade
<1> QED
  BY <1>4, <1>5 DEF t

LEMMA UsedAppend ==
  ASSUME NEW S, NEW s \in Seq(S), NEW c, NEW base,
         \A i \in DOMAIN s : UsedAt(s, i, base), MayCall(s, c, base)
  PROVE  \A i \in DOMAIN Append(s, c) : UsedAt(Append(s, c), i, base)
<1> DEFINE t == Append(s, c)
           n == Len(s) + 1
<1>1. /\ DOMAIN s = 1..Len(s) /\ Len(s) \in Nat /\ DOMAIN t = 1..n
      /\ \A i \in 1..Len(s) : t[i] = s[i]
      /\ t[n] = c
      /\ \A i \in DOMAIN t : i \in DOMAIN s \/ i = n
  BY AppendFacts
<1>2. /\ \A i \in DOMAIN s : \A api, image :
           MadeBefore(t, i, api, image) <=> MadeBefore(s, i, api, image)
      /\ \A api, image : MadeBefore(t, n, api, image) <=> Made(s, api, image)
  BY <1>1, BeforeAppend
<1>3. /\ \A i \in DOMAIN s : t[i] = s[i] /\ \A j \in 1 .. i - 1 : j \in DOMAIN s
      /\ 1 .. n - 1 = DOMAIN s
  BY <1>1
<1> HIDE DEF t, n
<1>4. ASSUME NEW i \in DOMAIN s PROVE UsedAt(t, i, base)
  <2>1. PICK x : UsedBy(s, i, x, base) /\ s[i] = x /\ t[i] = x
    BY <1>3 DEF UsedAt
  <2>2. \A api, image : MadeBefore(t, i, api, image) <=> MadeBefore(s, i, api, image)
    BY <1>2
  <2>3. ASSUME x.api = "push"
        PROVE  \E j \in 1 .. i - 1 : /\ t[j].api = "tag" /\ t[j].image = x.image
                                     /\ MadeBefore(t, j, "build", t[j].from)
    <3>1. PICK j \in 1 .. i - 1 : /\ s[j].api = "tag" /\ s[j].image = x.image
                                  /\ MadeBefore(s, j, "build", s[j].from)
      BY <2>1, <2>3, Zenon DEF UsedBy
    <3>2. j \in DOMAIN s /\ t[j] = s[j]
      BY <1>3, Zenon
    <3>3. MadeBefore(t, j, "build", t[j].from)
      BY <1>2, <3>1, <3>2, Zenon
    <3> QED
      BY <3>1, <3>2, <3>3, Zenon
  <2>4. x.api \in {"inspect", "remove"} =>
          \/ MadeBefore(t, i, "pull", x.image) \/ MadeBefore(t, i, "build", x.image)
          \/ x.image = BuiltID /\ MadeBefore(t, i, "inspect", BuiltImage)
          \/ x.api = "remove" /\ base[1] = Scratch /\ x.image = base
    BY <2>1, <2>2, Zenon DEF UsedBy
  <2>5. \A image \in x.cache : MadeBefore(t, i, "pull", image)
    BY <2>1, <2>2, Zenon DEF UsedBy
  <2> QED
    <3>1. UsedBy(t, i, x, base)
      BY <2>3, <2>4, <2>5, Zenon DEF UsedBy
    <3> QED
      BY <2>1, <3>1, Zenon DEF UsedAt
<1>5. UsedAt(t, n, base)
  <2>1. t[n] = c /\ \A api, image : MadeBefore(t, n, api, image) <=> Made(s, api, image)
    BY <1>1, <1>2
  <2>2. ASSUME c.api = "push"
        PROVE  \E j \in 1 .. n - 1 : /\ t[j].api = "tag" /\ t[j].image = c.image
                                     /\ MadeBefore(t, j, "build", t[j].from)
    <3>1. PICK j \in DOMAIN s : /\ s[j].api = "tag" /\ s[j].image = c.image
                               /\ MadeBefore(s, j, "build", s[j].from)
      BY <2>2, Zenon DEF MayCall, TagMade
    <3>2. j \in 1 .. n - 1 /\ t[j] = s[j]
      BY <1>3, Zenon
    <3>3. MadeBefore(t, j, "build", t[j].from)
      BY <1>2, <3>1, <3>2, Zenon
    <3> QED
      BY <3>1, <3>2, <3>3, Zenon
  <2>3. c.api \in {"inspect", "remove"} =>
          \/ MadeBefore(t, n, "pull", c.image) \/ MadeBefore(t, n, "build", c.image)
          \/ c.image = BuiltID /\ MadeBefore(t, n, "inspect", BuiltImage)
          \/ c.api = "remove" /\ base[1] = Scratch /\ c.image = base
    BY <2>1, Zenon DEF MayCall
  <2>4. \A image \in c.cache : MadeBefore(t, n, "pull", image)
    BY <2>1, Zenon DEF MayCall
  <2> QED
    <3>1. UsedBy(t, n, c, base)
      BY <2>2, <2>3, <2>4, Zenon DEF UsedBy
    <3> QED
      BY <2>1, <3>1, Zenon DEF UsedAt
<1> QED
  BY <1>1, <1>4, <1>5, Zenon DEF t

-----------------------------------------------------------------------------
(* The calls of a build: each finds its image, pulls and builds are of the *)
(* images that Cleanup is told of, and the names are the build's own.      *)

Allowed(c, base, cached, full) ==
  /\ c.api = "pull" => c.image \in {base, cached}
  /\ c.api = "build" => c.image = BuiltImage
  /\ c.api # "prune" => c.image[1] \in {base[1], full, <<BuildID>>, BuiltID[1]}

IsASequence(s) == \E S : s \in Seq(S)

History(s, base, cached, full) ==
  /\ IsASequence(s)
  /\ \A i \in DOMAIN s : UsedAt(s, i, base) /\ Allowed(s[i], base, cached, full)

LEMMA HistoryAppend ==
  ASSUME NEW s, NEW c, NEW base, NEW cached, NEW full,
         History(s, base, cached, full), MayCall(s, c, base), Allowed(c, base, cached, full)
  PROVE  /\ History(Append(s, c), base, cached, full)
         /\ Append(s, c) # <<>>
         /\ \A api, image :
              Made(Append(s, c), api, image) <=>
                Made(s, api, image) \/ (c.api = api /\ c.image = image)
         /\ \A image : TagMade(s, image) => TagMade(Append(s, c), image)
         /\ c.api = "tag" /\ Made(s, "build", c.from) => TagMade(Append(s, c), c.image)
<1>1. PICK S : s \in Seq(S)
  BY Zenon DEF History, IsASequence
<1>2. \A i \in DOMAIN s : UsedAt(s, i, base)
  BY Zenon DEF History
<1>3. \A i \in DOMAIN Append(s, c) : UsedAt(Append(s, c), i, base)
  BY <1>1, <1>2, UsedAppend
<1>4. \A i \in DOMAIN Append(s, c) : Allowed(Append(s, c)[i], base, cached, full)
  <2>1. \A i \in DOMAIN s : Allowed(s[i], base, cached, full)
    BY Zenon DEF History
  <2>2. \A i \in DOMAIN Append(s, c) :
          (i \in DOMAIN s /\ Append(s, c)[i] = s[i]) \/ Append(s, c)[i] = c
    BY <1>1, AppendFacts
  <2> QED
    BY <2>1, <2>2, Zenon
<1>5. IsASequence(Append(s, c))
  <2>1. s \in Seq(S \union {c}) /\ c \in S \union {c}
    BY <1>1
  <2>2. Append(s, c) \in Seq(S \union {c})
    BY <2>1, AppendProperties
  <2> QED
    BY <2>2, Zenon DEF IsASequence
<1>6. Append(s, c) # <<>>
  BY <1>1, AppendFacts
<1>7. \A api, image :
        Made(Append(s, c), api, image) <=> Made(s, api, image) \/ (c.api = api /\ c.image = image)
  BY <1>1, MadeAppend
<1>8. /\ \A image : TagMade(s, image) => TagMade(Append(s, c), image)
      /\ c.api = "tag" /\ Made(s, "build", c.from) => TagMade(Append(s, c), c.image)
  BY <1>1, TagAppend
<1> QED
  BY <1>3, <1>4, <1>5, <1>6, <1>7, <1>8, Zenon DEF History

-----------------------------------------------------------------------------
(* The inductive invariant.                                                *)

(* What NewMetadataFromDir returns. *)
Read == CASE file = "missing"    -> Error("ErrMissingDockerfile")
          [] file = "unreadable" -> Error("ErrInvalidDockerfile")
          [] file = "readable"   -> NewMetadata(dockerfile)

(* Without metadata the build is over, and has called nothing.             *)
MetadataInv ==
  /\ file \in {"missing", "unreadable", "readable"}
  /\ dockerfile \in IF file = "readable" THEN Dockerfiles ELSE {<<>>}
  /\ IF pc = "unpack" THEN metadata = Error("none") ELSE metadata = Read
  /\ pc \notin {"unpack", "end"} => metadata.err = ""
  /\ pc = "end" => metadata.err = "" \/ calls = <<>>

Steps == {"unpack", "pull", "inspectBase", "prime", "build", "tag", "push", "rmCached",
          "rmBase", "rmBuilt", "prune", "end"}

JobInv ==
  /\ runtime \in {"docker", "podman"}
  /\ job \in Jobs
  /\ pc \in Steps
  /\ cacheTag \in {None, job.cachedTag}
  /\ tagIdx \in 1 .. Len(job.tagNames) + 1
  /\ pc = "push" => tagIdx \in DOMAIN job.tagNames

CallsInv == History(calls, BaseImage, Image(FullRepoName, job.cachedTag), FullRepoName)

(* The call that each step relies on was made.                             *)
MadeInv ==
  /\ pc \in {"unpack", "pull"} => calls = <<>> /\ cacheTag = None
  /\ pc \notin {"unpack", "pull", "end"} /\ metadata.BaseImage # Scratch =>
       Made(calls, "pull", BaseImage)
  /\ pc = "inspectBase" => metadata.BaseImage # Scratch
  /\ cacheTag # None => Made(calls, "pull", Image(FullRepoName, cacheTag))
  /\ pc \in {"tag", "push", "rmCached", "rmBase", "rmBuilt"} => Made(calls, "build", BuiltImage)
  /\ pc \in {"rmCached", "rmBase", "rmBuilt"} => Made(calls, "inspect", BuiltImage)
  /\ pc = "push" => TagMade(calls, Image(FullRepoName, job.tagNames[tagIdx]))

(* Cleanup forgets none of its removals.                                   *)
CleanedInv ==
  metadata.err = "" =>
    /\ pc \in {"rmBase", "rmBuilt", "prune", "end"} /\ cacheTag # None =>
         Made(calls, "remove", Image(FullRepoName, cacheTag))
    /\ pc \in {"rmBuilt", "prune", "end"} => Made(calls, "remove", BaseImage)
    /\ pc \in {"prune", "end"} => Made(calls, "remove", BuiltID)

IInv == MetadataInv /\ JobInv /\ CallsInv /\ MadeInv /\ CleanedInv

-----------------------------------------------------------------------------

LEMMA InitEstablishes == Init => IInv
<1> SUFFICES ASSUME Init PROVE IInv
  OBVIOUS
<1>1. /\ pc = "unpack" /\ calls = <<>> /\ cacheTag = None /\ tagIdx = 1 /\ job \in Jobs
      /\ runtime \in {"docker", "podman"} /\ metadata = Error("none")
      /\ MetadataInit
  BY DEF Init, MetadataInit
<1>2. MetadataInv
  BY <1>1 DEF MetadataInv, MetadataInit
<1>3. JobInv
  <2>1. job.tagNames \in Seq(STRING)
    BY <1>1, JobsAssumption
  <2>2. 1 \in 1 .. Len(job.tagNames) + 1
    BY <2>1
  <2> QED
    BY <1>1, <2>2 DEF JobInv, Steps
<1>4. CallsInv
  <2>1. DOMAIN calls = {} /\ calls \in Seq({})
    BY <1>1
  <2> QED
    BY <2>1, Zenon DEF CallsInv, History, IsASequence
<1>5. MadeInv
  BY <1>1 DEF MadeInv
<1>6. CleanedInv
  BY <1>1 DEF CleanedInv
<1> QED
  BY <1>2, <1>3, <1>4, <1>5, <1>6 DEF IInv

(* A call that may be made and is allowed keeps the history, and adds to   *)
(* what was made.                                                          *)
LEMMA Called ==
  ASSUME CallsInv, NEW c, calls' = Append(calls, c), metadata' = metadata, job' = job,
         MayCall(calls, c, BaseImage),
         Allowed(c, BaseImage, Image(FullRepoName, job.cachedTag), FullRepoName)
  PROVE  /\ CallsInv' /\ calls' # <<>>
         /\ \A api, image :
              Made(calls', api, image) <=>
                Made(calls, api, image) \/ (c.api = api /\ c.image = image)
         /\ \A image : TagMade(calls, image) => TagMade(calls', image)
         /\ c.api = "tag" /\ Made(calls, "build", c.from) => TagMade(calls', c.image)
<1>1. BaseImage' = BaseImage /\ FullRepoName' = FullRepoName
  BY DEF BaseImage, FullRepoName
<1>2. History(calls', BaseImage, Image(FullRepoName, job.cachedTag), FullRepoName)
  BY HistoryAppend, Zenon DEF CallsInv
<1>3. CallsInv'
  BY <1>1, <1>2, Zenon DEF CallsInv
<1>4. /\ calls' # <<>>
      /\ \A api, image :
           Made(calls', api, image) <=> Made(calls, api, image) \/ (c.api = api /\ c.image = image)
      /\ \A image : TagMade(calls, image) => TagMade(calls', image)
      /\ c.api = "tag" /\ Made(calls, "build", c.from) => TagMade(calls', c.image)
  BY HistoryAppend, Zenon DEF CallsInv
<1> QED
  BY <1>3, <1>4

(* A step that neither reads the Dockerfile nor takes a job anew.          *)
LEMMA Steady ==
  ASSUME MetadataInv, pc \notin {"unpack", "end"}, pc' # "unpack", UNCHANGED metadataVars
  PROVE  MetadataInv'
<1>1. file' = file /\ dockerfile' = dockerfile /\ metadata' = metadata
  BY DEF metadataVars
<1>2. Read' = Read
  BY <1>1, Zenon DEF Read
<1> QED
  BY <1>1, <1>2 DEF MetadataInv

LEMMA StutterPreserves == IInv /\ UNCHANGED vars => IInv'
<1> SUFFICES ASSUME IInv, UNCHANGED vars PROVE IInv'
  OBVIOUS
<1>1. /\ file' = file /\ dockerfile' = dockerfile /\ metadata' = metadata /\ runtime' = runtime
      /\ job' = job /\ pc' = pc /\ cacheTag' = cacheTag /\ tagIdx' = tagIdx /\ calls' = calls
  BY DEF vars, metadataVars
<1>2. BaseImage' = BaseImage /\ FullRepoName' = FullRepoName /\ Read' = Read
  BY <1>1, Zenon DEF BaseImage, FullRepoName, Read
<1>3. MetadataInv'
  BY <1>1, <1>2, Zenon DEF IInv, MetadataInv
<1>4. JobInv'
  BY <1>1 DEF IInv, JobInv
<1>5. CallsInv' /\ MadeInv' /\ CleanedInv'
  BY <1>1, <1>2, Zenon DEF IInv, CallsInv, MadeInv, CleanedInv
<1> QED
  BY <1>3, <1>4, <1>5 DEF IInv

LEMMA UnpackPreserves == IInv /\ Unpack => IInv'
<1> SUFFICES ASSUME IInv, Unpack PROVE IInv'
  OBVIOUS
<1>1. /\ file' = file /\ dockerfile' = dockerfile /\ runtime' = runtime /\ job' = job
      /\ cacheTag' = cacheTag /\ tagIdx' = tagIdx /\ calls' = calls
      /\ pc = "unpack" /\ calls = <<>> /\ cacheTag = None
      /\ metadata' = Read
  BY DEF Unpack, NewMetadataFromDir, Read, IInv, MadeInv
<1>2. pc' = IF metadata'.err = "" THEN "pull" ELSE "end"
  BY DEF Unpack
<1>3. Read' = Read
  BY <1>1, Zenon DEF Read
<1>4. MetadataInv'
  <2>1. pc' # "unpack" /\ (pc' \notin {"unpack", "end"} => metadata'.err = "")
        /\ calls' = <<>>
    BY <1>1, <1>2
  <2> QED
    BY <1>1, <1>3, <2>1, Zenon DEF IInv, MetadataInv
<1>5. JobInv'
  BY <1>1, <1>2 DEF IInv, JobInv, Steps
<1>6. CallsInv'
  <2>1. DOMAIN <<>> = {} /\ <<>> \in Seq({})
    OBVIOUS
  <2>2. calls' = <<>>
    BY <1>1
  <2> QED
    BY <2>1, <2>2, Zenon DEF CallsInv, History, IsASequence
<1>7. MadeInv'
  BY <1>1, <1>2 DEF MadeInv
<1>8. CleanedInv'
  BY <1>1, <1>2 DEF CleanedInv
<1> QED
  BY <1>4, <1>5, <1>6, <1>7, <1>8 DEF IInv

LEMMA JobKept ==
  ASSUME JobInv, runtime' = runtime, job' = job, tagIdx' = tagIdx, pc' \in Steps, pc' # "push",
         cacheTag' \in {None, job.cachedTag}
  PROVE  JobInv'
BY DEF JobInv

LEMMA CallFields ==
  \A api, image, from, cache :
    /\ Call(api, image, from, cache).api = api /\ Call(api, image, from, cache).image = image
    /\ Call(api, image, from, cache).from = from /\ Call(api, image, from, cache).cache = cache
BY DEF Call

(* The names of a call's image. *)
LEMMA Names ==
  /\ BaseImage[1] = metadata.BaseImage
  /\ \A tag : Image(FullRepoName, tag)[1] = FullRepoName
  /\ BuiltImage[1] = <<BuildID>>
BY DEF BaseImage, Image, BuiltImage

(* Nothing changes but pc. *)
LEMMA Skipped ==
  ASSUME UNCHANGED <<metadataVars, runtime, job, cacheTag, tagIdx, calls>>
  PROVE  /\ file' = file /\ dockerfile' = dockerfile /\ metadata' = metadata /\ runtime' = runtime
         /\ job' = job /\ cacheTag' = cacheTag /\ tagIdx' = tagIdx /\ calls' = calls
         /\ BaseImage' = BaseImage /\ FullRepoName' = FullRepoName
         /\ CallsInv => CallsInv'
<1>1. /\ file' = file /\ dockerfile' = dockerfile /\ metadata' = metadata /\ runtime' = runtime
      /\ job' = job /\ cacheTag' = cacheTag /\ tagIdx' = tagIdx /\ calls' = calls
  BY DEF metadataVars
<1>2. BaseImage' = BaseImage /\ FullRepoName' = FullRepoName
  BY <1>1 DEF BaseImage, FullRepoName
<1>3. CallsInv => CallsInv'
  BY <1>1, <1>2, Zenon DEF CallsInv
<1> QED
  BY <1>1, <1>2, <1>3

LEMMA PullBasePreserves == IInv /\ PullBase => IInv'
<1> SUFFICES ASSUME IInv, PullBase PROVE IInv'
  OBVIOUS
<1>1. pc = "pull" /\ calls = <<>> /\ cacheTag = None /\ cacheTag' = cacheTag /\ tagIdx' = tagIdx
  BY DEF PullBase, IInv, MadeInv
<1>2. CASE metadata.BaseImage = Scratch
  <2>1. pc' = "prime" /\ UNCHANGED <<metadataVars, runtime, job, cacheTag, tagIdx, calls>>
    BY <1>1, <1>2 DEF PullBase, Skips
  <2>2. metadata' = metadata /\ runtime' = runtime /\ job' = job /\ calls' = calls /\ CallsInv'
    BY <2>1, Skipped DEF IInv
  <2>3. MetadataInv'
    BY <1>1, <2>1, Steady DEF IInv
  <2>4. JobInv'
    BY <1>1, <2>1, <2>2, JobKept DEF IInv, Steps
  <2>5. MadeInv'
    BY <1>1, <1>2, <2>1, <2>2 DEF MadeInv
  <2>6. CleanedInv'
    BY <2>1 DEF CleanedInv
  <2> QED
    BY <2>2, <2>3, <2>4, <2>5, <2>6 DEF IInv
<1>3. CASE metadata.BaseImage # Scratch
  <2>1. PICK c : /\ calls' = Append(calls, c) /\ pc' = "inspectBase"
                 /\ UNCHANGED <<metadataVars, runtime, job>>
                 /\ c.api = "pull" /\ c.image = BaseImage /\ c.cache = {}
    BY <1>1, <1>3, CallFields DEF PullBase, Calls, PullImage, BaseImage
  <2>2. metadata' = metadata /\ runtime' = runtime /\ job' = job
    BY <2>1 DEF metadataVars
  <2>3. MayCall(calls, c, BaseImage)
    BY <2>1 DEF MayCall
  <2>4. Allowed(c, BaseImage, Image(FullRepoName, job.cachedTag), FullRepoName)
    BY <2>1 DEF Allowed
  <2>5. CallsInv' /\ Made(calls', "pull", BaseImage)
    BY <2>1, <2>2, <2>3, <2>4, Called, Zenon DEF IInv
  <2>6. MetadataInv'
    BY <1>1, <2>1, Steady DEF IInv
  <2>7. JobInv'
    BY <1>1, <2>1, <2>2, JobKept DEF IInv, Steps
  <2>8. MadeInv'
    <3>1. BaseImage' = BaseImage
      BY <2>2 DEF BaseImage
    <3>2. Made(calls', "pull", BaseImage')
      BY <2>5, <3>1, Zenon
    <3> QED
      BY <1>1, <1>3, <2>1, <2>2, <3>2 DEF MadeInv
  <2>9. CleanedInv'
    BY <2>1 DEF CleanedInv
  <2> QED
    BY <2>5, <2>6, <2>7, <2>8, <2>9 DEF IInv
<1> QED
  BY <1>2, <1>3

LEMMA InspectBasePreserves == IInv /\ InspectBase => IInv'
<1> SUFFICES ASSUME IInv, InspectBase PROVE IInv'
  OBVIOUS
<1>1. /\ pc = "inspectBase" /\ cacheTag' = cacheTag /\ tagIdx' = tagIdx
      /\ Made(calls, "pull", BaseImage)
  BY DEF InspectBase, IInv, MadeInv
<1>2. PICK c : /\ calls' = Append(calls, c) /\ pc' = "prime"
               /\ UNCHANGED <<metadataVars, runtime, job>>
               /\ c.api = "inspect" /\ c.image = BaseImage /\ c.cache = {}
  BY CallFields DEF InspectBase, Calls, InspectImage
<1>3. metadata' = metadata /\ runtime' = runtime /\ job' = job
  BY <1>2 DEF metadataVars
<1>4. MayCall(calls, c, BaseImage)
  BY <1>1, <1>2 DEF MayCall
<1>5. Allowed(c, BaseImage, Image(FullRepoName, job.cachedTag), FullRepoName)
  BY <1>2 DEF Allowed
<1>6. CallsInv' /\ \A api, image : Made(calls, api, image) => Made(calls', api, image)
  BY <1>2, <1>3, <1>4, <1>5, Called, Zenon DEF IInv
<1>7. MetadataInv'
  BY <1>1, <1>2, Steady DEF IInv
<1>8. JobInv'
  BY <1>1, <1>2, <1>3, JobKept DEF IInv, JobInv, Steps
<1>9. MadeInv'
  <2>1. BaseImage' = BaseImage /\ FullRepoName' = FullRepoName
    BY <1>3 DEF BaseImage, FullRepoName
  <2>2. Made(calls', "pull", BaseImage')
    BY <1>1, <1>6, <2>1, Zenon
  <2>3. cacheTag' # None => Made(calls', "pull", Image(FullRepoName', cacheTag'))
    BY <1>1, <1>6, <2>1, Zenon DEF IInv, MadeInv
  <2> QED
    BY <1>2, <2>2, <2>3 DEF MadeInv
<1>10. CleanedInv'
  BY <1>2 DEF CleanedInv
<1> QED
  BY <1>6, <1>7, <1>8, <1>9, <1>10 DEF IInv

(* What was made before a call still is after it.                          *)
LEMMA MadeStays ==
  ASSUME MadeInv, metadata' = metadata, job' = job,
         \A api, image : Made(calls, api, image) => Made(calls', api, image)
  PROVE  /\ BaseImage' = BaseImage /\ FullRepoName' = FullRepoName
         /\ pc \notin {"unpack", "pull", "end"} /\ metadata'.BaseImage # Scratch =>
              Made(calls', "pull", BaseImage')
         /\ cacheTag # None => Made(calls', "pull", Image(FullRepoName', cacheTag))
         /\ pc \in {"tag", "push", "rmCached", "rmBase", "rmBuilt"} =>
              Made(calls', "build", BuiltImage)
         /\ pc \in {"rmCached", "rmBase", "rmBuilt"} => Made(calls', "inspect", BuiltImage)
<1>1. BaseImage' = BaseImage /\ FullRepoName' = FullRepoName
  BY DEF BaseImage, FullRepoName
<1> QED
  BY <1>1, Zenon DEF MadeInv

LEMMA PrimeCachePreserves == IInv /\ PrimeCache => IInv'
<1> SUFFICES ASSUME IInv, PrimeCache PROVE IInv'
  OBVIOUS
<1>1. pc = "prime" /\ tagIdx' = tagIdx
  BY DEF PrimeCache
<1>2. CASE job.pullToken # None /\ job.cachedTag # None
  <2>1. PICK c : /\ calls' = Append(calls, c) /\ pc' = "build"
                 /\ UNCHANGED <<metadataVars, runtime, job>>
                 /\ c.api = "pull" /\ c.image = Image(FullRepoName, job.cachedTag)
                 /\ c.cache = {}
    BY <1>2, CallFields DEF PrimeCache, Calls, PullImage
  <2>2. metadata' = metadata /\ runtime' = runtime /\ job' = job
        /\ cacheTag' \in {None, job.cachedTag}
    BY <1>2, <2>1 DEF metadataVars, PrimeCache
  <2>3. MayCall(calls, c, BaseImage)
    BY <2>1 DEF MayCall
  <2>4. Allowed(c, BaseImage, Image(FullRepoName, job.cachedTag), FullRepoName)
    BY <2>1, Names DEF Allowed
  <2>5. /\ CallsInv'
        /\ \A api, image :
             Made(calls', api, image) <=>
               Made(calls, api, image) \/ (c.api = api /\ c.image = image)
    BY <2>1, <2>2, <2>3, <2>4, Called, Zenon DEF IInv
  <2>6. MetadataInv'
    BY <1>1, <2>1, Steady DEF IInv
  <2>7. JobInv'
    BY <1>1, <2>1, <2>2, JobKept DEF IInv, Steps
  <2>8. MadeInv'
    <3>1. /\ FullRepoName' = FullRepoName
          /\ metadata'.BaseImage # Scratch => Made(calls', "pull", BaseImage')
      BY <1>1, <2>2, <2>5, MadeStays DEF IInv
    <3>2. cacheTag' # None => Made(calls', "pull", Image(FullRepoName', cacheTag'))
      BY <2>1, <2>2, <2>5, <3>1
    <3> QED
      BY <2>1, <3>1, <3>2 DEF MadeInv
  <2>9. CleanedInv'
    BY <2>1 DEF CleanedInv
  <2> QED
    BY <2>5, <2>6, <2>7, <2>8, <2>9 DEF IInv
<1>3. CASE ~(job.pullToken # None /\ job.cachedTag # None)
  <2>1. pc' = "build" /\ UNCHANGED <<metadataVars, runtime, job, cacheTag, tagIdx, calls>>
    BY <1>1, <1>3 DEF PrimeCache, Skips
  <2>2. /\ metadata' = metadata /\ runtime' = runtime /\ job' = job /\ calls' = calls
        /\ cacheTag' = cacheTag /\ CallsInv'
    BY <2>1, Skipped DEF IInv
  <2>3. MetadataInv'
    BY <1>1, <2>1, Steady DEF IInv
  <2>4. JobInv'
    BY <1>1, <2>1, <2>2, JobKept DEF IInv, JobInv, Steps
  <2>5. MadeInv'
    <3>1. /\ metadata'.BaseImage # Scratch => Made(calls', "pull", BaseImage')
          /\ cacheTag' # None => Made(calls', "pull", Image(FullRepoName', cacheTag'))
      BY <1>1, <2>2, MadeStays DEF IInv
    <3> QED
      BY <2>1, <3>1 DEF MadeInv
  <2>6. CleanedInv'
    BY <2>1 DEF CleanedInv
  <2> QED
    BY <2>2, <2>3, <2>4, <2>5, <2>6 DEF IInv
<1> QED
  BY <1>2, <1>3

LEMMA BuildPreserves == IInv /\ Build => IInv'
<1> SUFFICES ASSUME IInv, Build PROVE IInv'
  OBVIOUS
<1>1. pc = "build" /\ cacheTag' = cacheTag /\ tagIdx' = tagIdx
  BY DEF Build
<1>2. PICK c : /\ calls' = Append(calls, c) /\ pc' = "tag"
               /\ UNCHANGED <<metadataVars, runtime, job>>
               /\ c.api = "build" /\ c.image = BuiltImage
               /\ c.cache \subseteq IF cacheTag = None THEN {} ELSE {Image(FullRepoName, cacheTag)}
  <2>1. CachedImage(cacheTag) = Image(FullRepoName, cacheTag)
    BY DEF CachedImage
  <2> QED
    BY <2>1, CallFields DEF Build, Calls, BuildImage
<1>3. metadata' = metadata /\ runtime' = runtime /\ job' = job
  BY <1>2 DEF metadataVars
<1>4. MayCall(calls, c, BaseImage)
  <2>1. \A image \in c.cache : Made(calls, "pull", image)
    BY <1>2 DEF IInv, MadeInv
  <2> QED
    BY <1>2, <2>1 DEF MayCall
<1>5. Allowed(c, BaseImage, Image(FullRepoName, job.cachedTag), FullRepoName)
  BY <1>2, Names DEF Allowed
<1>6. /\ CallsInv' /\ Made(calls', "build", BuiltImage)
      /\ \A api, image : Made(calls, api, image) => Made(calls', api, image)
  BY <1>2, <1>3, <1>4, <1>5, Called, Zenon DEF IInv
<1>7. MetadataInv'
  BY <1>1, <1>2, Steady DEF IInv
<1>8. JobInv'
  BY <1>1, <1>2, <1>3, JobKept DEF IInv, JobInv, Steps
<1>9. MadeInv'
  <2>1. /\ metadata'.BaseImage # Scratch => Made(calls', "pull", BaseImage')
        /\ cacheTag' # None => Made(calls', "pull", Image(FullRepoName', cacheTag'))
    BY <1>1, <1>3, <1>6, MadeStays DEF IInv
  <2> QED
    BY <1>2, <1>6, <2>1 DEF MadeInv
<1>10. CleanedInv'
  BY <1>2 DEF CleanedInv
<1> QED
  BY <1>6, <1>7, <1>8, <1>9, <1>10 DEF IInv

LEMMA TagPreserves == IInv /\ Tag => IInv'
<1> SUFFICES ASSUME IInv, Tag PROVE IInv'
  OBVIOUS
<1>1. pc = "tag" /\ cacheTag' = cacheTag /\ tagIdx' = tagIdx /\ Made(calls, "build", BuiltImage)
  BY DEF Tag, IInv, MadeInv
<1>2. CASE tagIdx \in DOMAIN job.tagNames
  <2>1. PICK c : /\ calls' = Append(calls, c) /\ pc' = "push"
                 /\ UNCHANGED <<metadataVars, runtime, job>>
                 /\ c.api = "tag" /\ c.image = Image(FullRepoName, job.tagNames[tagIdx])
                 /\ c.from = BuiltImage /\ c.cache = {}
    BY <1>2, CallFields DEF Tag, Calls, TagImage
  <2>2. metadata' = metadata /\ runtime' = runtime /\ job' = job
    BY <2>1 DEF metadataVars
  <2>3. MayCall(calls, c, BaseImage)
    BY <2>1 DEF MayCall
  <2>4. Allowed(c, BaseImage, Image(FullRepoName, job.cachedTag), FullRepoName)
    BY <2>1, Names DEF Allowed
  <2>5. /\ CallsInv' /\ TagMade(calls', Image(FullRepoName, job.tagNames[tagIdx]))
        /\ \A api, image : Made(calls, api, image) => Made(calls', api, image)
    <3>1. /\ CallsInv' /\ TagMade(calls', c.image)
          /\ \A api, image : Made(calls, api, image) => Made(calls', api, image)
      BY <1>1, <2>1, <2>2, <2>3, <2>4, Called, Zenon DEF IInv
    <3> QED
      BY <2>1, <3>1, Zenon
  <2>6. MetadataInv'
    BY <1>1, <2>1, Steady DEF IInv
  <2>7. JobInv'
    BY <1>1, <1>2, <2>1, <2>2 DEF IInv, JobInv, Steps
  <2>8. MadeInv'
    <3>1. /\ metadata'.BaseImage # Scratch => Made(calls', "pull", BaseImage')
          /\ cacheTag' # None => Made(calls', "pull", Image(FullRepoName', cacheTag'))
          /\ Made(calls', "build", BuiltImage)
          /\ FullRepoName' = FullRepoName
      BY <1>1, <2>2, <2>5, MadeStays DEF IInv
    <3>2. TagMade(calls', Image(FullRepoName', job'.tagNames[tagIdx']))
      BY <1>1, <2>2, <2>5, <3>1
    <3> QED
      BY <2>1, <3>1, <3>2 DEF MadeInv
  <2>9. CleanedInv'
    BY <2>1 DEF CleanedInv
  <2> QED
    BY <2>5, <2>6, <2>7, <2>8, <2>9 DEF IInv
<1>3. CASE tagIdx \notin DOMAIN job.tagNames
  <2>1. PICK c : /\ calls' = Append(calls, c) /\ pc' = "rmCached"
                 /\ UNCHANGED <<metadataVars, runtime, job>>
                 /\ c.api = "inspect" /\ c.image = BuiltImage /\ c.cache = {}
    BY <1>3, CallFields DEF Tag, Calls, InspectImage
  <2>2. metadata' = metadata /\ runtime' = runtime /\ job' = job
    BY <2>1 DEF metadataVars
  <2>3. MayCall(calls, c, BaseImage)
    BY <1>1, <2>1 DEF MayCall
  <2>4. Allowed(c, BaseImage, Image(FullRepoName, job.cachedTag), FullRepoName)
    BY <2>1, Names DEF Allowed
  <2>5. /\ CallsInv' /\ Made(calls', "inspect", BuiltImage)
        /\ \A api, image : Made(calls, api, image) => Made(calls', api, image)
    BY <2>1, <2>2, <2>3, <2>4, Called, Zenon DEF IInv
  <2>6. MetadataInv'
    BY <1>1, <2>1, Steady DEF IInv
  <2>7. JobInv'
    BY <1>1, <2>1, <2>2, JobKept DEF IInv, JobInv, Steps
  <2>8. MadeInv'
    <3>1. /\ metadata'.BaseImage # Scratch => Made(calls', "pull", BaseImage')
          /\ cacheTag' # None => Made(calls', "pull", Image(FullRepoName', cacheTag'))
          /\ Made(calls', "build", BuiltImage)
      BY <1>1, <2>2, <2>5, MadeStays DEF IInv
    <3> QED
      BY <2>1, <2>5, <3>1 DEF MadeInv
  <2>9. CleanedInv'
    BY <2>1 DEF CleanedInv
  <2> QED
    BY <2>5, <2>6, <2>7, <2>8, <2>9 DEF IInv
<1> QED
  BY <1>2, <1>3

LEMMA PushPreserves == IInv /\ Push => IInv'
<1> SUFFICES ASSUME IInv, Push PROVE IInv'
  OBVIOUS
<1>1. /\ pc = "push" /\ cacheTag' = cacheTag /\ tagIdx' = tagIdx + 1
      /\ TagMade(calls, Image(FullRepoName, job.tagNames[tagIdx]))
  BY DEF Push, IInv, MadeInv
<1>2. PICK c : /\ calls' = Append(calls, c) /\ pc' = "tag"
               /\ UNCHANGED <<metadataVars, runtime, job>>
               /\ c.api = "push" /\ c.image = Image(FullRepoName, job.tagNames[tagIdx])
               /\ c.cache = {}
  BY CallFields DEF Push, Calls, PushImage
<1>3. metadata' = metadata /\ runtime' = runtime /\ job' = job
  BY <1>2 DEF metadataVars
<1>4. MayCall(calls, c, BaseImage)
  BY <1>1, <1>2 DEF MayCall
<1>5. Allowed(c, BaseImage, Image(FullRepoName, job.cachedTag), FullRepoName)
  BY <1>2, Names DEF Allowed
<1>6. CallsInv' /\ \A api, image : Made(calls, api, image) => Made(calls', api, image)
  BY <1>2, <1>3, <1>4, <1>5, Called, Zenon DEF IInv
<1>7. MetadataInv'
  BY <1>1, <1>2, Steady DEF IInv
<1>8. JobInv'
  <2>1. job.tagNames \in Seq(STRING) /\ tagIdx \in DOMAIN job.tagNames
    BY <1>1, JobsAssumption DEF IInv, JobInv
  <2>2. tagIdx + 1 \in 1 .. Len(job.tagNames) + 1
    BY <2>1
  <2> QED
    BY <1>1, <1>2, <1>3, <2>2 DEF IInv, JobInv, Steps
<1>9. MadeInv'
  <2>1. /\ metadata'.BaseImage # Scratch => Made(calls', "pull", BaseImage')
        /\ cacheTag' # None => Made(calls', "pull", Image(FullRepoName', cacheTag'))
        /\ Made(calls', "build", BuiltImage)
    BY <1>1, <1>3, <1>6, MadeStays DEF IInv
  <2> QED
    BY <1>2, <2>1 DEF MadeInv
<1>10. CleanedInv'
  BY <1>2 DEF CleanedInv
<1> QED
  BY <1>6, <1>7, <1>8, <1>9, <1>10 DEF IInv

(* Cleanup's four calls, and the one it leaves out.                        *)
LEMMA CleanupCases ==
  ASSUME Cleanup
  PROVE  /\ cacheTag' = cacheTag /\ tagIdx' = tagIdx
         /\ \/ pc = "rmCached" /\ cacheTag = None /\ Skips("rmBase")
            \/ /\ pc = "rmCached" /\ cacheTag # None
               /\ Calls(RemoveImageExtended(Image(FullRepoName, cacheTag)), "rmBase")
            \/ pc = "rmBase" /\ Calls(RemoveImageExtended(BaseImage), "rmBuilt")
            \/ pc = "rmBuilt" /\ Calls(RemoveImageExtended(BuiltID), "prune")
            \/ pc = "prune" /\ Calls(PruneImages, "end")
<1>1. /\ DOMAIN ToRemove = {"rmCached", "rmBase", "rmBuilt"}
      /\ ToRemove["rmCached"] = Image(FullRepoName, cacheTag)
      /\ ToRemove["rmBase"] = BaseImage /\ ToRemove["rmBuilt"] = BuiltID
      /\ AfterRemove["rmCached"] = "rmBase" /\ AfterRemove["rmBase"] = "rmBuilt"
      /\ AfterRemove["rmBuilt"] = "prune"
  BY DEF ToRemove, AfterRemove, CachedImage
<1>2. CASE pc \in DOMAIN ToRemove
  <2>1. IF pc = "rmCached" /\ cacheTag = None THEN Skips("rmBase")
        ELSE Calls(RemoveImageExtended(ToRemove[pc]), AfterRemove[pc])
    BY <1>1, <1>2, Zenon DEF Cleanup
  <2>2. CASE pc = "rmCached"
    BY <1>1, <2>1, <2>2, Zenon DEF Cleanup
  <2>3. CASE pc = "rmBase"
    <3>1. pc # "rmCached"
      BY <2>3
    <3> QED
      BY <1>1, <2>1, <2>3, <3>1, Zenon DEF Cleanup
  <2>4. CASE pc = "rmBuilt"
    <3>1. pc # "rmCached"
      BY <2>4
    <3> QED
      BY <1>1, <2>1, <2>4, <3>1, Zenon DEF Cleanup
  <2> QED
    BY <1>1, <1>2, <2>2, <2>3, <2>4
<1>3. CASE pc = "prune" /\ Calls(PruneImages, "end")
  BY <1>3, Zenon DEF Cleanup
<1> QED
  BY <1>2, <1>3, Zenon DEF Cleanup

LEMMA CleanupPreserves == IInv /\ Cleanup => IInv'
<1> SUFFICES ASSUME IInv, Cleanup PROVE IInv'
  OBVIOUS
<1>1. cacheTag' = cacheTag /\ tagIdx' = tagIdx
  BY CleanupCases
<1>2. CASE pc = "rmCached" /\ cacheTag = None /\ Skips("rmBase")
  <2>1. pc' = "rmBase" /\ UNCHANGED <<metadataVars, runtime, job, cacheTag, tagIdx, calls>>
    BY <1>1, <1>2 DEF Skips
  <2>2. metadata' = metadata /\ runtime' = runtime /\ job' = job /\ calls' = calls /\ CallsInv'
    BY <2>1, Skipped DEF IInv
  <2>3. MetadataInv'
    BY <1>2, <2>1, Steady DEF IInv
  <2>4. JobInv'
    BY <1>1, <1>2, <2>1, <2>2, JobKept DEF IInv, Steps
  <2>5. MadeInv'
    <3>1. /\ metadata'.BaseImage # Scratch => Made(calls', "pull", BaseImage')
          /\ Made(calls', "build", BuiltImage) /\ Made(calls', "inspect", BuiltImage)
      BY <1>2, <2>2, MadeStays DEF IInv
    <3> QED
      BY <1>1, <1>2, <2>1, <3>1 DEF MadeInv
  <2>6. CleanedInv'
    BY <1>1, <1>2, <2>1 DEF CleanedInv
  <2> QED
    BY <2>2, <2>3, <2>4, <2>5, <2>6 DEF IInv
<1>3. ASSUME NEW c, UNCHANGED <<metadataVars, runtime, job>>, calls' = Append(calls, c),
             pc \in {"rmCached", "rmBase", "rmBuilt", "prune"}, pc' \in Steps,
             pc' \notin {"unpack", "push"},
             MayCall(calls, c, BaseImage),
             Allowed(c, BaseImage, Image(FullRepoName, job.cachedTag), FullRepoName)
      PROVE  /\ MetadataInv' /\ JobInv' /\ CallsInv'
             /\ BaseImage' = BaseImage /\ FullRepoName' = FullRepoName /\ metadata' = metadata
             /\ Made(calls', c.api, c.image)
             /\ \A api, image : Made(calls, api, image) => Made(calls', api, image)
             /\ metadata'.BaseImage # Scratch => Made(calls', "pull", BaseImage')
             /\ cacheTag' # None => Made(calls', "pull", Image(FullRepoName', cacheTag'))
             /\ pc # "prune" =>
                  Made(calls', "build", BuiltImage) /\ Made(calls', "inspect", BuiltImage)
  <2>1. metadata' = metadata /\ runtime' = runtime /\ job' = job
    BY <1>3 DEF metadataVars
  <2>2. /\ CallsInv' /\ Made(calls', c.api, c.image)
        /\ \A api, image : Made(calls, api, image) => Made(calls', api, image)
    BY <1>3, <2>1, Called, Zenon DEF IInv
  <2>3. MetadataInv'
    BY <1>3, Steady DEF IInv
  <2>4. JobInv'
    BY <1>1, <1>3, <2>1, JobKept DEF IInv, JobInv
  <2>5. /\ BaseImage' = BaseImage /\ FullRepoName' = FullRepoName
        /\ metadata'.BaseImage # Scratch => Made(calls', "pull", BaseImage')
        /\ cacheTag' # None => Made(calls', "pull", Image(FullRepoName', cacheTag'))
        /\ pc # "prune" => Made(calls', "build", BuiltImage) /\ Made(calls', "inspect", BuiltImage)
    BY <1>1, <1>3, <2>1, <2>2, MadeStays DEF IInv
  <2> QED
    BY <2>1, <2>2, <2>3, <2>4, <2>5
<1>4. CASE /\ pc = "rmCached" /\ cacheTag # None
           /\ Calls(RemoveImageExtended(Image(FullRepoName, cacheTag)), "rmBase")
  <2>1. PICK c : /\ calls' = Append(calls, c) /\ pc' = "rmBase"
                 /\ UNCHANGED <<metadataVars, runtime, job>>
                 /\ c.api = "remove" /\ c.image = Image(FullRepoName, cacheTag) /\ c.cache = {}
    BY <1>4, CallFields DEF Calls, RemoveImageExtended
  <2>2. MayCall(calls, c, BaseImage)
    BY <1>4, <2>1 DEF MayCall, IInv, MadeInv
  <2>3. Allowed(c, BaseImage, Image(FullRepoName, job.cachedTag), FullRepoName)
    BY <2>1, Names DEF Allowed
  <2>4. /\ MetadataInv' /\ JobInv' /\ CallsInv' /\ FullRepoName' = FullRepoName
        /\ Made(calls', c.api, c.image)
        /\ metadata'.BaseImage # Scratch => Made(calls', "pull", BaseImage')
        /\ cacheTag' # None => Made(calls', "pull", Image(FullRepoName', cacheTag'))
        /\ Made(calls', "build", BuiltImage) /\ Made(calls', "inspect", BuiltImage)
    BY <1>3, <1>4, <2>1, <2>2, <2>3 DEF Steps
  <2>5. MadeInv'
    BY <2>1, <2>4 DEF MadeInv
  <2>6. CleanedInv'
    <3>1. Made(calls', "remove", Image(FullRepoName', cacheTag'))
      BY <1>1, <2>1, <2>4, Zenon
    <3> QED
      BY <2>1, <3>1 DEF CleanedInv
  <2> QED
    BY <2>4, <2>5, <2>6 DEF IInv
<1>5. CASE pc = "rmBase" /\ Calls(RemoveImageExtended(BaseImage), "rmBuilt")
  <2>1. PICK c : /\ calls' = Append(calls, c) /\ pc' = "rmBuilt"
                 /\ UNCHANGED <<metadataVars, runtime, job>>
                 /\ c.api = "remove" /\ c.image = BaseImage /\ c.cache = {}
    BY <1>5, CallFields DEF Calls, RemoveImageExtended
  <2>2. MayCall(calls, c, BaseImage)
    BY <1>5, <2>1, Names DEF MayCall, IInv, MadeInv
  <2>3. Allowed(c, BaseImage, Image(FullRepoName, job.cachedTag), FullRepoName)
    BY <2>1 DEF Allowed
  <2>4. /\ MetadataInv' /\ JobInv' /\ CallsInv'
        /\ BaseImage' = BaseImage /\ FullRepoName' = FullRepoName /\ metadata' = metadata
        /\ Made(calls', c.api, c.image)
        /\ \A api, image : Made(calls, api, image) => Made(calls', api, image)
        /\ metadata'.BaseImage # Scratch => Made(calls', "pull", BaseImage')
        /\ cacheTag' # None => Made(calls', "pull", Image(FullRepoName', cacheTag'))
        /\ Made(calls', "build", BuiltImage) /\ Made(calls', "inspect", BuiltImage)
    BY <1>3, <1>5, <2>1, <2>2, <2>3 DEF Steps
  <2>5. MadeInv'
    BY <2>1, <2>4 DEF MadeInv
  <2>6. CleanedInv'
    <3>1. Made(calls', "remove", BaseImage')
      BY <2>1, <2>4, Zenon
    <3>2. metadata'.err = "" /\ cacheTag' # None =>
            Made(calls', "remove", Image(FullRepoName', cacheTag'))
      BY <1>1, <1>5, <2>4 DEF IInv, CleanedInv
    <3> QED
      BY <2>1, <3>1, <3>2 DEF CleanedInv
  <2> QED
    BY <2>4, <2>5, <2>6 DEF IInv
<1>6. CASE pc = "rmBuilt" /\ Calls(RemoveImageExtended(BuiltID), "prune")
  <2>1. PICK c : /\ calls' = Append(calls, c) /\ pc' = "prune"
                 /\ UNCHANGED <<metadataVars, runtime, job>>
                 /\ c.api = "remove" /\ c.image = BuiltID /\ c.cache = {}
    BY <1>6, CallFields DEF Calls, RemoveImageExtended
  <2>2. MayCall(calls, c, BaseImage)
    BY <1>6, <2>1 DEF MayCall, IInv, MadeInv
  <2>3. Allowed(c, BaseImage, Image(FullRepoName, job.cachedTag), FullRepoName)
    BY <2>1 DEF Allowed
  <2>4. /\ MetadataInv' /\ JobInv' /\ CallsInv'
        /\ BaseImage' = BaseImage /\ FullRepoName' = FullRepoName /\ metadata' = metadata
        /\ Made(calls', c.api, c.image)
        /\ \A api, image : Made(calls, api, image) => Made(calls', api, image)
        /\ metadata'.BaseImage # Scratch => Made(calls', "pull", BaseImage')
        /\ cacheTag' # None => Made(calls', "pull", Image(FullRepoName', cacheTag'))
    BY <1>3, <1>6, <2>1, <2>2, <2>3 DEF Steps
  <2>5. MadeInv'
    BY <2>1, <2>4 DEF MadeInv
  <2>6. CleanedInv'
    <3>1. Made(calls', "remove", BuiltID)
      BY <2>1, <2>4, Zenon
    <3>2. metadata'.err = "" => Made(calls', "remove", BaseImage')
      BY <1>6, <2>4 DEF IInv, CleanedInv
    <3>3. metadata'.err = "" /\ cacheTag' # None =>
            Made(calls', "remove", Image(FullRepoName', cacheTag'))
      BY <1>1, <1>6, <2>4 DEF IInv, CleanedInv
    <3> QED
      BY <2>1, <3>1, <3>2, <3>3 DEF CleanedInv
  <2> QED
    BY <2>4, <2>5, <2>6 DEF IInv
<1>7. CASE pc = "prune" /\ Calls(PruneImages, "end")
  <2>1. PICK c : /\ calls' = Append(calls, c) /\ pc' = "end"
                 /\ UNCHANGED <<metadataVars, runtime, job>>
                 /\ c.api = "prune" /\ c.cache = {}
    BY <1>7, CallFields DEF Calls, PruneImages
  <2>2. MayCall(calls, c, BaseImage)
    BY <2>1 DEF MayCall
  <2>3. Allowed(c, BaseImage, Image(FullRepoName, job.cachedTag), FullRepoName)
    BY <2>1 DEF Allowed
  <2>4. /\ JobInv' /\ CallsInv' /\ MetadataInv'
        /\ BaseImage' = BaseImage /\ FullRepoName' = FullRepoName /\ metadata' = metadata
        /\ \A api, image : Made(calls, api, image) => Made(calls', api, image)
        /\ cacheTag' # None => Made(calls', "pull", Image(FullRepoName', cacheTag'))
    BY <1>3, <1>7, <2>1, <2>2, <2>3 DEF Steps
  <2>5. MadeInv'
    BY <2>1, <2>4 DEF MadeInv
  <2>6. CleanedInv'
    <3>1. metadata'.err = "" =>
            Made(calls', "remove", BaseImage') /\ Made(calls', "remove", BuiltID)
      BY <1>7, <2>4 DEF IInv, CleanedInv
    <3>2. metadata'.err = "" /\ cacheTag' # None =>
            Made(calls', "remove", Image(FullRepoName', cacheTag'))
      BY <1>1, <1>7, <2>4 DEF IInv, CleanedInv
    <3> QED
      BY <2>1, <3>1, <3>2 DEF CleanedInv
  <2> QED
    BY <2>4, <2>5, <2>6 DEF IInv
<1> QED
  BY CleanupCases, <1>2, <1>4, <1>5, <1>6, <1>7

-----------------------------------------------------------------------------
(* Theorems. *)

LEMMA NextPreserves == IInv /\ [Next]_vars => IInv'
<1> SUFFICES ASSUME IInv, [Next]_vars PROVE IInv'
  OBVIOUS
<1>1. CASE Unpack
  BY <1>1, UnpackPreserves
<1>2. CASE PullBase
  BY <1>2, PullBasePreserves
<1>3. CASE InspectBase
  BY <1>3, InspectBasePreserves
<1>4. CASE PrimeCache
  BY <1>4, PrimeCachePreserves
<1>5. CASE Build
  BY <1>5, BuildPreserves
<1>6. CASE Tag
  BY <1>6, TagPreserves
<1>7. CASE Push
  BY <1>7, PushPreserves
<1>8. CASE Cleanup
  BY <1>8, CleanupPreserves
<1>9. CASE UNCHANGED vars
  BY <1>9, StutterPreserves
<1>10. CASE Terminated
  BY <1>9, <1>10 DEF Terminated
<1> QED
  BY <1>1, <1>2, <1>3, <1>4, <1>5, <1>6, <1>7, <1>8, <1>9, <1>10 DEF Next

(* Throughout a build, the call that each step relies on was made, and the *)
(* metadata is what the Dockerfile says (context.go:91-406).               *)
THEOREM Invariance == Spec => []IInv
<1>1. Init => IInv
  BY InitEstablishes
<1>2. IInv /\ [Next]_vars => IInv'
  BY NextPreserves
<1> QED
  BY <1>1, <1>2, PTL DEF Spec

LEMMA ErrorsHaveNoBase ==
  ASSUME NEW e \in {"none", "ErrMissingDockerfile", "ErrInvalidDockerfile"}
  PROVE  Error(e).err # "" /\ Error(e).BaseImage = <<>> /\ Error(e).BaseImageTag = ""
BY DEF Error

(* What has been found is what MetadataAgrees speaks of.                   *)
LEMMA Found ==
  ASSUME IInv
  PROVE  /\ \/ /\ file = "readable" /\ dockerfile \in Dockerfiles
               /\ metadata = NewMetadata(dockerfile)
            \/ metadata \in {Error(e) : e \in {"none", "ErrMissingDockerfile",
                                                "ErrInvalidDockerfile"}}
         /\ file = "readable" /\ metadata # Error("none") =>
              dockerfile \in Dockerfiles /\ metadata = NewMetadata(dockerfile)
BY DEF IInv, MetadataInv, Read

(* The variables keep their types, a base image is found with its name and *)
(* its tag or not at all, and no call names an image from elsewhere        *)
(* (dockerfile.go:27-68, docker_client.go:90-192, podman_client.go:71-143).*)
THEOREM TypeCorrect == Spec => []TypeOK
<1>1. IInv => TypeOK
  <2> SUFFICES ASSUME IInv PROVE TypeOK
    OBVIOUS
  <2>1. MetadataTypeOK
    <3>1. /\ file \in {"missing", "unreadable", "readable"}
          /\ dockerfile \in Dockerfiles \union {<<>>}
      BY DEF IInv, MetadataInv
    <3>2. /\ metadata.err = "" => metadata.BaseImage # <<>> /\ metadata.BaseImageTag # ""
          /\ metadata.err # "" => metadata.BaseImage = <<>> /\ metadata.BaseImageTag = ""
      <4>1. CASE /\ file = "readable" /\ dockerfile \in Dockerfiles
                 /\ metadata = NewMetadata(dockerfile)
        BY <4>1, MetadataAgrees, Zenon
      <4>2. CASE metadata \in {Error(e) : e \in {"none", "ErrMissingDockerfile",
                                                 "ErrInvalidDockerfile"}}
        BY <4>2, ErrorsHaveNoBase
      <4> QED
        BY <4>1, <4>2, Found
    <3> QED
      BY <3>1, <3>2 DEF MetadataTypeOK
  <2>2. ASSUME NEW i \in DOMAIN calls, calls[i].api # "prune"
        PROVE  calls[i].image[1] \in {metadata.BaseImage, FullRepoName, <<BuildID>>, BuiltID[1]}
    BY <2>2, Names DEF IInv, CallsInv, History, Allowed
  <2> QED
    BY <2>1, <2>2 DEF IInv, JobInv, TypeOK
<1> QED
  BY <1>1, Invariance, PTL

(* The base image that is found is the one the runtime starts from, and    *)
(* what the runtime can build is refused only for a default that uses      *)
(* another, whatever ARGs and stages there are (dockerfile.go:71-141).     *)
THEOREM BaseFound == Spec => []BaseIsTheRuntimes
<1>1. IInv => BaseIsTheRuntimes
  <2> SUFFICES ASSUME IInv, metadata # Error("none"), file = "readable"
               PROVE  IF metadata.err = ""
                        THEN LET base == RuntimeBase(dockerfile) IN
                               /\ Buildable(dockerfile)
                               /\ metadata.BaseImage = base.name
                               /\ \/ base.digest
                                  \/ metadata.BaseImageTag =
                                       IF base.tag = "" THEN "latest" ELSE base.tag
                        ELSE ~Buildable(dockerfile) \/ Chained(dockerfile)
    BY DEF BaseIsTheRuntimes
  <2>1. dockerfile \in Dockerfiles /\ metadata = NewMetadata(dockerfile)
    BY Found
  <2> QED
    BY <2>1, MetadataAgrees, Zenon DEF BaseTag
<1> QED
  BY <1>1, Invariance, PTL

(* What is inspected, used as a cache or removed was pulled or built under *)
(* that very name, or is the ID that was looked up, and each client pushes *)
(* what it has tagged, for any job and number of tags                      *)
(* (docker_client.go:90-131, podman_client.go:71-95, context.go:271,       *)
(* 295-337, 401-406).                                                      *)
THEOREM EveryCallFindsItsImage == Spec => []UsedIsThere
<1>1. IInv => UsedIsThere
  <2>1. \A i, api, image : Before(i, api, image) <=> MadeBefore(calls, i, api, image)
    BY Zenon DEF MadeBefore, Before
  <2>2. IInv => \A i \in DOMAIN calls : UsedBy(calls, i, calls[i], BaseImage)
    BY Zenon DEF IInv, CallsInv, History, UsedAt
  <2> QED
    BY <2>1, <2>2, Zenon DEF UsedIsThere, UsedBy
<1> QED
  BY <1>1, Invariance, PTL

(* Cleanup leaves nothing in the runtime that the build has pulled, built  *)
(* or tagged, but for the cache image that it does not know of             *)
(* (context.go:122-127, 350-381, main.go:155).                             *)
THEOREM NothingIsLeft == Spec => []NothingStays
<1>1. IInv => NothingStays
  <2> SUFFICES ASSUME IInv, pc = "end", NEW i \in DOMAIN calls,
                      calls[i].api \in {"pull", "build", "tag"}
               PROVE  \/ Removed(calls[i].image)
                      \/ cacheTag = None /\ calls[i].image = CachedImage(job.cachedTag)
    BY DEF NothingStays
  <2>1. calls # <<>>
    OBVIOUS
  <2>2. /\ cacheTag # None => Made(calls, "remove", Image(FullRepoName, cacheTag))
        /\ Made(calls, "remove", BaseImage) /\ Made(calls, "remove", BuiltID)
    BY <2>1 DEF IInv, MetadataInv, CleanedInv
  <2>3. \A image : Made(calls, "remove", image) => Removed(image)
    BY Zenon DEF Made, Removed
  <2>4. \A image \in BuiltNames : Removed(image)
    BY <2>2, Zenon DEF Made, Removed
  <2>5. Allowed(calls[i], BaseImage, Image(FullRepoName, job.cachedTag), FullRepoName)
    BY DEF IInv, CallsInv, History
  <2>6. CASE calls[i].api = "pull"
    <3>1. calls[i].image \in {BaseImage, Image(FullRepoName, job.cachedTag)}
      BY <2>5, <2>6 DEF Allowed
    <3>2. cacheTag \in {None, job.cachedTag}
      BY DEF IInv, JobInv
    <3> QED
      BY <2>2, <2>3, <3>1, <3>2 DEF CachedImage
  <2>7. CASE calls[i].api = "build"
    <3>1. calls[i].image \in BuiltNames
      BY <2>5, <2>7 DEF Allowed, BuiltNames
    <3> QED
      BY <2>4, <3>1
  <2>8. CASE calls[i].api = "tag"
    <3>1. calls[i].image \in BuiltNames
      BY <2>8 DEF BuiltNames
    <3> QED
      BY <2>4, <3>1
  <2> QED
    BY <2>6, <2>7, <2>8
<1> QED
  BY <1>1, Invariance, PTL

===============================================================================
