-------------------------- MODULE LogWriterProofs ---------------------------
(***************************************************************************)
(* Theorems about LogWriter: for any output, any way of cutting it into    *)
(* chunks and any number of requests, the entries are numbered without a   *)
(* gap, nothing is lost or doubled, an error is the current request's own, *)
(* and only a request that was cut short makes the output undecodable.     *)
(***************************************************************************)
EXTENDS LogWriter, SequenceTheorems, WellFoundedInduction, TLAPS

-----------------------------------------------------------------------------
(* Induction over the natural numbers, for a set in place of a predicate:  *)
(* from the well-foundedness of their order.                               *)

LEMMA LeastElement ==
  ASSUME NEW T, T \subseteq Nat, T # {}
  PROVE  \E x \in T : \A y \in T : x <= y
<1>1. \E x \in T : \A y \in T : ~(<<y, x>> \in OpToRel(<, Nat))
  BY NatLessThanWellFounded, WFMin, Zenon
<1>2. \A x, y \in Nat : y < x => <<y, x>> \in OpToRel(<, Nat)
  BY Zenon DEF OpToRel
<1>3. PICK x \in T : \A y \in T : ~(y < x)
  BY <1>1, <1>2, Zenon
<1>4. x \in Nat /\ \A y \in T : y \in Nat
  OBVIOUS
<1>5. \A y \in T : x <= y
  BY <1>3, <1>4
<1> QED
  BY <1>5

LEMMA Induction ==
  ASSUME NEW T, T \subseteq Nat, 0 \in T, \A n \in T : n + 1 \in T
  PROVE  T = Nat
<1> DEFINE B == Nat \ T
<1> SUFFICES ASSUME B # {} PROVE FALSE
  OBVIOUS
<1>1. PICK x \in B : \A y \in B : x <= y
  <2> B \subseteq Nat OBVIOUS
  <2> HIDE DEF B
  <2> QED BY LeastElement
<1>2. x \in Nat /\ x # 0 /\ x - 1 \in Nat /\ x - 1 \notin B
  BY <1>1
<1> QED BY <1>2

-----------------------------------------------------------------------------
(* FlattenSeq: the recursive function of its definition exists, and no     *)
(* other is there to choose.                                               *)

Sums(ss, n, f) ==
  f = [i \in 1..n |-> IF i = 1 THEN ss[i] ELSE f[i - 1] \o ss[i]]

LEMMA SumsExist ==
  ASSUME NEW S, NEW ss \in Seq(Seq(S))
  PROVE  \E f : Sums(ss, Len(ss), f)
<1> DEFINE T == {n \in Nat : \E f : Sums(ss, n, f)}
<1>1. 0 \in T
  <2>1. Sums(ss, 0, [i \in 1..0 |-> ss])
    BY DEF Sums
  <2> QED BY <2>1
<1>2. ASSUME NEW n \in T PROVE n + 1 \in T
  <2>1. PICK f : Sums(ss, n, f)
    BY <1>2
  <2> DEFINE g == [i \in 1..(n + 1) |-> IF i <= n THEN f[i]
                                       ELSE IF i = 1 THEN ss[i] ELSE f[i - 1] \o ss[i]]
  <2>2. n \in Nat
    BY <1>2
  <2>3. ASSUME NEW i \in 1..(n + 1)
        PROVE g[i] = IF i = 1 THEN ss[i] ELSE g[i - 1] \o ss[i]
    <3>1. CASE i <= n
      <4>1. i \in 1..n /\ (i # 1 => i - 1 \in 1..n /\ i - 1 <= n /\ i - 1 \in 1..(n + 1))
        BY <2>2, <3>1
      <4>2. f[i] = IF i = 1 THEN ss[i] ELSE f[i - 1] \o ss[i]
        BY <2>1, <4>1, Zenon DEF Sums
      <4> QED BY <3>1, <4>1, <4>2
    <3>2. CASE ~(i <= n)
      <4>1. i # 1 => i - 1 \in 1..n /\ i - 1 <= n /\ i - 1 \in 1..(n + 1)
        BY <2>2, <3>2
      <4> QED BY <3>2, <4>1
    <3> QED BY <3>1, <3>2
  <2>4. g = [i \in 1..(n + 1) |-> IF i = 1 THEN ss[i] ELSE g[i - 1] \o ss[i]]
    BY <2>3, Zenon
  <2>5. Sums(ss, n + 1, g)
    BY <2>4, Zenon DEF Sums
  <2> QED BY <2>2, <2>5
<1>3. T = Nat
  <2> T \subseteq Nat OBVIOUS
  <2> HIDE DEF T
  <2> QED BY <1>1, <1>2, Induction
<1>4. Len(ss) \in T
  <2> HIDE DEF T
  <2> QED BY <1>3
<1> QED BY <1>4

LEMMA SumsAgree ==
  ASSUME NEW S, NEW ss \in Seq(Seq(S)), NEW s \in Seq(S),
         NEW f, Sums(ss, Len(ss), f), NEW g, Sums(Append(ss, s), Len(ss) + 1, g)
  PROVE  \A i \in 1..Len(ss) : f[i] = g[i]
<1> DEFINE n == Len(ss)
<1> DEFINE T == {i \in Nat : i \in 1..n => f[i] = g[i]}
<1>1. ASSUME NEW i \in 1..n
      PROVE  /\ f[i] = IF i = 1 THEN ss[i] ELSE f[i - 1] \o ss[i]
             /\ g[i] = IF i = 1 THEN ss[i] ELSE g[i - 1] \o ss[i]
  <2>1. i \in 1..(n + 1) /\ ss[i] = Append(ss, s)[i]
    OBVIOUS
  <2> QED
    BY <2>1, Zenon DEF Sums
<1>2. 0 \in T
  OBVIOUS
<1>3. ASSUME NEW i \in T PROVE i + 1 \in T
  <2>1. CASE i + 1 \in 1..n
    <3>1. i \in Nat /\ (i + 1) - 1 = i /\ (i + 1 # 1 => i \in 1..n)
      BY <2>1
    <3>2. f[i + 1] = IF i + 1 = 1 THEN ss[i + 1] ELSE f[i] \o ss[i + 1]
      BY <1>1, <2>1, <3>1
    <3>3. g[i + 1] = IF i + 1 = 1 THEN ss[i + 1] ELSE g[i] \o ss[i + 1]
      BY <1>1, <2>1, <3>1
    <3>4. i + 1 # 1 => f[i] = g[i]
      BY <1>3, <3>1
    <3> QED
      BY <3>1, <3>2, <3>3, <3>4
  <2> QED
    BY <1>3, <2>1
<1>4. T = Nat
  <2> T \subseteq Nat
    OBVIOUS
  <2> HIDE DEF T
  <2> QED
    BY <1>2, <1>3, Induction
<1> QED
  BY <1>4

LEMMA FlattenIsASum ==
  ASSUME NEW S, NEW ss \in Seq(Seq(S)), Len(ss) # 0
  PROVE  \E f : Sums(ss, Len(ss), f) /\ FlattenSeq(ss) = f[Len(ss)]
<1> DEFINE P(f) == f = [i \in 1..Len(ss) |-> IF i = 1 THEN ss[i] ELSE f[i - 1] \o ss[i]]
           F == CHOOSE f : P(f)
<1>1. \E f : P(f)
  BY SumsExist DEF Sums
<1>2. P(F)
  BY <1>1, Zenon
<1>3. FlattenSeq(ss) = F[Len(ss)]
  BY Zenon DEF FlattenSeq
<1>4. Sums(ss, Len(ss), F)
  BY <1>2, Zenon DEF Sums
<1> QED
  BY <1>3, <1>4

LEMMA FlattenAppend ==
  ASSUME NEW S, NEW ss \in Seq(Seq(S)), NEW s \in Seq(S)
  PROVE  FlattenSeq(Append(ss, s)) = FlattenSeq(ss) \o s
<1> DEFINE tt == Append(ss, s)
           n  == Len(ss)
<1>1. /\ n \in Nat /\ tt \in Seq(Seq(S)) /\ Len(tt) = n + 1
      /\ \A i \in 1..n : ss[i] = tt[i]
      /\ tt[n + 1] = s
  BY AppendProperties
<1> HIDE DEF tt, n
<1>2. PICK g : Sums(tt, n + 1, g) /\ FlattenSeq(tt) = g[n + 1]
  BY <1>1, FlattenIsASum
<1>3. g[n + 1] = IF n + 1 = 1 THEN s ELSE g[n] \o s
  <2>1. n + 1 \in 1..(n + 1) /\ (n + 1) - 1 = n
    BY <1>1
  <2> QED
    BY <1>1, <1>2, <2>1, Zenon DEF Sums
<1>4. CASE n = 0
  <2>1. FlattenSeq(ss) = <<>>
    BY <1>4 DEF FlattenSeq, n
  <2> QED
    BY <1>2, <1>3, <1>4, <2>1 DEF tt
<1>5. CASE n # 0
  <2>1. PICK f : Sums(ss, n, f) /\ FlattenSeq(ss) = f[n]
    BY <1>5, FlattenIsASum DEF n
  <2>2. n \in 1..n /\ n + 1 \in Nat /\ n <= n + 1
    BY <1>1, <1>5
  <2>3. f[n] = g[n]
    <3>1. \A i \in 1..n : f[i] = g[i]
      <4>1. Sums(ss, Len(ss), f)
        BY <2>1 DEF n
      <4>2. Sums(Append(ss, s), Len(ss) + 1, g)
        BY <1>2 DEF n, tt
      <4>3. \A i \in 1..Len(ss) : f[i] = g[i]
        BY <4>1, <4>2, SumsAgree
      <4> QED
        BY <4>3 DEF n
    <3> QED
      BY <2>2, <3>1
  <2> QED
    BY <1>1, <1>2, <1>3, <1>5, <2>1, <2>3 DEF tt
<1> QED
  BY <1>4, <1>5

(* What holds of the empty sequence and of the concatenation of any two it *)
(* holds of, holds of the concatenation of many.                           *)
LEMMA FlattenIn ==
  ASSUME NEW S, NEW C, C \subseteq Seq(S), <<>> \in C, \A a, b \in C : a \o b \in C,
         NEW ss \in Seq(C)
  PROVE  FlattenSeq(ss) \in C
<1> DEFINE T == {n \in Nat : \A tt \in Seq(C) : Len(tt) = n => FlattenSeq(tt) \in C}
<1>1. 0 \in T
  <2>1. ASSUME NEW tt \in Seq(C), Len(tt) = 0 PROVE FlattenSeq(tt) \in C
    <3>1. tt = <<>>
      BY <2>1
    <3> QED
      BY <3>1 DEF FlattenSeq
  <2> QED
    BY <2>1
<1>2. ASSUME NEW n \in T PROVE n + 1 \in T
  <2>1. ASSUME NEW tt \in Seq(C), Len(tt) = n + 1
        PROVE  FlattenSeq(tt) \in C
    <3> DEFINE r == SubSeq(tt, 1, n)
               s == tt[n + 1]
    <3>1. n \in Nat /\ n + 1 \in 1..Len(tt) /\ r \in Seq(C) /\ s \in C
      BY <1>2, <2>1
    <3>2. Len(r) = n /\ tt = Append(r, s)
      BY <1>2, <2>1
    <3>3. FlattenSeq(r) \in C
      BY <1>2, <3>1, <3>2
    <3>4. r \in Seq(Seq(S)) /\ s \in Seq(S)
      BY <3>1
    <3> HIDE DEF r, s
    <3>5. FlattenSeq(tt) = FlattenSeq(r) \o s
      BY <3>2, <3>4, FlattenAppend
    <3> QED
      BY <3>1, <3>3, <3>5
  <2> QED
    BY <1>2, <2>1
<1>3. T = Nat
  <2> T \subseteq Nat
    OBVIOUS
  <2> HIDE DEF T
  <2> QED
    BY <1>1, <1>2, Induction
<1>4. Len(ss) \in T
  <2> HIDE DEF T
  <2> QED
    BY <1>3
<1> QED
  BY <1>4

LEMMA FlattenType == ASSUME NEW S, NEW ss \in Seq(Seq(S)) PROVE FlattenSeq(ss) \in Seq(S)
<1> DEFINE C == Seq(S)
<1>1. C \subseteq Seq(S) /\ <<>> \in C /\ \A a, b \in C : a \o b \in C
  OBVIOUS
<1>2. ss \in Seq(C)
  OBVIOUS
<1> HIDE DEF C
<1>3. FlattenSeq(ss) \in C
  BY <1>1, <1>2, FlattenIn
<1> QED
  BY <1>3 DEF C

LEMMA FlattenConcat ==
  ASSUME NEW S, NEW ss \in Seq(Seq(S)), NEW uu \in Seq(Seq(S))
  PROVE  FlattenSeq(ss \o uu) = FlattenSeq(ss) \o FlattenSeq(uu)
<1> DEFINE T == {n \in Nat : \A tt \in Seq(Seq(S)) :
                   Len(tt) = n => FlattenSeq(ss \o tt) = FlattenSeq(ss) \o FlattenSeq(tt)}
<1>1. 0 \in T
  <2>1. ASSUME NEW tt \in Seq(Seq(S)), Len(tt) = 0
        PROVE  FlattenSeq(ss \o tt) = FlattenSeq(ss) \o FlattenSeq(tt)
    <3>1. tt = <<>> /\ ss \o tt = ss /\ FlattenSeq(tt) = <<>>
      BY <2>1 DEF FlattenSeq
    <3> QED
      BY <3>1, FlattenType
  <2> QED
    BY <2>1
<1>2. ASSUME NEW n \in T PROVE n + 1 \in T
  <2>1. ASSUME NEW tt \in Seq(Seq(S)), Len(tt) = n + 1
        PROVE  FlattenSeq(ss \o tt) = FlattenSeq(ss) \o FlattenSeq(tt)
    <3> DEFINE r == SubSeq(tt, 1, n)
               s == tt[n + 1]
    <3>1. n \in Nat /\ n + 1 \in 1..Len(tt) /\ r \in Seq(Seq(S)) /\ s \in Seq(S)
      BY <1>2, <2>1
    <3>2. Len(r) = n /\ tt = Append(r, s)
      BY <1>2, <2>1
    <3>3. FlattenSeq(ss \o r) = FlattenSeq(ss) \o FlattenSeq(r)
      BY <1>2, <3>1, <3>2
    <3> HIDE DEF r, s
    <3>4. ss \o tt = Append(ss \o r, s) /\ ss \o r \in Seq(Seq(S))
      BY <3>1, <3>2
    <3>5. FlattenSeq(tt) = FlattenSeq(r) \o s /\ FlattenSeq(ss \o tt) = FlattenSeq(ss \o r) \o s
      <4>1. \A qq \in Seq(Seq(S)) : FlattenSeq(Append(qq, s)) = FlattenSeq(qq) \o s
        BY <3>1, FlattenAppend
      <4> QED
        BY <3>1, <3>2, <3>4, <4>1, Zenon
    <3>6. FlattenSeq(ss) \in Seq(S) /\ FlattenSeq(r) \in Seq(S)
      BY <3>1, FlattenType
    <3>7. (FlattenSeq(ss) \o FlattenSeq(r)) \o s = FlattenSeq(ss) \o (FlattenSeq(r) \o s)
      <4>1. \A a, b, c \in Seq(S) : (a \o b) \o c = a \o (b \o c)
        OBVIOUS
      <4> QED
        BY <3>1, <3>6, <4>1
    <3> QED
      BY <3>3, <3>5, <3>7
  <2> QED
    BY <1>2, <2>1
<1>3. T = Nat
  <2> T \subseteq Nat
    OBVIOUS
  <2> HIDE DEF T
  <2> QED
    BY <1>1, <1>2, Induction
<1>4. Len(uu) \in T
  <2> HIDE DEF T
  <2> QED
    BY <1>3
<1> QED
  BY <1>4

-----------------------------------------------------------------------------
(* Fragments. *)

LEMMA Associative ==
  ASSUME NEW a \in Seq(Fragment), NEW b \in Seq(Fragment), NEW c \in Seq(Fragment)
  PROVE  (a \o b) \o c = a \o (b \o c)
  OBVIOUS

LEMMA ConcatFacts ==
  ASSUME NEW a \in Seq(Fragment), NEW b \in Seq(Fragment)
  PROVE  /\ a \o b \in Seq(Fragment) /\ Len(a) \in Nat /\ Len(b) \in Nat
         /\ Len(a \o b) = Len(a) + Len(b)
         /\ \A i \in 1..Len(a) : (a \o b)[i] = a[i]
         /\ \A i \in 1..Len(b) : (a \o b)[Len(a) + i] = b[i]
  OBVIOUS

LEMMA Longer ==
  ASSUME NEW a \in Seq(Fragment), NEW b \in Seq(Fragment)
  PROVE  a \o b \in Seq(Fragment) /\ Len(a) <= Len(a \o b)
  OBVIOUS

LEMMA MessagesType == Messages \subseteq Message
<1>1. ASSUME NEW msgs \in Outputs PROVE Range(msgs) \subseteq Message
  BY OutputsAssumption DEF Range
<1> QED
  BY <1>1 DEF Messages

LEMMA FragmentType ==
  ASSUME NEW f \in Fragment
  PROVE  /\ f.of \in Messages /\ f.of.size \in Nat \ {0} /\ f.of.error \in BOOLEAN
         /\ f.part \in 1..f.of.size /\ f.part \in Nat
         /\ f = [of |-> f.of, part |-> f.part]
<1>1. PICK msg \in Messages : f \in [of : {msg}, part : 1..msg.size]
  BY DEF Fragment
<1>2. f.of = msg /\ f.part \in 1..msg.size /\ f = [of |-> f.of, part |-> f.part]
  BY <1>1
<1>3. msg \in Message
  BY MessagesType
<1>4. msg.size \in Nat \ {0} /\ msg.error \in BOOLEAN
  BY <1>3 DEF Message
<1> QED
  BY <1>2, <1>4

LEMMA FragmentsType ==
  ASSUME NEW m \in Messages
  PROVE  /\ m.size \in Nat \ {0} /\ m.error \in BOOLEAN
         /\ Fragments(m) \in Seq(Fragment) /\ Len(Fragments(m)) = m.size
         /\ \A i \in 1..m.size : Fragments(m)[i] = [of |-> m, part |-> i]
<1>1. m.size \in Nat \ {0} /\ m.error \in BOOLEAN
  BY MessagesType DEF Message
<1>2. \A i \in 1..m.size : [of |-> m, part |-> i] \in Fragment
  <2>1. \A i \in 1..m.size : [of |-> m, part |-> i] \in [of : {m}, part : 1..m.size]
    OBVIOUS
  <2> QED
    BY <2>1 DEF Fragment
<1>3. Fragments(m) \in Seq(Fragment) /\ Len(Fragments(m)) = m.size
  BY <1>1, <1>2 DEF Fragments
<1>4. \A i \in 1..m.size : Fragments(m)[i] = [of |-> m, part |-> i]
  BY DEF Fragments
<1> QED
  BY <1>1, <1>3, <1>4

LEMMA SameStart ==
  ASSUME NEW a \in Seq(Fragment), NEW b \in Seq(Fragment), Len(a) <= Len(b),
         \A i \in 1..Len(a) : a[i] = b[i]
  PROVE  SubSeq(a, 1, Len(a)) = SubSeq(b, 1, Len(a))
<1> DEFINE p == SubSeq(a, 1, Len(a))
           q == SubSeq(b, 1, Len(a))
<1>1. /\ Len(a) \in Nat /\ p \in Seq(Fragment) /\ q \in Seq(Fragment)
      /\ Len(p) = Len(a) /\ Len(q) = Len(a)
      /\ \A i \in 1..Len(a) : p[i] = a[i] /\ q[i] = b[i]
  OBVIOUS
<1> HIDE DEF p, q
<1>2. \A i \in 1..Len(p) : p[i] = q[i]
  BY <1>1
<1>3. p = q
  BY <1>1, <1>2, SeqEqual
<1> QED
  BY <1>3 DEF p, q

(* The start of a message that is not all of it. *)
Part(s) == IsStrictPrefix(s, Fragments(s[1].of))

LEMMA PartFacts ==
  ASSUME NEW s \in Seq(Fragment), s # <<>>, Part(s)
  PROVE  /\ Len(s) \in Nat /\ Len(s) < s[1].of.size
         /\ \A i \in 1..Len(s) : ~IsLast(s[i])
<1> DEFINE m == s[1].of
           b == Fragments(m)
<1>1. Len(s) \in Nat \ {0} /\ s[1] \in Fragment
  BY EmptySeq
<1>2. m \in Messages
  BY <1>1, FragmentType
<1>3. /\ m.size \in Nat \ {0} /\ b \in Seq(Fragment) /\ Len(b) = m.size
      /\ \A i \in 1..m.size : b[i] = [of |-> m, part |-> i]
  BY <1>2, FragmentsType
<1>4. Len(s) <= Len(b) /\ SubSeq(s, 1, Len(s)) = SubSeq(b, 1, Len(s)) /\ s # b
  BY DEF Part, IsStrictPrefix, IsPrefix
<1> HIDE DEF b, m
<1>5. \A i \in 1..Len(s) : s[i] = b[i]
  <2>1. \A i \in 1..Len(s) : SubSeq(s, 1, Len(s))[i] = s[i] /\ SubSeq(b, 1, Len(s))[i] = b[i]
    BY <1>1, <1>3, <1>4
  <2> QED
    BY <1>4, <2>1
<1>6. Len(s) # Len(b)
  BY <1>3, <1>4, <1>5, SeqEqual
<1>7. Len(s) < m.size
  BY <1>1, <1>3, <1>4, <1>6
<1>8. ASSUME NEW i \in 1..Len(s) PROVE ~IsLast(s[i])
  <2>1. s[i] = [of |-> m, part |-> i] /\ i # m.size
    BY <1>1, <1>3, <1>4, <1>5, <1>7
  <2>2. s[i].part = i /\ s[i].of = m
    BY <2>1
  <2> QED
    BY <2>1, <2>2 DEF IsLast
<1> QED
  BY <1>1, <1>7, <1>8 DEF m

(* A fragment that does not start a message follows the one before it. *)
Joined(s) ==
  \A i \in 1..Len(s) :
    s[i].part # 1 => i # 1 /\ s[i - 1] = [of |-> s[i].of, part |-> s[i].part - 1]

LEMMA JoinedConcat ==
  ASSUME NEW a \in Seq(Fragment), NEW b \in Seq(Fragment), Joined(a), Joined(b)
  PROVE  Joined(a \o b)
<1>1. /\ a \o b \in Seq(Fragment) /\ Len(a) \in Nat /\ Len(b) \in Nat
      /\ Len(a \o b) = Len(a) + Len(b)
      /\ \A i \in 1..Len(a) : (a \o b)[i] = a[i]
      /\ \A i \in 1..Len(b) : (a \o b)[Len(a) + i] = b[i]
  BY ConcatFacts
<1>2. ASSUME NEW i \in 1..Len(a \o b), (a \o b)[i].part # 1
      PROVE  /\ i # 1
             /\ (a \o b)[i - 1] = [of |-> (a \o b)[i].of, part |-> (a \o b)[i].part - 1]
  <2>1. CASE i \in 1..Len(a)
    <3>1. i # 1 /\ a[i - 1] = [of |-> a[i].of, part |-> a[i].part - 1]
      BY <1>1, <1>2, <2>1 DEF Joined
    <3>2. i - 1 \in 1..Len(a)
      BY <1>1, <2>1, <3>1
    <3> QED
      BY <1>1, <2>1, <3>1, <3>2
  <2>2. CASE i \notin 1..Len(a)
    <3>1. PICK j \in 1..Len(b) : i = Len(a) + j
      <4>1. i - Len(a) \in 1..Len(b) /\ i = Len(a) + (i - Len(a))
        BY <1>1, <2>2
      <4> QED
        BY <4>1
    <3>2. j # 1 /\ b[j - 1] = [of |-> b[j].of, part |-> b[j].part - 1]
      BY <1>1, <1>2, <3>1 DEF Joined
    <3>3. j - 1 \in 1..Len(b) /\ i - 1 = Len(a) + (j - 1)
      BY <1>1, <3>1, <3>2
    <3> QED
      BY <1>1, <3>1, <3>2, <3>3
  <2> QED
    BY <2>1, <2>2
<1> QED
  BY <1>2 DEF Joined

LEMMA JoinedPrefix ==
  ASSUME NEW a \in Seq(Fragment), NEW b \in Seq(Fragment), Joined(a \o b)
  PROVE  Joined(a)
<1>1. /\ Len(a) \in Nat /\ Len(b) \in Nat /\ Len(a \o b) = Len(a) + Len(b)
      /\ \A i \in 1..Len(a) : (a \o b)[i] = a[i]
  BY ConcatFacts
<1>2. ASSUME NEW i \in 1..Len(a), a[i].part # 1
      PROVE  i # 1 /\ a[i - 1] = [of |-> a[i].of, part |-> a[i].part - 1]
  <2>1. i \in 1..Len(a \o b) /\ (a \o b)[i] = a[i] /\ (i # 1 => (a \o b)[i - 1] = a[i - 1])
    BY <1>1
  <2> QED
    BY <1>2, <2>1 DEF Joined
<1> QED
  BY <1>2 DEF Joined

LEMMA JoinedSuffix ==
  ASSUME NEW a \in Seq(Fragment), NEW b \in Seq(Fragment), Joined(a \o b),
         b # <<>>, b[1].part = 1
  PROVE  Joined(b)
<1>1. /\ Len(a) \in Nat /\ Len(b) \in Nat /\ Len(a \o b) = Len(a) + Len(b)
      /\ \A i \in 1..Len(b) : (a \o b)[Len(a) + i] = b[i]
  BY ConcatFacts
<1>2. ASSUME NEW i \in 1..Len(b), b[i].part # 1
      PROVE  i # 1 /\ b[i - 1] = [of |-> b[i].of, part |-> b[i].part - 1]
  <2>1. i # 1
    BY <1>2
  <2>2. /\ Len(a) + i \in 1..Len(a \o b) /\ i - 1 \in 1..Len(b)
        /\ (Len(a) + i) - 1 = Len(a) + (i - 1)
    BY <1>1, <2>1
  <2>3. (a \o b)[Len(a) + i] = b[i] /\ (a \o b)[Len(a) + (i - 1)] = b[i - 1]
    BY <1>1, <2>2, Zenon
  <2>4. (a \o b)[Len(a) + i].part # 1
    BY <1>2, <2>3
  <2>5. (a \o b)[(Len(a) + i) - 1]
          = [of |-> (a \o b)[Len(a) + i].of, part |-> (a \o b)[Len(a) + i].part - 1]
    BY <2>2, <2>4, Zenon DEF Joined
  <2> QED
    BY <2>1, <2>2, <2>3, <2>5, Zenon
<1> QED
  BY <1>2 DEF Joined

LEMMA JoinedFragments == ASSUME NEW m \in Messages PROVE Joined(Fragments(m))
<1> DEFINE b == Fragments(m)
<1>1. /\ m.size \in Nat \ {0} /\ Len(b) = m.size
      /\ \A i \in 1..m.size : b[i] = [of |-> m, part |-> i]
  BY FragmentsType
<1> HIDE DEF b
<1>2. ASSUME NEW i \in 1..Len(b), b[i].part # 1
      PROVE  i # 1 /\ b[i - 1] = [of |-> b[i].of, part |-> b[i].part - 1]
  <2>1. b[i].part = i /\ b[i].of = m
    <3>1. b[i] = [of |-> m, part |-> i]
      BY ONLY <1>1, i \in 1..Len(b), Zenon
    <3> QED
      BY <3>1
  <2>2. i # 1 /\ i - 1 \in 1..m.size
    BY <1>1, <1>2, <2>1
  <2> QED
    BY <1>1, <2>1, <2>2
<1> QED
  BY <1>2 DEF Joined, b

(* Where errors end, after the first n fragments. *)
EndsAfter(n, s) == {i \in (n + 1)..Len(s) : IsLast(s[i]) /\ s[i].of.error}

LEMMA EndsOfPrefix ==
  ASSUME NEW n \in Nat, NEW a \in Seq(Fragment), NEW b \in Seq(Fragment),
         Len(a) <= Len(b), \A i \in 1..Len(a) : b[i] = a[i],
         \A i \in (Len(a) + 1)..Len(b) : ~(IsLast(b[i]) /\ b[i].of.error)
  PROVE  EndsAfter(n, b) = EndsAfter(n, a)
<1>1. Len(a) \in Nat /\ Len(b) \in Nat
  OBVIOUS
<1>2. ASSUME NEW i \in EndsAfter(n, b) PROVE i \in EndsAfter(n, a)
  <2>1. i \in 1..Len(a) /\ i >= n + 1
    BY <1>1, <1>2 DEF EndsAfter
  <2> QED
    BY <1>2, <2>1 DEF EndsAfter
<1>3. ASSUME NEW i \in EndsAfter(n, a) PROVE i \in EndsAfter(n, b)
  <2>1. i \in 1..Len(a) /\ i \in (n + 1)..Len(b)
    BY <1>1, <1>3 DEF EndsAfter
  <2> QED
    BY <1>3, <2>1 DEF EndsAfter
<1> QED
  BY <1>2, <1>3

(* What a request writes consists of whole messages. *)
LEMMA EncodeWhole ==
  ASSUME NEW msgs \in Outputs
  PROVE  Encode(msgs) \in Seq(Fragment) /\ Joined(Encode(msgs))
<1> DEFINE C  == {s \in Seq(Fragment) : Joined(s)}
           ss == [i \in DOMAIN msgs |-> Fragments(msgs[i])]
<1>1. C \subseteq Seq(Fragment) /\ <<>> \in C
  BY DEF Joined
<1>2. \A a, b \in C : a \o b \in C
  BY JoinedConcat
<1>3. \A m \in Messages : Fragments(m) \in C
  BY FragmentsType, JoinedFragments
<1>4. ss \in Seq(C)
  <2>1. msgs \in Seq(Message) /\ \A i \in DOMAIN msgs : msgs[i] \in Messages
    BY OutputsAssumption DEF Messages, Range
  <2>2. DOMAIN msgs = 1..Len(msgs) /\ Len(msgs) \in Nat
    BY <2>1
  <2> HIDE DEF C
  <2>3. \A i \in 1..Len(msgs) : Fragments(msgs[i]) \in C
    BY <1>3, <2>1, <2>2
  <2> QED
    BY <2>2, <2>3
<1> HIDE DEF C
<1>5. FlattenSeq(ss) \in C
  BY <1>1, <1>2, <1>4, FlattenIn
<1> QED
  BY <1>5 DEF C, Encode

-----------------------------------------------------------------------------
(* The types, with sequences for what TypeOK gives the elements of. *)

LogEntry == [seq : Nat, entry : Seq(Fragment)]

TypeInv ==
  /\ TypeOK
  /\ output \in Seq(Fragment) /\ written \in Seq(Fragment)
  /\ decoder \in Seq(Fragment) /\ partialBuffer \in Seq(Fragment)
  /\ received \in Seq(LogEntry)

LEMMA Chunk ==
  ASSUME NEW S, NEW s \in Seq(S), NEW n \in 1..Len(s)
  PROVE  /\ SubSeq(s, 1, n) \in Seq(S) /\ SubSeq(s, n + 1, Len(s)) \in Seq(S)
         /\ s = SubSeq(s, 1, n) \o SubSeq(s, n + 1, Len(s))
  OBVIOUS

LEMMA Message1 ==
  ASSUME TypeInv, HasMessage
  PROVE  LET m    == decoder[1].of
             rest == SubSeq(decoder, m.size + 1, Len(decoder))
         IN /\ m \in Messages /\ Fragments(m) \in Seq(Fragment) /\ rest \in Seq(Fragment)
            /\ decoder = Fragments(m) \o rest
<1> DEFINE m    == decoder[1].of
           b    == Fragments(m)
           rest == SubSeq(decoder, m.size + 1, Len(decoder))
<1>1. decoder \in Seq(Fragment) /\ decoder # <<>>
  BY DEF TypeInv, HasMessage
<1>2. decoder[1] \in Fragment
  BY <1>1, EmptySeq
<1>3. m \in Messages
  BY <1>2, FragmentType
<1>4. m.size \in Nat \ {0} /\ b \in Seq(Fragment) /\ Len(b) = m.size
  BY <1>3, FragmentsType
<1>5. Len(b) <= Len(decoder) /\ SubSeq(b, 1, Len(b)) = SubSeq(decoder, 1, Len(b))
  BY DEF HasMessage, IsPrefix
<1> HIDE DEF b, m
<1>6. m.size \in 1..Len(decoder)
  BY <1>1, <1>4, <1>5
<1>7. rest \in Seq(Fragment) /\ decoder = SubSeq(decoder, 1, m.size) \o rest
  BY <1>1, <1>6, Chunk
<1>8. SubSeq(b, 1, Len(b)) = b
  BY <1>4
<1>9. decoder = b \o rest
  BY <1>4, <1>5, <1>7, <1>8
<1> HIDE DEF rest
<1> QED
  BY <1>3, <1>4, <1>7, <1>9, Zenon DEF b, m, rest

LEMMA PublishType ==
  ASSUME TypeInv
  PROVE  \A entry \in Seq(Fragment) : PublishBuildLogEntry(entry) =>
           /\ logSequenceNum' \in Nat /\ received' \in Seq(LogEntry)
           /\ step' \in {step, "await", "fatal"}
<1> SUFFICES ASSUME NEW entry \in Seq(Fragment), PublishBuildLogEntry(entry)
             PROVE  /\ logSequenceNum' \in Nat /\ received' \in Seq(LogEntry)
                    /\ step' \in {step, "await", "fatal"}
  OBVIOUS
<1>1. [seq |-> EntryNumber, entry |-> entry] \in LogEntry /\ EntryNumber \in Nat
  BY DEF TypeInv, TypeOK, EntryNumber, LogEntry
<1>2. received \in Seq(LogEntry) /\ logSequenceNum \in Nat
  BY DEF TypeInv, TypeOK
<1>3. Append(received, [seq |-> EntryNumber, entry |-> entry]) \in Seq(LogEntry)
  BY <1>1, <1>2
<1> QED
  BY <1>1, <1>2, <1>3, Zenon DEF PublishBuildLogEntry

LEMMA InitType == Init => TypeInv
<1> SUFFICES ASSUME Init PROVE TypeInv
  OBVIOUS
<1>1. <<>> \in Seq(Fragment) /\ <<>> \in Seq(LogEntry)
  OBVIOUS
<1>2. Range(<<>>) \subseteq Fragment
  BY <1>1, RangeOfSeq
<1>3. /\ output = <<>> /\ written = <<>> /\ decoder = <<>> /\ partialBuffer = <<>>
      /\ received = <<>>
  BY DEF Init
<1>4. TypeOK
  <2>1. /\ runtime \in {"docker", "podman"} /\ requests \in 0..MaxRequests
        /\ busy \in BOOLEAN /\ step \in {"idle", "decode", "await", "fatal"}
        /\ errResponse = Nil /\ logStream \in {"open", "over"} /\ logSequenceNum \in Nat
        /\ start = 0
    <3>1. requests = 0 /\ 0 \in 0..MaxRequests
      BY MaxRequestsAssumption DEF Init
    <3>2. busy = FALSE
      BY DEF Init
    <3>3. /\ runtime \in {"docker", "podman"} /\ step = "idle" /\ errResponse = Nil
          /\ logStream = "open" /\ logSequenceNum = 0 /\ start = 0
      BY DEF Init
    <3> QED
      BY <3>1, <3>2, <3>3
  <2>2. start \in 0..Len(written)
    BY <1>3, <2>1
  <2>3. \A s \in {output, decoder, partialBuffer, written} : Range(s) \subseteq Fragment
    BY <1>2, <1>3
  <2> QED
    BY <1>3, <2>1, <2>2, <2>3, Zenon DEF TypeOK
<1> QED
  BY <1>1, <1>3, <1>4 DEF TypeInv

LEMMA TypePreserved == ASSUME TypeInv, [Next]_vars PROVE TypeInv'
<1>1. /\ runtime \in {"docker", "podman"} /\ requests \in 0..MaxRequests
      /\ busy \in BOOLEAN /\ step \in {"idle", "decode", "await", "fatal"}
      /\ errResponse # Nil => errResponse.error
      /\ logStream \in {"open", "over"} /\ logSequenceNum \in Nat
      /\ partialBuffer # <<>> => Len(partialBuffer) < partialBuffer[1].of.size
      /\ start \in 0..Len(written)
      /\ output \in Seq(Fragment) /\ written \in Seq(Fragment)
      /\ decoder \in Seq(Fragment) /\ partialBuffer \in Seq(Fragment)
      /\ received \in Seq(LogEntry)
  BY DEF TypeInv, TypeOK
<1>2. SUFFICES /\ runtime' \in {"docker", "podman"} /\ requests' \in 0..MaxRequests
               /\ busy' \in BOOLEAN /\ step' \in {"idle", "decode", "await", "fatal"}
               /\ errResponse' # Nil => errResponse'.error
               /\ logStream' \in {"open", "over"} /\ logSequenceNum' \in Nat
               /\ partialBuffer' # <<>> => Len(partialBuffer') < partialBuffer'[1].of.size
               /\ start' \in 0..Len(written')
               /\ output' \in Seq(Fragment) /\ written' \in Seq(Fragment)
               /\ decoder' \in Seq(Fragment) /\ partialBuffer' \in Seq(Fragment)
               /\ received' \in Seq(LogEntry)
  BY RangeOfSeq DEF TypeInv, TypeOK
<1>3. Len(written) \in 0..Len(written)
  BY <1>1
<1>4. CASE BeginRequest
  <2>1. output' \in Seq(Fragment)
    BY <1>4, EncodeWhole DEF BeginRequest
  <2>2. requests' \in 0..MaxRequests
    BY <1>1, <1>4, MaxRequestsAssumption DEF BeginRequest
  <2> QED
    BY <1>1, <1>3, <1>4, <2>1, <2>2 DEF BeginRequest, ResetError
<1>5. CASE ErrResponse
  <2>1. <<>> \in Seq(Fragment)
    OBVIOUS
  <2>2. output' = <<>> /\ busy' = FALSE /\ errResponse' = Nil
    BY <1>5 DEF ErrResponse, ResetError
  <2>3. UNCHANGED <<runtime, requests, step, decoder, partialBuffer, logStream,
                    logSequenceNum, received, written, start>>
    BY <1>5 DEF ErrResponse
  <2> QED
    BY <1>1, <2>1, <2>2, <2>3
<1>6. CASE ManagerAnswers \/ RecvEnd \/ LogStreamEnds
  BY <1>1, <1>6 DEF ManagerAnswers, RecvEnd, Recv, AfterRecv, LogStreamEnds
<1>7. CASE Write
  <2>1. PICK n \in 1..Len(output) :
          /\ decoder' = partialBuffer \o SubSeq(output, 1, n)
          /\ written' = written \o SubSeq(output, 1, n)
          /\ output' = SubSeq(output, n + 1, Len(output))
    BY <1>7 DEF Write, GetAndEmpty
  <2>2. SubSeq(output, 1, n) \in Seq(Fragment) /\ output' \in Seq(Fragment)
    BY <1>1, <2>1, Chunk
  <2>3. decoder' \in Seq(Fragment) /\ written' \in Seq(Fragment) /\ Len(written) <= Len(written')
    BY <1>1, <2>1, <2>2, Longer
  <2>4. start \in 0..Len(written')
    BY <1>1, <2>3
  <2> QED
    BY <1>1, <1>7, <2>2, <2>3, <2>4 DEF Write
<1>8. CASE DecodeEOF \/ DecodeIncomplete \/ DecodeFatal
  <2>1. <<>> \in Seq(Fragment)
    OBVIOUS
  <2>2. CASE DecodeEOF \/ DecodeFatal
    BY <1>1, <2>2 DEF DecodeEOF, DecodeFatal
  <2>3. CASE DecodeIncomplete
    <3>1. /\ partialBuffer' = decoder /\ decoder' = <<>>
          /\ Len(partialBuffer') < partialBuffer'[1].of.size
      BY <1>1, <2>3, PartFacts DEF DecodeIncomplete, Incomplete, Part
    <3> QED
      BY <1>1, <2>1, <2>3, <3>1 DEF DecodeIncomplete
  <2> QED
    BY <1>8, <2>2, <2>3
<1>9. CASE DecodeMessage
  <2> DEFINE m == decoder[1].of
  <2>1. HasMessage /\ decoder' \in Seq(Fragment) /\ Fragments(m) \in Seq(Fragment)
    BY <1>9, Message1 DEF DecodeMessage
  <2>2. /\ step' \in {step, "await", "fatal"}
        /\ logSequenceNum' \in Nat /\ received' \in Seq(LogEntry)
    <3>1. CASE PublishBuildLogEntry(Fragments(m))
      BY <2>1, <3>1, PublishType
    <3>2. CASE UNCHANGED <<step, logSequenceNum, received>>
      BY <1>1, <3>2
    <3> QED
      BY <1>9, <3>1, <3>2 DEF DecodeMessage
  <2>3. errResponse' # Nil => errResponse'.error
    BY <1>1, <1>9 DEF DecodeMessage
  <2> QED
    BY <1>1, <1>9, <2>1, <2>2, <2>3 DEF DecodeMessage
<1>10. CASE PodmanWrite
  <2>1. PICK n \in 1..Len(output) :
          /\ PublishBuildLogEntry(SubSeq(output, 1, n))
          /\ written' = written \o SubSeq(output, 1, n)
          /\ output' = SubSeq(output, n + 1, Len(output))
    BY <1>10 DEF PodmanWrite
  <2>2. SubSeq(output, 1, n) \in Seq(Fragment) /\ output' \in Seq(Fragment)
    BY <1>1, <2>1, Chunk
  <2>3. written' \in Seq(Fragment) /\ Len(written) <= Len(written')
    BY <1>1, <2>1, <2>2, Longer
  <2>4. /\ step' \in {step, "await", "fatal"}
        /\ logSequenceNum' \in Nat /\ received' \in Seq(LogEntry)
    BY <2>1, <2>2, PublishType, Zenon
  <2>5. start \in 0..Len(written')
    BY <1>1, <2>3
  <2> QED
    BY <1>1, <1>10, <2>2, <2>3, <2>4, <2>5 DEF PodmanWrite
<1>11. CASE Terminated \/ UNCHANGED vars
  BY <1>1, <1>11 DEF Terminated, vars
<1> QED
  BY <1>4, <1>5, <1>6, <1>7, <1>8, <1>9, <1>10, <1>11 DEF Next

-----------------------------------------------------------------------------
(* The inductive invariant. *)

(* Podman's writer keeps nothing.  Docker's keeps the start of one message *)
(* from one call to the next, and nothing is left to decode then.  Between *)
(* two requests nothing is written, and the error was taken.               *)
StepInv ==
  /\ runtime = "podman" => decoder = <<>> /\ partialBuffer = <<>> /\ step # "decode"
  /\ step = "idle" => decoder = <<>>
  /\ step # "idle" => partialBuffer = <<>> /\ busy
  /\ ~busy => errResponse = Nil
  /\ partialBuffer # <<>> => Part(partialBuffer)

(* Requests write whole messages, unless they are cut short. *)
WholeInv == Joined(written \o output)

Pending == partialBuffer \o decoder

(* How long the message is that comes next. *)
NextSize == IF Pending = <<>> THEN 1 ELSE Pending[1].of.size

(* Where the errors of the current request end. *)
Ends(s) == EndsAfter(start, s)

LastError(s) ==
  IF Ends(s) = {} THEN errResponse = Nil
  ELSE \E i \in Ends(s) : (\A j \in Ends(s) : j <= i) /\ errResponse = s[i].of

(* What is done with of all that was written: it ends a message, the last  *)
(* error of this request in it is remembered, and the manager was shown    *)
(* the rest.  The message that comes next ends in this request.            *)
DoneWith(done) ==
  /\ written = done \o Pending
  /\ runtime = "docker" => /\ done # <<>> => IsLast(done[Len(done)])
                           /\ start < Len(done) + NextSize
                           /\ busy => LastError(done)
  /\ step # "fatal" /\ logStream = "open" => Logged(runtime, done) = Logged(runtime, Shown)

DoneInv == \E done \in Seq(Fragment) : DoneWith(done)

IInv == TypeInv /\ StepInv /\ WholeInv /\ DoneInv /\ LogNumbersContiguous

LEMMA TypeFacts ==
  ASSUME TypeInv
  PROVE  /\ runtime \in {"docker", "podman"}
         /\ busy \in BOOLEAN /\ step \in {"idle", "decode", "await", "fatal"}
         /\ logStream \in {"open", "over"} /\ logSequenceNum \in Nat
         /\ start \in 0..Len(written)
         /\ output \in Seq(Fragment) /\ written \in Seq(Fragment)
         /\ decoder \in Seq(Fragment) /\ partialBuffer \in Seq(Fragment)
         /\ received \in Seq(LogEntry)
  BY DEF TypeInv, TypeOK

LEMMA StepPreserved == ASSUME IInv, [Next]_vars PROVE StepInv'
<1> USE TypeFacts DEF IInv, StepInv
<1>1. CASE BeginRequest \/ ErrResponse
  BY <1>1 DEF BeginRequest, ErrResponse, ResetError
<1>2. CASE ManagerAnswers \/ RecvEnd \/ LogStreamEnds
  BY <1>2 DEF ManagerAnswers, RecvEnd, Recv, AfterRecv, LogStreamEnds
<1>3. CASE Write
  BY <1>3 DEF Write
<1>4. CASE DecodeEOF \/ DecodeFatal
  BY <1>4 DEF DecodeEOF, DecodeFatal
<1>5. CASE DecodeIncomplete
  BY <1>5 DEF DecodeIncomplete, Incomplete, Part
<1>6. CASE DecodeMessage
  <2>1. step = "decode" /\ step' \in {step, "await", "fatal"}
    BY <1>6 DEF DecodeMessage, PublishBuildLogEntry
  <2>2. UNCHANGED <<runtime, busy, partialBuffer>>
    BY <1>6 DEF DecodeMessage
  <2> QED
    BY <2>1, <2>2
<1>7. CASE PodmanWrite
  <2>1. /\ runtime = "podman" /\ step = "idle" /\ busy
        /\ step' \in {step, "await", "fatal"}
    BY <1>7 DEF PodmanWrite, PublishBuildLogEntry
  <2>2. UNCHANGED <<runtime, busy, decoder, partialBuffer, errResponse>>
    BY <1>7 DEF PodmanWrite
  <2> QED
    BY <2>1, <2>2
<1>8. CASE Terminated \/ UNCHANGED vars
  BY <1>8 DEF Terminated, vars
<1> QED
  BY <1>1, <1>2, <1>3, <1>4, <1>5, <1>6, <1>7, <1>8 DEF Next

(* A chunk goes from the output to what is written. *)
LEMMA WriteMoves ==
  ASSUME TypeInv, NEW n \in 1..Len(output),
         written' = written \o SubSeq(output, 1, n),
         output' = SubSeq(output, n + 1, Len(output))
  PROVE  written' \o output' = written \o output
<1> DEFINE p == SubSeq(output, 1, n)
           q == SubSeq(output, n + 1, Len(output))
<1>1. p \in Seq(Fragment) /\ q \in Seq(Fragment) /\ output = p \o q
  BY TypeFacts, Chunk
<1>2. written \in Seq(Fragment)
  BY TypeFacts
<1> HIDE DEF p, q
<1>3. (written \o p) \o q = written \o (p \o q)
  BY ONLY <1>1, <1>2, Associative
<1> QED
  BY <1>1, <1>3, Zenon DEF p, q

LEMMA WholePreserved == ASSUME IInv, [Next]_vars PROVE WholeInv'
<1>1. TypeInv /\ Joined(written \o output) /\ Joined(written)
  BY TypeFacts, JoinedPrefix DEF IInv, WholeInv
<1>2. CASE UNCHANGED <<written, output>>
  BY <1>1, <1>2 DEF WholeInv, Joined
<1>3. CASE BeginRequest
  <2>1. /\ output' \in Seq(Fragment) /\ Joined(output')
        /\ written' = written
    BY <1>3, EncodeWhole DEF BeginRequest
  <2>2. Joined(written \o output')
    BY <1>1, <2>1, TypeFacts, JoinedConcat
  <2> QED
    BY <2>1, <2>2 DEF WholeInv, Joined
<1>4. CASE ErrResponse
  <2>1. written' \o output' = written
    BY <1>1, <1>4, TypeFacts DEF ErrResponse
  <2> QED
    BY <1>1, <2>1 DEF WholeInv, Joined
<1>5. CASE Write \/ PodmanWrite
  <2>1. written' \o output' = written \o output
    BY <1>1, <1>5, WriteMoves DEF Write, PodmanWrite
  <2> QED
    BY <1>1, <2>1 DEF WholeInv, Joined
<1>6. CASE ManagerAnswers \/ RecvEnd \/ LogStreamEnds
  BY <1>2, <1>6 DEF ManagerAnswers, RecvEnd, Recv, LogStreamEnds
<1>7. CASE DecodeEOF \/ DecodeIncomplete \/ DecodeFatal \/ DecodeMessage
  BY <1>2, <1>7 DEF DecodeEOF, DecodeIncomplete, DecodeFatal, DecodeMessage
<1>8. CASE Terminated \/ UNCHANGED vars
  BY <1>2, <1>8 DEF Terminated, vars
<1> QED
  BY <1>3, <1>4, <1>5, <1>6, <1>7, <1>8 DEF Next

-----------------------------------------------------------------------------
(* What is logged of a part is a part of what is logged. *)

LEMMA LoggedIsFlat ==
  ASSUME NEW client, NEW a \in Seq(Fragment)
  PROVE  [i \in DOMAIN a |-> Kept(client, a[i])] \in Seq(Seq(Fragment))
<1>1. \A f \in Fragment : Kept(client, f) \in Seq(Fragment)
  BY DEF Kept
<1>2. DOMAIN a = 1..Len(a) /\ Len(a) \in Nat /\ \A i \in 1..Len(a) : a[i] \in Fragment
  OBVIOUS
<1>3. \A i \in 1..Len(a) : Kept(client, a[i]) \in Seq(Fragment)
  BY <1>1, <1>2
<1> QED
  BY <1>2, <1>3

LEMMA LoggedType ==
  ASSUME NEW client, NEW a \in Seq(Fragment)
  PROVE  Logged(client, a) \in Seq(Fragment)
  BY LoggedIsFlat, FlattenType DEF Logged

LEMMA LoggedConcat ==
  ASSUME NEW client, NEW a \in Seq(Fragment), NEW b \in Seq(Fragment)
  PROVE  Logged(client, a \o b) = Logged(client, a) \o Logged(client, b)
<1> DEFINE K(s) == [i \in DOMAIN s |-> Kept(client, s[i])]
<1>1. K(a) \in Seq(Seq(Fragment)) /\ K(b) \in Seq(Seq(Fragment))
  BY LoggedIsFlat
<1>2. K(a \o b) = K(a) \o K(b)
  <2>1. /\ Len(a) \in Nat /\ Len(b) \in Nat
        /\ DOMAIN a = 1..Len(a) /\ DOMAIN b = 1..Len(b)
        /\ DOMAIN (a \o b) = 1..(Len(a) + Len(b))
        /\ \A i \in 1..Len(a) : (a \o b)[i] = a[i]
        /\ \A i \in (Len(a) + 1)..(Len(a) + Len(b)) : (a \o b)[i] = b[i - Len(a)]
    OBVIOUS
  <2>2. Len(K(a)) = Len(a) /\ Len(K(b)) = Len(b)
    BY <2>1
  <2> QED
    BY <2>1, <2>2
<1> HIDE DEF K
<1>3. FlattenSeq(K(a) \o K(b)) = FlattenSeq(K(a)) \o FlattenSeq(K(b))
  BY <1>1, FlattenConcat
<1> QED
  BY <1>2, <1>3, Zenon DEF Logged, K

(* An entry of the log adds to what is shown. *)
LEMMA ShownIsFlat ==
  ASSUME TypeInv
  PROVE  [i \in DOMAIN received |-> received[i].entry] \in Seq(Seq(Fragment))
<1>1. received \in Seq(LogEntry)
  BY TypeFacts
<1>2. \A e \in LogEntry : e.entry \in Seq(Fragment)
  BY DEF LogEntry
<1>3. /\ DOMAIN received = 1..Len(received) /\ Len(received) \in Nat
      /\ \A i \in 1..Len(received) : received[i] \in LogEntry
  BY <1>1
<1>4. \A i \in 1..Len(received) : received[i].entry \in Seq(Fragment)
  BY <1>2, <1>3
<1> QED
  BY <1>3, <1>4

LEMMA ShownType == ASSUME TypeInv PROVE Shown \in Seq(Fragment)
  BY ShownIsFlat, FlattenType DEF Shown

LEMMA ShownAppend ==
  ASSUME TypeInv
  PROVE  \A e \in LogEntry : received' = Append(received, e) => Shown' = Shown \o e.entry
<1> SUFFICES ASSUME NEW e \in LogEntry, received' = Append(received, e)
             PROVE  Shown' = Shown \o e.entry
  OBVIOUS
<1> DEFINE ss == [i \in DOMAIN received |-> received[i].entry]
           tt == [i \in DOMAIN received' |-> received'[i].entry]
<1>1. received \in Seq(LogEntry)
  BY TypeFacts
<1>2. ss \in Seq(Seq(Fragment)) /\ e.entry \in Seq(Fragment)
  BY ShownIsFlat DEF LogEntry
<1>3. tt = Append(ss, e.entry)
  <2>1. /\ Len(received) \in Nat /\ DOMAIN received = 1..Len(received)
        /\ DOMAIN received' = 1..(Len(received) + 1)
        /\ \A i \in 1..Len(received) : received'[i] = received[i]
        /\ received'[Len(received) + 1] = e
    BY <1>1
  <2>2. Len(ss) = Len(received)
    BY <2>1
  <2> QED
    BY <2>1, <2>2
<1> HIDE DEF ss, tt
<1>4. FlattenSeq(tt) = FlattenSeq(ss) \o e.entry
  BY <1>2, <1>3, FlattenAppend
<1> QED
  BY <1>4, Zenon DEF Shown, ss, tt

-----------------------------------------------------------------------------
(* What is done grows by one message, or by one of podman's chunks. *)

LEMMA DoneFacts ==
  ASSUME IInv, NEW done \in Seq(Fragment), DoneWith(done)
  PROVE  /\ written = done \o Pending /\ Pending \in Seq(Fragment)
         /\ Len(done) \in Nat /\ Len(written) = Len(done) + Len(Pending)
         /\ partialBuffer = <<>> => Pending = decoder
         /\ decoder = <<>> => Pending = partialBuffer
<1>1. /\ decoder \in Seq(Fragment) /\ partialBuffer \in Seq(Fragment)
  BY TypeFacts DEF IInv
<1>2. Pending \in Seq(Fragment) /\ Len(done) \in Nat
  BY <1>1 DEF Pending
<1>3. partialBuffer = <<>> => Pending = decoder
  BY <1>1 DEF Pending
<1>4. decoder = <<>> => Pending = partialBuffer
  BY <1>1 DEF Pending
<1>5. written = done \o Pending
  BY DEF DoneWith
<1>6. Len(written) = Len(done) + Len(Pending)
  BY <1>2, <1>5
<1> QED
  BY <1>1, <1>2, <1>3, <1>4, <1>5, <1>6

(* Steps that neither write nor decode. *)
LEMMA DoneSame ==
  ASSUME NEW done, DoneWith(done),
         UNCHANGED <<runtime, busy, written, start, errResponse, received>>,
         Pending' = Pending, step # "fatal" \/ step' = "fatal",
         logStream' \in {logStream, "over"}
  PROVE  DoneWith(done)'
<1>1. LastError(done)' <=> LastError(done)
  BY DEF LastError, Ends, EndsAfter
<1>2. Shown' = Shown /\ NextSize' = NextSize
  BY DEF Shown, NextSize
<1>3. logStream' = "open" => logStream = "open"
  OBVIOUS
<1> QED
  BY <1>1, <1>2, <1>3 DEF DoneWith

(* A new request starts inside the message that comes next, if it was cut  *)
(* short: no error ends in what is done from then on.                      *)
LEMMA DoneBegin ==
  ASSUME IInv, NEW done \in Seq(Fragment), DoneWith(done), BeginRequest
  PROVE  DoneWith(done)'
<1>1. /\ step = "idle" /\ ~busy /\ start' = Len(written)
      /\ errResponse' = Nil \/ errResponse' = errResponse
      /\ UNCHANGED <<runtime, written, received, step, logStream, decoder, partialBuffer>>
  BY DEF BeginRequest, ResetError
<1>2. Pending' = Pending /\ Shown' = Shown /\ NextSize' = NextSize
  BY <1>1 DEF Pending, Shown, NextSize
<1>3. errResponse' = Nil
  BY <1>1 DEF IInv, StepInv
<1>4. /\ Pending = partialBuffer /\ Pending \in Seq(Fragment)
      /\ Len(done) \in Nat /\ Len(written) = Len(done) + Len(Pending)
  BY <1>1, DoneFacts DEF IInv, StepInv
<1>5. Len(Pending) \in Nat /\ Len(Pending) < NextSize
  <2>1. CASE Pending = <<>>
    BY <2>1 DEF NextSize
  <2>2. CASE Pending # <<>>
    <3>1. Part(Pending)
      BY <1>4, <2>2 DEF IInv, StepInv
    <3>2. Len(Pending) \in Nat /\ Len(Pending) < Pending[1].of.size
      BY <1>4, <2>2, <3>1, PartFacts
    <3> QED
      BY <2>2, <3>2 DEF NextSize
  <2> QED
    BY <2>1, <2>2
<1>6. NextSize \in Nat
  <2>1. Pending # <<>> => Pending[1] \in Fragment
    BY <1>4, EmptySeq
  <2> QED
    BY <2>1, FragmentType DEF NextSize
<1>7. start' < Len(done) + NextSize' /\ Len(done) <= start' /\ start' \in Nat
  BY <1>1, <1>2, <1>4, <1>5, <1>6
<1>8. Ends(done)' = {}
  BY <1>4, <1>7 DEF Ends, EndsAfter
<1>9. LastError(done)'
  BY <1>3, <1>8 DEF LastError
<1> QED
  BY <1>1, <1>2, <1>7, <1>9 DEF DoneWith

LEMMA DoneEnd ==
  ASSUME IInv, NEW done \in Seq(Fragment), DoneWith(done), ErrResponse
  PROVE  DoneWith(done)'
<1>1. /\ ~busy'
      /\ UNCHANGED <<runtime, start, written, received, step, logStream, decoder, partialBuffer>>
  BY DEF ErrResponse
<1>2. Pending' = Pending /\ Shown' = Shown /\ NextSize' = NextSize
  BY <1>1 DEF Pending, Shown, NextSize
<1> QED
  BY <1>1, <1>2 DEF DoneWith

LEMMA DoneWrite ==
  ASSUME IInv, NEW done \in Seq(Fragment), DoneWith(done), Write
  PROVE  DoneWith(done)'
<1>1. PICK n \in 1..Len(output) :
        /\ decoder' = partialBuffer \o SubSeq(output, 1, n)
        /\ written' = written \o SubSeq(output, 1, n)
  BY DEF Write, GetAndEmpty
<1> DEFINE p == SubSeq(output, 1, n)
<1>2. p \in Seq(Fragment)
  BY TypeFacts, Chunk DEF IInv
<1>3. /\ partialBuffer \in Seq(Fragment) /\ decoder = <<>> /\ Pending = partialBuffer
  BY TypeFacts, DoneFacts DEF IInv, StepInv, Write
<1> HIDE DEF p
<1>4. Pending' = partialBuffer \o p
  <2>1. partialBuffer \o p \in Seq(Fragment)
    BY <1>2, <1>3
  <2>2. <<>> \o (partialBuffer \o p) = partialBuffer \o p
    BY <2>1
  <2>3. partialBuffer' = <<>> /\ decoder' = partialBuffer \o p
    BY <1>1 DEF Write, p
  <2> QED
    BY <2>2, <2>3, Zenon DEF Pending
<1>5. written' = done \o Pending'
  <2>1. written' = (done \o partialBuffer) \o p
    BY <1>1, <1>3, Zenon DEF DoneWith, p
  <2>2. (done \o partialBuffer) \o p = done \o (partialBuffer \o p)
    BY ONLY <1>2, <1>3, done \in Seq(Fragment), Associative
  <2> QED
    BY <1>4, <2>1, <2>2, Zenon
<1>6. LastError(done)' <=> LastError(done)
  BY DEF LastError, Ends, EndsAfter, Write
<1>7. Shown' = Shown /\ step # "fatal" /\ logStream' = logStream
  BY DEF Shown, Write
<1>8. start < Len(done) + NextSize => start < Len(done) + NextSize'
  <2>1. CASE Pending # <<>>
    <3>1. Pending' # <<>> /\ Pending'[1] = Pending[1]
      <4>1. Len(Pending) \in Nat \ {0} /\ Pending \in Seq(Fragment)
        BY <1>3, <2>1, EmptySeq
      <4>2. Pending' = Pending \o p
        BY <1>3, <1>4
      <4> QED
        BY <1>2, <4>1, <4>2, EmptySeq, ConcatFacts
    <3> QED
      BY <2>1, <3>1 DEF NextSize
  <2>2. CASE Pending = <<>>
    <3>1. NextSize = 1 /\ start \in Nat /\ Len(done) \in Nat
      BY <2>2, TypeFacts DEF NextSize, IInv
    <3>2. NextSize' \in Nat \ {0}
      <4>1. Pending' \in Seq(Fragment)
        BY <1>2, <1>3, <1>4, ConcatFacts
      <4>2. \A q \in Seq(Fragment) : q # <<>> => q[1].of.size \in Nat \ {0}
        BY FragmentType, EmptySeq
      <4> QED
        BY <4>1, <4>2 DEF NextSize
    <3> QED
      BY <3>1, <3>2
  <2> QED
    BY <2>1, <2>2
<1>9. UNCHANGED <<runtime, busy, start>>
  BY DEF Write
<1> QED
  BY <1>5, <1>6, <1>7, <1>8, <1>9 DEF DoneWith

LEMMA DonePodman ==
  ASSUME IInv, NEW done \in Seq(Fragment), DoneWith(done), PodmanWrite
  PROVE  DoneInv'
<1>1. PICK n \in 1..Len(output) :
        /\ PublishBuildLogEntry(SubSeq(output, 1, n))
        /\ written' = written \o SubSeq(output, 1, n)
  BY DEF PodmanWrite
<1> DEFINE p == SubSeq(output, 1, n)
<1>2. p \in Seq(Fragment) /\ written \in Seq(Fragment)
  BY TypeFacts, Chunk DEF IInv
<1>3. /\ runtime = "podman" /\ decoder = <<>> /\ partialBuffer = <<>> /\ Pending = <<>>
      /\ written = done
  <2>1. runtime = "podman" /\ decoder = <<>> /\ partialBuffer = <<>>
    BY DEF PodmanWrite, IInv, StepInv
  <2>2. Pending = <<>>
    BY <2>1, DoneFacts
  <2> QED
    BY <2>1, <2>2 DEF DoneWith
<1> HIDE DEF p
<1>4. Pending' = <<>> /\ runtime' = runtime
  BY <1>3 DEF Pending, PodmanWrite
<1>5. PICK all \in Seq(Fragment) : all = done \o p
  <2>1. done \o p \in Seq(Fragment)
    BY ONLY <1>2, done \in Seq(Fragment), ConcatFacts
  <2> QED
    BY <2>1, Zenon
<1>6. written' = all /\ all \o <<>> = all
  BY <1>1, <1>2, <1>3, <1>5 DEF p
<1>7. ASSUME step' # "fatal", logStream' = "open"
      PROVE  Logged(runtime, all) = Logged(runtime, Shown')
  <2>1. logStream = "open" /\ step = "idle"
    BY <1>7 DEF PodmanWrite
  <2>2. /\ [seq |-> EntryNumber, entry |-> p] \in LogEntry
        /\ received' = Append(received, [seq |-> EntryNumber, entry |-> p])
    BY <1>1, <1>2, <1>7, <2>1, TypeFacts
       DEF PublishBuildLogEntry, p, LogEntry, EntryNumber, IInv
  <2>3. Shown' = Shown \o p /\ Shown \in Seq(Fragment)
    BY <2>2, ShownAppend, ShownType DEF IInv
  <2>4. Logged(runtime, done) = Logged(runtime, Shown)
    BY <2>1 DEF DoneWith
  <2>5. /\ Logged(runtime, done \o p) = Logged(runtime, done) \o Logged(runtime, p)
        /\ Logged(runtime, Shown \o p) = Logged(runtime, Shown) \o Logged(runtime, p)
    BY <1>2, <2>3, LoggedConcat
  <2> QED
    BY <1>5, <2>3, <2>4, <2>5, Zenon
<1>8. DoneWith(all)'
  BY <1>3, <1>4, <1>6, <1>7 DEF DoneWith
<1> QED
  BY <1>8 DEF DoneInv

(* Nothing of an error is logged. *)
LEMMA ErrorsHeldBack ==
  ASSUME NEW m \in Messages, m.error
  PROVE  Logged("docker", Fragments(m)) = <<>>
<1> DEFINE b  == Fragments(m)
           C  == {<<>>}
           ss == [i \in DOMAIN b |-> Kept("docker", b[i])]
<1>1. /\ b \in Seq(Fragment) /\ Len(b) \in Nat /\ DOMAIN b = 1..Len(b) /\ Len(b) = m.size
      /\ \A i \in 1..m.size : b[i] = [of |-> m, part |-> i]
  BY FragmentsType
<1> HIDE DEF b
<1>2. \A i \in 1..Len(b) : Kept("docker", b[i]) \in {<<>>}
  <2>1. ASSUME NEW i \in 1..Len(b) PROVE Kept("docker", b[i]) = <<>>
    <3>1. b[i] = [of |-> m, part |-> i]
      BY <1>1, Zenon
    <3>2. b[i].of = m
      BY <3>1
    <3> QED
      BY <3>2 DEF Kept
  <2> QED
    BY <2>1
<1>3. ss \in Seq(C)
  BY <1>1, <1>2
<1>4. C \subseteq Seq(Fragment) /\ <<>> \in C /\ \A x, y \in C : x \o y \in C
  OBVIOUS
<1> HIDE DEF C, ss
<1>5. FlattenSeq(ss) \in C
  BY <1>3, <1>4, FlattenIn
<1> QED
  BY <1>5, Zenon DEF C, ss, b, Logged

(* A message after what is done with. *)
LEMMA DoneAndMessage ==
  ASSUME NEW done \in Seq(Fragment), NEW m \in Messages,
         NEW all \in Seq(Fragment), all = done \o Fragments(m)
  PROVE  /\ Len(done) \in Nat /\ m.size \in Nat \ {0} /\ Len(all) = Len(done) + m.size
         /\ \A i \in 1..Len(done) : all[i] = done[i]
         /\ \A i \in 1..Len(all) : i > Len(done) => all[i].of = m
         /\ all # <<>> /\ IsLast(all[Len(all)])
<1> DEFINE b == Fragments(m)
<1>1. /\ m.size \in Nat \ {0} /\ b \in Seq(Fragment) /\ Len(b) = m.size
      /\ \A i \in 1..m.size : b[i] = [of |-> m, part |-> i]
  BY FragmentsType
<1> HIDE DEF b
<1>2. all = done \o b
  BY DEF b
<1>3. /\ Len(done) \in Nat /\ Len(all) = Len(done) + Len(b)
      /\ \A i \in 1..Len(done) : all[i] = done[i]
      /\ \A i \in 1..Len(b) : all[Len(done) + i] = b[i]
  <2>1. LET c == done \o b
        IN /\ Len(done) \in Nat /\ Len(c) = Len(done) + Len(b)
           /\ \A i \in 1..Len(done) : c[i] = done[i]
           /\ \A i \in 1..Len(b) : c[Len(done) + i] = b[i]
    BY <1>1, ConcatFacts, Zenon
  <2> QED
    BY <1>2, <2>1, Zenon
<1>4. ASSUME NEW i \in (Len(done) + 1)..Len(all)
      PROVE  all[i] = [of |-> m, part |-> i - Len(done)]
  <2>1. i - Len(done) \in 1..m.size /\ Len(done) + (i - Len(done)) = i
    BY <1>1, <1>3
  <2>2. all[Len(done) + (i - Len(done))] = b[i - Len(done)]
    BY <1>1, <1>3, <2>1, Zenon
  <2>3. b[i - Len(done)] = [of |-> m, part |-> i - Len(done)]
    BY <1>1, <2>1, Zenon
  <2> QED
    BY <2>1, <2>2, <2>3, Zenon
<1>5. /\ Len(all) \in (Len(done) + 1)..Len(all) /\ Len(all) - Len(done) = m.size
  BY <1>1, <1>3
<1>6. all[Len(all)].of = m /\ all[Len(all)].part = m.size
  <2>1. all[Len(all)] = [of |-> m, part |-> m.size]
    BY <1>4, <1>5, Zenon
  <2> QED
    BY <2>1
<1>7. ASSUME NEW i \in 1..Len(all), i > Len(done) PROVE all[i].of = m
  <2>1. i \in (Len(done) + 1)..Len(all)
    BY <1>3, <1>7
  <2>2. all[i] = [of |-> m, part |-> i - Len(done)]
    BY <1>4, <2>1, Zenon
  <2> QED
    BY ONLY <2>2
<1>8. all # <<>>
  <2>1. Len(all) # 0
    BY <1>1, <1>3
  <2> QED
    BY <2>1, EmptySeq
<1> QED
  BY <1>1, <1>3, <1>6, <1>7, <1>8 DEF IsLast

(* The message decoded next. *)
LEMMA DoneMessage ==
  ASSUME IInv, NEW done \in Seq(Fragment), DoneWith(done), DecodeMessage
  PROVE  DoneInv'
<1> DEFINE m    == decoder[1].of
           rest == SubSeq(decoder, m.size + 1, Len(decoder))
<1>1. /\ m \in Messages /\ Fragments(m) \in Seq(Fragment) /\ rest \in Seq(Fragment)
      /\ decoder = Fragments(m) \o rest /\ decoder' = rest /\ decoder # <<>>
  BY Message1 DEF DecodeMessage, IInv, HasMessage
<1>2. /\ runtime = "docker" /\ runtime' = runtime /\ step = "decode"
      /\ partialBuffer = <<>> /\ partialBuffer' = <<>> /\ busy /\ busy' = busy
      /\ written' = written /\ start' = start /\ logStream' = logStream
  BY TypeFacts DEF DecodeMessage, IInv, StepInv
<1>3. /\ m.error \in BOOLEAN /\ m.size \in Nat \ {0}
  BY <1>1, FragmentsType
<1>4. \/ m.error /\ errResponse' = m /\ received' = received
      \/ ~m.error /\ errResponse' = errResponse /\ PublishBuildLogEntry(Fragments(m))
  BY DEF DecodeMessage, shouldSkip, TooSoon
<1>5. Pending = decoder /\ NextSize = m.size
  <2>1. Pending = decoder
    BY <1>2, DoneFacts
  <2> QED
    BY <1>1, <2>1 DEF NextSize
<1> HIDE DEF m, rest
<1>6. PICK all \in Seq(Fragment) : all = done \o Fragments(m)
  <2>1. done \o Fragments(m) \in Seq(Fragment)
    BY ONLY <1>1, done \in Seq(Fragment), ConcatFacts
  <2> QED
    BY <2>1, Zenon
<1>7. Pending' = rest
  BY <1>1, <1>2 DEF Pending
<1>8. written' = all \o Pending'
  <2>1. written' = done \o (Fragments(m) \o rest)
    BY <1>1, <1>2, <1>5, Zenon DEF DoneWith
  <2>2. (done \o Fragments(m)) \o rest = done \o (Fragments(m) \o rest)
    BY ONLY <1>1, done \in Seq(Fragment), Associative
  <2> QED
    BY <1>6, <1>7, <2>1, <2>2, Zenon
<1>9. /\ Len(done) \in Nat /\ m.size \in Nat \ {0} /\ Len(all) = Len(done) + m.size
      /\ \A i \in 1..Len(done) : all[i] = done[i]
      /\ \A i \in (Len(done) + 1)..Len(all) : all[i].of = m
      /\ all # <<>> /\ IsLast(all[Len(all)])
  <2>1. m \in Messages /\ all = done \o Fragments(m)
    BY <1>1, <1>6
  <2>2. /\ Len(done) \in Nat /\ m.size \in Nat \ {0} /\ Len(all) = Len(done) + m.size
        /\ all # <<>> /\ IsLast(all[Len(all)])
    BY ONLY <2>1, done \in Seq(Fragment), all \in Seq(Fragment), DoneAndMessage
  <2>3. \A i \in 1..Len(done) : all[i] = done[i]
    BY ONLY <2>1, done \in Seq(Fragment), all \in Seq(Fragment), DoneAndMessage
  <2>4. ASSUME NEW i \in (Len(done) + 1)..Len(all) PROVE all[i].of = m
    <3>1. i \in 1..Len(all) /\ i > Len(done)
      BY <2>2, <2>4
    <3>2. \A j \in 1..Len(all) : j > Len(done) => all[j].of = m
      BY ONLY <2>1, done \in Seq(Fragment), all \in Seq(Fragment), DoneAndMessage
    <3> QED
      BY <3>1, <3>2
  <2> QED
    BY <2>2, <2>3, <2>4
<1>10. start \in Nat /\ start < Len(all) /\ start' < Len(all) + NextSize'
  <2>1. start \in Nat /\ start < Len(done) + m.size
    BY <1>2, <1>5, TypeFacts DEF DoneWith, IInv
  <2>2. NextSize' \in Nat \ {0}
    <3>1. \A q \in Seq(Fragment) : q # <<>> => q[1].of.size \in Nat \ {0}
      BY FragmentType, EmptySeq
    <3> QED
      BY <1>1, <1>7, <3>1 DEF NextSize
  <2> QED
    BY <1>2, <1>3, <1>9, <2>1, <2>2
<1>11. LastError(all)'
  <2>1. LastError(done)
    BY <1>2 DEF DoneWith
  <2>2. CASE ~m.error
    <3>1. Ends(all)' = Ends(done)
      <4>1. \A i \in (Len(done) + 1)..Len(all) : ~(IsLast(all[i]) /\ all[i].of.error)
        BY <1>9, <2>2
      <4>2. Len(done) <= Len(all) /\ \A i \in 1..Len(done) : all[i] = done[i]
        BY <1>3, <1>9
      <4>3. EndsAfter(start, all) = EndsAfter(start, done)
        BY ONLY <1>10, <4>1, <4>2, done \in Seq(Fragment), all \in Seq(Fragment), EndsOfPrefix
      <4> QED
        BY <1>2, <4>3 DEF Ends, EndsAfter
    <3>2. errResponse' = errResponse
      BY <1>4, <2>2
    <3>3. \A i \in Ends(done) : all[i] = done[i]
      BY <1>9, <1>10 DEF Ends, EndsAfter
    <3> QED
      BY <2>1, <3>1, <3>2, <3>3 DEF LastError
  <2>3. CASE m.error
    <3>1. Len(all) \in (Len(done) + 1)..Len(all) /\ Len(all) \in (start + 1)..Len(all)
      BY <1>3, <1>9, <1>10
    <3>2. Len(all) \in Ends(all)' /\ \A j \in Ends(all)' : j <= Len(all)
      BY <1>2, <1>9, <2>3, <3>1 DEF Ends, EndsAfter
    <3>3. errResponse' = all[Len(all)].of
      BY <1>4, <1>9, <2>3, <3>1
    <3> QED
      BY <3>2, <3>3 DEF LastError
  <2> QED
    BY <1>3, <2>2, <2>3
<1>12. ASSUME step' # "fatal", logStream' = "open"
       PROVE  Logged(runtime, all) = Logged(runtime, Shown')
  <2>1. Logged(runtime, done) = Logged(runtime, Shown) /\ Shown \in Seq(Fragment)
    BY <1>2, <1>12, ShownType DEF DoneWith, IInv
  <2>2. /\ Logged(runtime, all) = Logged(runtime, done) \o Logged(runtime, Fragments(m))
        /\ Logged(runtime, Shown \o Fragments(m))
             = Logged(runtime, Shown) \o Logged(runtime, Fragments(m))
    BY <1>1, <1>6, <2>1, LoggedConcat
  <2>3. CASE m.error
    <3>1. Shown' = Shown
      BY <1>4, <2>3 DEF Shown
    <3>2. Logged(runtime, Fragments(m)) = <<>>
      BY <1>1, <1>2, <2>3, ErrorsHeldBack
    <3>3. Logged(runtime, done) \o <<>> = Logged(runtime, done)
      BY LoggedType
    <3> QED
      BY <2>1, <2>2, <3>1, <3>2, <3>3, Zenon
  <2>4. CASE ~m.error
    <3>1. /\ [seq |-> EntryNumber, entry |-> Fragments(m)] \in LogEntry
          /\ received' = Append(received, [seq |-> EntryNumber, entry |-> Fragments(m)])
      BY <1>1, <1>2, <1>4, <1>12, <2>4, TypeFacts
         DEF PublishBuildLogEntry, LogEntry, EntryNumber, IInv
    <3>2. Shown' = Shown \o Fragments(m)
      BY <3>1, ShownAppend DEF IInv
    <3> QED
      BY <2>1, <2>2, <3>2, Zenon
  <2> QED
    BY <1>3, <2>3, <2>4
<1>13. DoneWith(all)'
  BY <1>2, <1>8, <1>9, <1>10, <1>11, <1>12 DEF DoneWith
<1> QED
  BY <1>13 DEF DoneInv

LEMMA DonePreserved == ASSUME IInv, [Next]_vars PROVE DoneInv'
<1>1. PICK done \in Seq(Fragment) : DoneWith(done)
  BY DEF IInv, DoneInv
<1>2. ASSUME DoneWith(done)' PROVE DoneInv'
  BY <1>2 DEF DoneInv
<1>3. CASE BeginRequest \/ ErrResponse
  BY <1>1, <1>2, <1>3, DoneBegin, DoneEnd
<1>4. CASE Write
  BY <1>1, <1>2, <1>4, DoneWrite
<1>5. CASE DecodeIncomplete
  <2>1. /\ Pending' = decoder \o <<>> /\ Pending = <<>> \o decoder
        /\ decoder \in Seq(Fragment)
    BY <1>5, TypeFacts DEF DecodeIncomplete, Pending, IInv, StepInv
  <2>2. Pending' = Pending
    BY <2>1
  <2> QED
    BY <1>1, <1>2, <1>5, <2>2, DoneSame DEF DecodeIncomplete
<1>6. CASE DecodeMessage
  BY <1>1, <1>6, DoneMessage
<1>7. CASE PodmanWrite
  BY <1>1, <1>7, DonePodman
<1>8. ASSUME UNCHANGED <<runtime, busy, written, start, errResponse, received>>,
             UNCHANGED <<decoder, partialBuffer>>,
             step # "fatal" \/ step' = "fatal", logStream' \in {logStream, "over"}
      PROVE  DoneInv'
  <2>1. Pending' = Pending
    BY <1>8 DEF Pending
  <2> QED
    BY <1>1, <1>2, <1>8, <2>1, DoneSame
<1>9. CASE ManagerAnswers \/ RecvEnd \/ LogStreamEnds
  BY <1>8, <1>9 DEF ManagerAnswers, RecvEnd, Recv, LogStreamEnds
<1>10. CASE DecodeEOF \/ DecodeFatal
  BY <1>8, <1>10 DEF DecodeEOF, DecodeFatal
<1>11. CASE Terminated \/ UNCHANGED vars
  BY <1>8, <1>11 DEF Terminated, vars
<1> QED
  BY <1>3, <1>4, <1>5, <1>6, <1>7, <1>9, <1>10, <1>11 DEF Next

-----------------------------------------------------------------------------
(* An entry gets the next number, whether or not it gets to the manager;   *)
(* nothing else counts, and a stream that is over stays over.              *)

LEMMA PublishKeeps ==
  ASSUME IInv, NEW STATE entry, PublishBuildLogEntry(entry), logStream' = logStream
  PROVE  LogNumbersContiguous'
<1>1. received \in Seq(LogEntry) /\ logSequenceNum \in Nat /\ LogNumbersContiguous
  BY TypeFacts DEF IInv
<1>2. CASE logStream = "open" /\ logSequenceNum' = EntryNumber
           /\ received' = Append(received, [seq |-> EntryNumber, entry |-> entry])
  <2>1. /\ Len(received) \in Nat /\ DOMAIN received = 1..Len(received)
        /\ DOMAIN received' = 1..(Len(received) + 1)
        /\ Len(received') = Len(received) + 1
        /\ \A i \in 1..Len(received) : received'[i] = received[i]
        /\ received'[Len(received) + 1].seq = logSequenceNum + 1
    BY <1>1, <1>2 DEF EntryNumber
  <2> QED
    BY <1>1, <1>2, <2>1 DEF LogNumbersContiguous, EntryNumber
<1>3. CASE logStream = "over" /\ received' = received
  BY <1>1, <1>3 DEF LogNumbersContiguous
<1>4. CASE logSequenceNum' = logSequenceNum /\ received' = received
  BY <1>1, <1>4 DEF LogNumbersContiguous
<1> QED
  BY <1>2, <1>3, <1>4 DEF PublishBuildLogEntry

LEMMA NumbersPreserved == ASSUME IInv, [Next]_vars PROVE LogNumbersContiguous'
<1>1. CASE /\ received' = received /\ logSequenceNum' = logSequenceNum
           /\ logStream' \in {logStream, "over"}
  BY <1>1 DEF IInv, LogNumbersContiguous
<1>2. CASE DecodeMessage
  <2>1. CASE PublishBuildLogEntry(Fragments(decoder[1].of))
    BY <1>2, <2>1, PublishKeeps DEF DecodeMessage
  <2> QED
    BY <1>1, <1>2, <2>1 DEF DecodeMessage
<1>3. CASE PodmanWrite
  <2>1. PICK n \in 1..Len(output) : PublishBuildLogEntry(SubSeq(output, 1, n))
    BY <1>3 DEF PodmanWrite
  <2> QED
    BY <1>3, <2>1, PublishKeeps DEF PodmanWrite
<1>4. CASE BeginRequest \/ ErrResponse \/ Write
  BY <1>1, <1>4 DEF BeginRequest, ErrResponse, Write
<1>5. CASE ManagerAnswers \/ RecvEnd \/ LogStreamEnds
  BY <1>1, <1>5 DEF ManagerAnswers, RecvEnd, Recv, LogStreamEnds
<1>6. CASE DecodeEOF \/ DecodeIncomplete \/ DecodeFatal
  BY <1>1, <1>6 DEF DecodeEOF, DecodeIncomplete, DecodeFatal
<1>7. CASE Terminated \/ UNCHANGED vars
  BY <1>1, <1>7 DEF Terminated, vars
<1> QED
  BY <1>2, <1>3, <1>4, <1>5, <1>6, <1>7 DEF Next

-----------------------------------------------------------------------------

LEMMA InitInv == Init => IInv
<1> SUFFICES ASSUME Init PROVE IInv
  OBVIOUS
<1>1. TypeInv
  BY InitType
<1>2. StepInv /\ WholeInv /\ LogNumbersContiguous
  <2>1. <<>> \o <<>> = <<>>
    OBVIOUS
  <2> QED
    BY <2>1 DEF Init, StepInv, WholeInv, Joined, LogNumbersContiguous
<1>3. DoneInv
  <2>1. Pending = <<>> /\ written = <<>> \o <<>> /\ Shown = <<>>
    <3>1. [i \in DOMAIN received |-> received[i].entry] = <<>>
      BY DEF Init
    <3> QED
      BY <3>1 DEF Init, Pending, Shown, FlattenSeq
  <2>2. Ends(<<>>) = {} /\ <<>> \in Seq(Fragment)
    BY DEF Ends, EndsAfter, Init
  <2>3. DoneWith(<<>>)
    BY <2>1, <2>2 DEF DoneWith, LastError, NextSize, Init
  <2> QED
    BY <2>2, <2>3 DEF DoneInv
<1> QED
  BY <1>1, <1>2, <1>3 DEF IInv

LEMMA NextInv == IInv /\ [Next]_vars => IInv'
<1> SUFFICES ASSUME IInv, [Next]_vars PROVE IInv'
  OBVIOUS
<1>1. TypeInv'
  BY TypePreserved DEF IInv
<1> QED
  BY <1>1, StepPreserved, WholePreserved, DonePreserved, NumbersPreserved DEF IInv

(* What was written is whole messages that are done with, followed by what *)
(* is still to be decoded, whatever the chunks, the requests and the       *)
(* manager (docker_log_writer.go:45-108, podman_log_write.go:21-45).       *)
THEOREM Invariance == Spec => []IInv
  BY InitInv, NextInv, PTL DEF Spec

(* The variables keep their types; less than one message waits in the      *)
(* partial buffer, and an error that is held is one                        *)
(* (docker_log_writer.go:45-108).                                          *)
THEOREM TypeCorrect == Spec => []TypeOK
<1>1. IInv => TypeOK
  BY DEF IInv, TypeInv
<1> QED
  BY <1>1, Invariance, PTL

(* The manager sees the entries numbered 1, 2, 3, ..., and as long as the  *)
(* log stream is open the builder has used no other number                 *)
(* (grpcbuild.go:165-180).                                                 *)
THEOREM LogNumbers == Spec => []LogNumbersContiguous
<1>1. IInv => LogNumbersContiguous
  BY DEF IInv
<1> QED
  BY <1>1, Invariance, PTL

(* Between two calls of Write everything written is at the manager, in     *)
(* order and once, or in the partial buffer, however it was cut and over   *)
(* however many chunks a message is spread (docker_log_writer.go:51-108).  *)
THEOREM EverythingIsShown == Spec => []NothingLostNorDoubled
<1>1. ASSUME IInv, step = "idle", logStream = "open"
      PROVE  Logged(runtime, written) = Logged(runtime, Shown \o partialBuffer)
  <2>1. PICK done \in Seq(Fragment) : DoneWith(done)
    BY <1>1 DEF IInv, DoneInv
  <2>2. /\ written = done \o partialBuffer
        /\ Logged(runtime, done) = Logged(runtime, Shown)
    <3>1. decoder = <<>>
      BY <1>1 DEF IInv, StepInv
    <3> QED
      BY <1>1, <2>1, <3>1, DoneFacts DEF DoneWith
  <2>3. partialBuffer \in Seq(Fragment) /\ Shown \in Seq(Fragment)
    BY <1>1, TypeFacts, ShownType DEF IInv
  <2>4. /\ Logged(runtime, done \o partialBuffer)
             = Logged(runtime, done) \o Logged(runtime, partialBuffer)
        /\ Logged(runtime, Shown \o partialBuffer)
             = Logged(runtime, Shown) \o Logged(runtime, partialBuffer)
    BY <2>3, LoggedConcat
  <2> QED
    BY <2>2, <2>4, Zenon
<1>2. IInv => NothingLostNorDoubled
  BY <1>1 DEF NothingLostNorDoubled
<1> QED
  BY <1>2, Invariance, PTL

(* The writer's error is the last one in the output of this request        *)
(* (docker_log_writer.go:91-94, 114-130, context.go:175-178, 408-425).     *)
THEOREM ErrorsAreTheRequests == Spec => []ErrorOfThisRequest
<1> DEFINE WrittenEnds == {i \in (start + 1)..Len(written) :
                             IsLast(written[i]) /\ written[i].of.error}
<1>1. ASSUME IInv, step = "idle", busy, runtime = "docker"
      PROVE  IF WrittenEnds = {} THEN errResponse = Nil
             ELSE \E i \in WrittenEnds : /\ \A j \in WrittenEnds : j <= i
                                         /\ errResponse = written[i].of
  <2>1. PICK done \in Seq(Fragment) : DoneWith(done)
    BY <1>1 DEF IInv, DoneInv
  <2>2. LastError(done) /\ written = done \o partialBuffer
    <3>1. decoder = <<>>
      BY <1>1 DEF IInv, StepInv
    <3> QED
      BY <1>1, <2>1, <3>1, DoneFacts DEF DoneWith
  <2>3. partialBuffer \in Seq(Fragment) /\ written \in Seq(Fragment) /\ start \in Nat
    BY <1>1, TypeFacts DEF IInv
  <2>4. \A i \in 1..Len(partialBuffer) : ~IsLast(partialBuffer[i])
    <3>1. CASE partialBuffer = <<>>
      <4>1. Len(partialBuffer) = 0
        BY <2>3, <3>1, EmptySeq
      <4> QED
        BY <4>1
    <3>2. CASE partialBuffer # <<>>
      BY <1>1, <2>3, <3>2, PartFacts DEF IInv, StepInv
    <3> QED
      BY <3>1, <3>2
  <2>5. /\ Len(done) \in Nat /\ Len(partialBuffer) \in Nat
        /\ Len(written) = Len(done) + Len(partialBuffer)
        /\ \A i \in 1..Len(done) : written[i] = done[i]
        /\ \A i \in 1..Len(partialBuffer) : written[Len(done) + i] = partialBuffer[i]
    BY <2>2, <2>3, ConcatFacts
  <2>6. WrittenEnds = Ends(done)
    <3>1. ASSUME NEW i \in (Len(done) + 1)..Len(written) PROVE ~IsLast(written[i])
      <4>1. i - Len(done) \in 1..Len(partialBuffer) /\ Len(done) + (i - Len(done)) = i
        BY <2>5
      <4>2. written[Len(done) + (i - Len(done))] = partialBuffer[i - Len(done)]
        BY <2>5, <4>1, Zenon
      <4> QED
        BY <2>4, <4>1, <4>2, Zenon
    <3>2. Len(done) <= Len(written)
      BY <2>5
    <3>3. EndsAfter(start, written) = EndsAfter(start, done)
      BY ONLY <2>3, <2>5, <3>1, <3>2, done \in Seq(Fragment), EndsOfPrefix
    <3> QED
      BY <3>3 DEF Ends, EndsAfter
  <2>7. \A i \in Ends(done) : i \in 1..Len(done) /\ written[i] = done[i]
    BY <2>3, <2>5 DEF Ends, EndsAfter
  <2> HIDE DEF WrittenEnds
  <2> QED
    BY <2>2, <2>6, <2>7 DEF LastError
<1>2. IInv => ErrorOfThisRequest
  BY <1>1 DEF ErrorOfThisRequest
<1> QED
  BY <1>2, Invariance, PTL

(* What joins on to whole messages, and has no cut in it, starts with a    *)
(* whole message or is the start of one.                                   *)
LEMMA UncutDecodes ==
  ASSUME NEW s \in Seq(Fragment), s # <<>>, s[1].part = 1, Joined(s),
         \A i \in 1..(Len(s) - 1) : s[i + 1].part = 1 => IsLast(s[i])
  PROVE  IsPrefix(Fragments(s[1].of), s) \/ IsStrictPrefix(s, Fragments(s[1].of))
<1> DEFINE m == s[1].of
           b == Fragments(m)
<1>1. Len(s) \in Nat \ {0} /\ s[1] \in Fragment
  BY EmptySeq
<1>2. m \in Messages
  BY <1>1, FragmentType
<1>3. /\ m.size \in Nat \ {0} /\ b \in Seq(Fragment) /\ Len(b) = m.size
      /\ \A i \in 1..m.size : b[i] = [of |-> m, part |-> i]
  BY <1>2, FragmentsType
<1>4. s[1] = [of |-> m, part |-> 1]
  BY <1>1, FragmentType
<1> HIDE DEF m, b
<1> DEFINE T == {i \in Nat : i \in 1..Len(s) /\ i \in 1..m.size =>
                            s[i] = [of |-> m, part |-> i]}
<1>5. 0 \in T
  OBVIOUS
<1>6. ASSUME NEW i \in T PROVE i + 1 \in T
  <2>1. i \in Nat
    OBVIOUS
  <2>2. SUFFICES ASSUME i + 1 \in 1..Len(s), i + 1 \in 1..m.size, i # 0
                 PROVE  s[i + 1] = [of |-> m, part |-> i + 1]
    BY <1>4, <2>1
  <2>3. /\ i \in 1..Len(s) /\ i \in 1..m.size /\ i # m.size /\ i \in 1..(Len(s) - 1)
        /\ (i + 1) - 1 = i
    BY <1>1, <1>3, <2>1, <2>2
  <2>4. s[i] = [of |-> m, part |-> i]
    BY <1>6, <2>3
  <2>5. s[i].of = m /\ s[i].part = i /\ ~IsLast(s[i])
    BY <2>3, <2>4 DEF IsLast
  <2>6. s[i + 1].part # 1
    BY <2>3, <2>5
  <2>7. s[(i + 1) - 1] = [of |-> s[i + 1].of, part |-> s[i + 1].part - 1]
    BY <2>2, <2>6 DEF Joined
  <2>8. s[i].of = s[i + 1].of /\ s[i].part = s[i + 1].part - 1
    <3>1. s[i] = [of |-> s[i + 1].of, part |-> s[i + 1].part - 1]
      BY <2>3, <2>7
    <3> QED
      BY ONLY <3>1
  <2>9. s[i + 1].of = m /\ s[i + 1].part = i + 1
    <3>1. s[i + 1] \in Fragment
      BY <2>2
    <3>2. s[i + 1].part \in Nat
      BY <3>1, FragmentType
    <3> QED
      BY <2>1, <2>5, <2>8, <3>2
  <2>10. s[i + 1] = [of |-> s[i + 1].of, part |-> s[i + 1].part]
    BY <2>2, FragmentType
  <2> QED
    BY <2>9, <2>10, Zenon
<1>7. T = Nat
  <2> T \subseteq Nat
    OBVIOUS
  <2> HIDE DEF T
  <2> QED
    BY <1>5, <1>6, Induction
<1>8. \A i \in Nat : i \in 1..Len(s) /\ i \in 1..m.size => s[i] = b[i]
  <2>1. \A i \in Nat : i \in 1..Len(s) /\ i \in 1..m.size => s[i] = [of |-> m, part |-> i]
    BY <1>7
  <2> QED
    BY <1>3, <2>1
<1>9. CASE m.size <= Len(s)
  <2>1. Len(b) <= Len(s) /\ \A i \in 1..Len(b) : b[i] = s[i]
    BY <1>3, <1>8, <1>9
  <2>2. SubSeq(b, 1, Len(b)) = SubSeq(s, 1, Len(b))
    BY <1>3, <2>1, SameStart
  <2> QED
    BY <2>1, <2>2 DEF IsPrefix, b, m
<1>10. CASE Len(s) < m.size
  <2>1. Len(s) <= Len(b) /\ s # b /\ \A i \in 1..Len(s) : s[i] = b[i]
    BY <1>1, <1>3, <1>8, <1>10
  <2>2. SubSeq(s, 1, Len(s)) = SubSeq(b, 1, Len(s))
    BY <1>3, <2>1, SameStart
  <2> QED
    BY <2>1, <2>2 DEF IsStrictPrefix, IsPrefix, b, m
<1> QED
  BY <1>1, <1>3, <1>9, <1>10

(* Output the writer cannot decode was cut short inside a message by an    *)
(* earlier request, never by the way it was cut into chunks                *)
(* (docker_log_writer.go:51-54, 71-89).                                    *)
THEOREM OnlyCutsBreakTheStream == Spec => []OnlyCutsAreFatal
<1>1. ASSUME IInv, Undecodable,
             \A i \in 1..(Len(written) - 1) : written[i + 1].part = 1 => IsLast(written[i])
      PROVE  FALSE
  <2>1. PICK done \in Seq(Fragment) : DoneWith(done)
    BY <1>1 DEF IInv, DoneInv
  <2>2. /\ runtime = "docker" /\ partialBuffer = <<>> /\ decoder \in Seq(Fragment)
        /\ decoder # <<>> /\ ~HasMessage /\ ~Incomplete
    BY <1>1, TypeFacts DEF IInv, StepInv, Undecodable
  <2>3. written = done \o decoder /\ (done # <<>> => IsLast(done[Len(done)]))
    BY <1>1, <2>1, <2>2, DoneFacts DEF DoneWith
  <2>4. /\ Len(done) \in Nat /\ Len(decoder) \in Nat
        /\ Len(written) = Len(done) + Len(decoder)
        /\ \A i \in 1..Len(done) : written[i] = done[i]
        /\ \A i \in 1..Len(decoder) : written[Len(done) + i] = decoder[i]
    BY <2>2, <2>3, ConcatFacts
  <2>5. Joined(written)
    BY <1>1, TypeFacts, JoinedPrefix DEF IInv, WholeInv
  <2>6. Len(decoder) # 0 /\ decoder[1] \in Fragment
    BY <2>2, EmptySeq
  <2>7. decoder[1].part = 1
    <3> SUFFICES ASSUME decoder[1].part # 1 PROVE FALSE
      OBVIOUS
    <3>1. /\ Len(done) + 1 \in 1..Len(written) /\ written[Len(done) + 1] = decoder[1]
          /\ (Len(done) + 1) - 1 = Len(done)
      BY <2>4, <2>6
    <3>2. /\ Len(done) # 0
          /\ written[Len(done)] = [of |-> decoder[1].of, part |-> decoder[1].part - 1]
      BY <2>4, <2>5, <3>1 DEF Joined
    <3>3. done # <<>> /\ written[Len(done)] = done[Len(done)]
      BY <2>4, <3>2, EmptySeq
    <3>4. /\ done[Len(done)].part = decoder[1].part - 1
          /\ done[Len(done)].of.size = decoder[1].of.size
      BY <3>2, <3>3
    <3>5. decoder[1].part \in 1..decoder[1].of.size /\ decoder[1].of.size \in Nat
      BY <2>6, FragmentType
    <3> QED
      BY <2>3, <3>3, <3>4, <3>5 DEF IsLast
  <2>8. ASSUME NEW i \in 1..(Len(decoder) - 1), decoder[i + 1].part = 1
        PROVE  IsLast(decoder[i])
    <3>1. /\ Len(done) + i \in 1..(Len(written) - 1)
          /\ i \in 1..Len(decoder) /\ i + 1 \in 1..Len(decoder)
          /\ (Len(done) + i) + 1 = Len(done) + (i + 1)
      BY <2>4
    <3>2. written[Len(done) + i] = decoder[i] /\ written[Len(done) + (i + 1)] = decoder[i + 1]
      BY <2>4, <3>1, Zenon
    <3>3. written[(Len(done) + i) + 1].part = 1 => IsLast(written[Len(done) + i])
      BY <1>1, <3>1, Zenon
    <3> QED
      BY <2>8, <3>1, <3>2, <3>3, Zenon
  <2>9. Joined(decoder)
    BY <2>2, <2>3, <2>4, <2>5, <2>7, JoinedSuffix
  <2>10. IsPrefix(Fragments(decoder[1].of), decoder)
           \/ IsStrictPrefix(decoder, Fragments(decoder[1].of))
    BY <2>2, <2>7, <2>8, <2>9, UncutDecodes
  <2> QED
    BY <2>2, <2>10 DEF HasMessage, Incomplete
<1>2. ASSUME IInv, Undecodable
      PROVE  \E i \in 1..(Len(written) - 1) : ~IsLast(written[i]) /\ written[i + 1].part = 1
  BY <1>1, <1>2, Zenon
<1>3. IInv => OnlyCutsAreFatal
  BY <1>2 DEF OnlyCutsAreFatal
<1> QED
  BY <1>3, Invariance, PTL

=============================================================================
