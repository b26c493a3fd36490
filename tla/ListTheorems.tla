----------------------------- MODULE ListTheorems -----------------------------
(***************************************************************************)
(* Induction over naturals with sets in the place of predicates; from it,  *)
(* that a function recursive along a list exists, so that CHOOSE yields    *)
(* one; and with that, what the lists of the models hold and in which      *)
(* order.                                                                  *)
(***************************************************************************)
EXTENDS Integers, Lists, SequenceTheorems, FiniteSetTheorems, WellFoundedInduction, TLAPS

\* A set of naturals has a least element.
LEMMA LeastNatural ==
  ASSUME NEW S, S \subseteq Nat, S # {}
  PROVE  \E n \in S : \A m \in S : n <= m
<1>1. PICK n \in S : \A m \in S : <<m, n>> \notin OpToRel(<, Nat)
  BY NatLessThanWellFounded, WFMin
<1>2. \A m \in S : ~(m < n)
  BY <1>1 DEF OpToRel
<1> QED BY <1>2

\* What holds at 0 and passes from each number to the next holds up to n.
LEMMA UpTo ==
  ASSUME NEW n \in Nat, NEW P, 0 \in P,
         \A i \in 0..(n - 1) : i \in P => i + 1 \in P
  PROVE  \A i \in 0..n : i \in P
<1> DEFINE missing == {i \in 0..n : i \notin P}
<1>1. SUFFICES ASSUME missing # {} PROVE FALSE
  OBVIOUS
<1>2. PICK i \in missing : \A j \in missing : i <= j
  <2>1. missing \subseteq Nat
    OBVIOUS
  <2> HIDE DEF missing
  <2> QED BY <1>1, <2>1, LeastNatural
<1>3. i # 0 /\ i - 1 \in 0..(n - 1) /\ i - 1 \notin missing
  BY <1>2
<1>4. i - 1 \in P
  BY <1>3
<1> QED BY <1>2, <1>3, <1>4

\* A set of indices has a greatest element.
LEMMA GreatestIndex ==
  ASSUME NEW n \in Nat, NEW S, S \subseteq 1..n, S # {}
  PROVE  \E i \in S : \A j \in S : j <= i
<1> DEFINE bounds == {m \in Nat : \A j \in S : j <= m}
<1>1. n \in bounds
  OBVIOUS
<1>2. PICK i \in bounds : \A m \in bounds : i <= m
  BY <1>1, LeastNatural
<1>3. CASE i \in S
  BY <1>2, <1>3
<1>4. CASE i \notin S
  <2>1. PICK j \in S : TRUE
    OBVIOUS
  <2>2. j <= i /\ j \in 1..n
    BY <1>2, <2>1
  <2>3. i - 1 \in Nat /\ \A k \in S : k <= i - 1
    BY <1>2, <1>4, <2>2
  <2>4. i - 1 \in bounds
    BY <2>3
  <2> QED BY <1>2, <2>4
<1> QED BY <1>3, <1>4

\* The steps of a recursion along a list of length n, each a function on T, and
\* the values it takes.
Steps(n, T) == [1..n -> [T -> T]]

IsRun(F, n, T, start, step) ==
  /\ F \in [0..n -> T] /\ F[0] = start
  /\ \A i \in 1..n : F[i] = step[i][F[i - 1]]

LEMMA Recursion ==
  ASSUME NEW n \in Nat, NEW T, NEW start \in T, NEW step \in Steps(n, T)
  PROVE  \E F : IsRun(F, n, T, start, step)
<1> DEFINE Solves(F, m) ==
             /\ F \in [0..m -> T] /\ F[0] = start
             /\ \A i \in 1..m : F[i] = step[i][F[i - 1]]
           P == {m \in 0..n : \E F : Solves(F, m)}
<1>1. 0 \in P
  <2>1. Solves([i \in 0..0 |-> start], 0)
    OBVIOUS
  <2>2. \E F : Solves(F, 0)
    BY <2>1
  <2> HIDE DEF Solves
  <2> QED BY <2>2
<1>2. ASSUME NEW m \in 0..(n - 1), m \in P PROVE m + 1 \in P
  <2>1. PICK F : Solves(F, m)
    BY <1>2
  <2> DEFINE G == [i \in 0..(m + 1) |-> IF i = m + 1 THEN step[m + 1][F[m]] ELSE F[i]]
  <2>2. F[m] \in T /\ m + 1 \in 1..n /\ step[m + 1][F[m]] \in T
    BY <2>1 DEF Steps
  <2>3. G \in [0..(m + 1) -> T] /\ G[0] = start
    BY <2>1, <2>2
  <2>4. \A i \in 1..(m + 1) : G[i] = step[i][G[i - 1]]
    <3>1. \A i \in 0..m : G[i] = F[i]
      OBVIOUS
    <3>2. G[m + 1] = step[m + 1][G[m]]
      BY <3>1
    <3>3. ASSUME NEW i \in 1..m PROVE G[i] = step[i][G[i - 1]]
      <4>1. G[i] = F[i] /\ G[i - 1] = F[i - 1]
        BY <3>1
      <4> QED BY <4>1, <2>1
    <3> HIDE DEF G
    <3>4. \A i \in 1..(m + 1) : i = m + 1 \/ i \in 1..m
      OBVIOUS
    <3> QED BY <3>2, <3>3, <3>4
  <2>5. Solves(G, m + 1)
    BY <2>3, <2>4
  <2> HIDE DEF G, Solves
  <2> QED BY <2>5, <2>2
<1> HIDE DEF P
<1>3. n \in P
  <2>1. \A i \in 0..n : i \in P
    BY <1>1, <1>2, UpTo
  <2> QED BY <2>1
<1>4. PICK F : Solves(F, n)
  BY <1>3 DEF P
<1> QED BY <1>4 DEF IsRun
-----------------------------------------------------------------------------
(* Lists                                                                   *)

\* A list is a sequence over any set that holds its elements.
LEMMA ListIsSeq ==
  ASSUME NEW s, IsList(s)
  PROVE  /\ Len(s) \in Nat /\ DOMAIN s = 1..Len(s)
         /\ \A S : ToSet(s) \subseteq S => s \in Seq(S)
<1>1. s \in Seq(ToSet(s))
  BY DEF IsList
<1> QED BY <1>1, LenProperties, SeqMonotonic

LEMMA SeqIsList ==
  ASSUME NEW S, NEW s \in Seq(S)
  PROVE  IsList(s) /\ ToSet(s) \subseteq S
<1>1. Len(s) \in Nat /\ DOMAIN s = 1..Len(s) /\ s \in [1..Len(s) -> S]
  BY LenProperties
<1>2. s \in [1..Len(s) -> ToSet(s)] /\ ToSet(s) \subseteq S
  BY <1>1 DEF ToSet
<1> QED BY <1>1, <1>2, SeqDef DEF IsList

LEMMA ListAppend ==
  ASSUME NEW s, IsList(s), NEW e
  PROVE  /\ IsList(Append(s, e)) /\ Len(Append(s, e)) = Len(s) + 1
         /\ DOMAIN Append(s, e) = 1..(Len(s) + 1)
         /\ Append(s, e)[Len(s) + 1] = e
         /\ \A i \in 1..Len(s) : Append(s, e)[i] = s[i]
         /\ ToSet(Append(s, e)) = ToSet(s) \union {e}
<1> DEFINE S == ToSet(s) \union {e}
           t == Append(s, e)
<1>1. s \in Seq(S) /\ Len(s) \in Nat /\ DOMAIN s = 1..Len(s)
  BY ListIsSeq
<1>2. /\ t \in Seq(S) /\ Len(t) = Len(s) + 1 /\ t[Len(s) + 1] = e
      /\ \A i \in 1..Len(s) : t[i] = s[i]
  <2>1. e \in S
    OBVIOUS
  <2> HIDE DEF S
  <2> QED BY <1>1, <2>1, AppendProperties
<1> HIDE DEF t
<1>3. IsList(t) /\ ToSet(t) \subseteq S /\ DOMAIN t = 1..Len(t)
  BY <1>2, SeqIsList, LenProperties
<1>4. S \subseteq ToSet(t)
  <2>1. \A i \in 1..Len(s) : s[i] \in ToSet(t)
    BY <1>1, <1>2, <1>3 DEF ToSet
  <2>2. e \in ToSet(t)
    BY <1>1, <1>2, <1>3 DEF ToSet
  <2> QED BY <1>1, <2>1, <2>2 DEF ToSet
<1> QED BY <1>1, <1>2, <1>3, <1>4 DEF t

\* The entries of both lists, those of the first where they were.
LEMMA AppendedIs ==
  ASSUME NEW current, NEW new, IsList(current), IsList(new)
  PROVE  /\ IsList(Appended(current, new))
         /\ ToSet(Appended(current, new)) = ToSet(current) \union ToSet(new)
         /\ IsInjective(current) => IsInjective(Appended(current, new))
<1> DEFINE n == Len(new)
           S == ToSet(current) \union ToSet(new)
           T == Seq(S)
           Added(i, list) == IF Contains(list, new[i]) THEN list ELSE Append(list, new[i])
           step == [i \in 1..n |-> [list \in T |-> Added(i, list)]]
           Solved(list) ==
             list = [i \in 0..n |-> IF i = 0 THEN current ELSE Added(i, list[i - 1])]
           result == CHOOSE list : Solved(list)
<1>1. n \in Nat /\ DOMAIN new = 1..n /\ current \in T /\ \A i \in 1..n : new[i] \in S
  BY ListIsSeq DEF ToSet
<1>2. Appended(current, new) = result[n]
  BY DEF Appended
<1>3. Solved(result)
  <2>1. step \in Steps(n, T)
    <3>1. ASSUME NEW i \in 1..n, NEW list \in T PROVE Added(i, list) \in T
      BY <1>1, AppendProperties
    <3> QED BY <3>1 DEF Steps
  <2>2. PICK F : IsRun(F, n, T, current, step)
    <3>1. n \in Nat /\ current \in T
      BY <1>1
    <3> HIDE DEF n, T, step
    <3> QED BY <3>1, <2>1, Recursion
  <2>3. \A i \in 1..n : step[i][F[i - 1]] = Added(i, F[i - 1])
    <3>1. \A i \in 1..n : i - 1 \in 0..n
      BY <1>1
    <3>2. \A i \in 1..n : F[i - 1] \in T
      <4> HIDE DEF T, n
      <4> QED BY <3>1, <2>2 DEF IsRun
    <3> HIDE DEF T, Added
    <3> QED BY <3>2
  <2>4. Solved(F)
    <3> HIDE DEF step, Added, T
    <3> QED BY <1>1, <2>2, <2>3 DEF IsRun
  <2> HIDE DEF Solved
  <2> QED BY <2>4
<1> HIDE DEF result
<1>4. result[0] = current /\ \A i \in 1..n : result[i] = Added(i, result[i - 1])
  <2>1. 0 \in 0..n /\ \A i \in 1..n : i \in 0..n /\ i # 0
    BY <1>1
  <2> HIDE DEF Added, n
  <2> QED BY <2>1, <1>3
<1> DEFINE Good(i) ==
             /\ IsList(result[i])
             /\ ToSet(result[i]) = ToSet(current) \union {new[j] : j \in 1..i}
             /\ IsInjective(current) => IsInjective(result[i])
           P == {i \in 0..n : Good(i)}
<1>5. 0 \in P
  BY <1>1, <1>4
<1>6. ASSUME NEW i \in 0..(n - 1), i \in P PROVE i + 1 \in P
  <2> DEFINE list == result[i]
             e == new[i + 1]
  <2>1. Good(i) /\ i + 1 \in 1..n /\ result[i + 1] = Added(i + 1, list)
    BY <1>1, <1>4, <1>6
  <2>2. {new[j] : j \in 1..(i + 1)} = {new[j] : j \in 1..i} \union {e}
    BY <1>1
  <2>3. Contains(list, e) <=> e \in ToSet(list)
    BY <2>1, ListIsSeq DEF Contains, ToSet
  <2>4. CASE e \in ToSet(list)
    <3>1. result[i + 1] = list
      BY <2>1, <2>3, <2>4
    <3>2. ToSet(list) = ToSet(current) \union {new[j] : j \in 1..(i + 1)}
      BY <2>1, <2>2, <2>4
    <3>3. Good(i + 1)
      BY <2>1, <3>1, <3>2
    <3> HIDE DEF Good
    <3> QED BY <2>1, <3>3
  <2>5. CASE e \notin ToSet(list)
    <3>1. result[i + 1] = Append(list, e)
      BY <2>1, <2>3, <2>5
    <3>2. /\ IsList(Append(list, e)) /\ ToSet(Append(list, e)) = ToSet(list) \union {e}
          /\ DOMAIN Append(list, e) = 1..(Len(list) + 1)
          /\ Append(list, e)[Len(list) + 1] = e
          /\ \A j \in 1..Len(list) : Append(list, e)[j] = list[j]
      BY <2>1, ListAppend
    <3>3. DOMAIN list = 1..Len(list) /\ Len(list) \in Nat
      BY <2>1, ListIsSeq
    <3>4. ASSUME IsInjective(current) PROVE IsInjective(Append(list, e))
      <4>1. IsInjective(list) /\ \A j \in 1..Len(list) : list[j] # e
        BY <2>1, <2>5, <3>3, <3>4 DEF ToSet
      <4>2. \A j, k \in 1..Len(list) : list[j] = list[k] => j = k
        BY <4>1, <3>3 DEF IsInjective
      <4>3. \A j, k \in 1..(Len(list) + 1) :
              Append(list, e)[j] = Append(list, e)[k] => j = k
        <5> HIDE DEF list, e
        <5> QED BY <4>1, <4>2, <3>2, <3>3
      <4> QED BY <4>3, <3>2 DEF IsInjective
    <3>5. Good(i + 1)
      BY <2>1, <2>2, <3>1, <3>2, <3>4
    <3> HIDE DEF Good
    <3> QED BY <2>1, <3>5
  <2> QED BY <2>4, <2>5
<1>7. Good(n)
  <2>1. \A i \in 0..n : i \in P
    <3> HIDE DEF P
    <3> QED BY <1>1, <1>5, <1>6, UpTo
  <2> HIDE DEF Good
  <2> QED BY <1>1, <2>1
<1>8. ToSet(new) = {new[j] : j \in 1..n}
  BY <1>1 DEF ToSet
<1> QED BY <1>2, <1>7, <1>8

LEMMA ListConcat ==
  ASSUME NEW s, NEW t, IsList(s), IsList(t)
  PROVE  /\ IsList(s \o t) /\ Len(s \o t) = Len(s) + Len(t)
         /\ DOMAIN (s \o t) = 1..(Len(s) + Len(t))
         /\ \A i \in 1..Len(s) : (s \o t)[i] = s[i]
         /\ \A i \in 1..Len(t) : (s \o t)[Len(s) + i] = t[i]
         /\ ToSet(s \o t) = ToSet(s) \union ToSet(t)
<1> DEFINE S == ToSet(s) \union ToSet(t)
           u == s \o t
<1>1. /\ s \in Seq(S) /\ Len(s) \in Nat /\ DOMAIN s = 1..Len(s)
      /\ t \in Seq(S) /\ Len(t) \in Nat /\ DOMAIN t = 1..Len(t)
  BY ListIsSeq
<1>2. /\ u \in Seq(S) /\ Len(u) = Len(s) + Len(t)
      /\ \A i \in 1..(Len(s) + Len(t)) : u[i] = IF i <= Len(s) THEN s[i] ELSE t[i - Len(s)]
  <2> HIDE DEF S
  <2> QED BY <1>1, ConcatProperties
<1> HIDE DEF u
<1>3. IsList(u) /\ ToSet(u) \subseteq S /\ DOMAIN u = 1..Len(u)
  BY <1>2, SeqIsList, LenProperties
<1>4. \A i \in 1..Len(s) : u[i] = s[i] /\ i \in DOMAIN u
  BY <1>1, <1>2, <1>3
<1>5. \A i \in 1..Len(t) : u[Len(s) + i] = t[i] /\ Len(s) + i \in DOMAIN u
  BY <1>1, <1>2, <1>3
<1>6. S \subseteq ToSet(u)
  BY <1>1, <1>4, <1>5 DEF ToSet
<1> QED BY <1>2, <1>3, <1>4, <1>5, <1>6 DEF u

\* The list holds each member of S once; s comes before t in it.
OnceEach(list, S) == IsList(list) /\ ToSet(list) = S /\ IsInjective(list)

Earlier(list, s, t) == \E i, j \in DOMAIN list : i < j /\ list[i] = s /\ list[j] = t

LEMMA OnceEmpty == OnceEach(<<>>, {})
<1>1. DOMAIN <<>> = 1..0
  BY EmptySeq, LenProperties
<1>2. ToSet(<<>>) = {}
  BY <1>1 DEF ToSet
<1>3. IsList(<<>>)
  BY EmptySeq DEF IsList
<1> QED BY <1>1, <1>2, <1>3 DEF OnceEach, IsInjective

LEMMA OnceConcat ==
  ASSUME NEW s, NEW t, NEW S, NEW T, OnceEach(s, S), OnceEach(t, T), S \cap T = {}
  PROVE  /\ OnceEach(s \o t, S \union T)
         /\ \A a, b : Earlier(s, a, b) \/ Earlier(t, a, b) => Earlier(s \o t, a, b)
         /\ \A a \in S, b \in T : Earlier(s \o t, a, b)
<1> DEFINE u == s \o t
<1>1. /\ IsList(s) /\ ToSet(s) = S /\ Len(s) \in Nat /\ DOMAIN s = 1..Len(s)
      /\ IsList(t) /\ ToSet(t) = T /\ Len(t) \in Nat /\ DOMAIN t = 1..Len(t)
  BY ListIsSeq DEF OnceEach
<1>2. /\ IsList(u) /\ DOMAIN u = 1..(Len(s) + Len(t)) /\ ToSet(u) = S \union T
      /\ \A i \in 1..Len(s) : u[i] = s[i] /\ i \in DOMAIN u
      /\ \A i \in 1..Len(t) : u[Len(s) + i] = t[i] /\ Len(s) + i \in DOMAIN u
  BY <1>1, ListConcat
<1> HIDE DEF u
<1>3. \A i \in DOMAIN u :
        \/ i \in 1..Len(s) /\ u[i] = s[i] /\ u[i] \in S
        \/ \E k \in 1..Len(t) : i = Len(s) + k /\ u[i] = t[k] /\ u[i] \in T
  <2>1. ASSUME NEW i \in DOMAIN u
        PROVE  i \in 1..Len(s) \/ (i - Len(s) \in 1..Len(t) /\ i = Len(s) + (i - Len(s)))
    BY <1>1, <1>2
  <2>2. \A i \in 1..Len(s) : s[i] \in S
    BY <1>1 DEF ToSet
  <2>3. \A k \in 1..Len(t) : t[k] \in T
    BY <1>1 DEF ToSet
  <2>4. ASSUME NEW i \in DOMAIN u, NEW k \in 1..Len(t), i = Len(s) + k
        PROVE  u[i] = t[k]
    BY <1>2, <2>4
  <2> QED BY <2>1, <2>2, <2>3, <2>4, <1>2
<1>4. IsInjective(u)
  <2>1. ASSUME NEW i \in DOMAIN u, NEW j \in DOMAIN u, u[i] = u[j] PROVE i = j
    <3>1. \A k, l \in 1..Len(s) : s[k] = s[l] => k = l
      BY <1>1 DEF OnceEach, IsInjective
    <3>2. \A k, l \in 1..Len(t) : t[k] = t[l] => k = l
      BY <1>1 DEF OnceEach, IsInjective
    <3>3. CASE u[i] \in S
      BY <1>3, <2>1, <3>1, <3>3
    <3>4. CASE u[i] \notin S
      BY <1>3, <2>1, <3>2, <3>4
    <3> QED BY <3>3, <3>4
  <2> QED BY <2>1 DEF IsInjective
<1>5. ASSUME NEW a, NEW b, Earlier(s, a, b) PROVE Earlier(u, a, b)
  BY <1>1, <1>2, <1>5 DEF Earlier
<1>6. ASSUME NEW a, NEW b, Earlier(t, a, b) PROVE Earlier(u, a, b)
  <2>1. PICK i \in 1..Len(t), j \in 1..Len(t) : i < j /\ t[i] = a /\ t[j] = b
    BY <1>1, <1>6 DEF Earlier
  <2>2. Len(s) + i < Len(s) + j
    BY <1>1, <2>1
  <2> QED BY <1>2, <2>1, <2>2 DEF Earlier
<1>7. ASSUME NEW a \in S, NEW b \in T PROVE Earlier(u, a, b)
  <2>1. PICK i \in 1..Len(s) : s[i] = a
    BY <1>1 DEF ToSet
  <2>2. PICK j \in 1..Len(t) : t[j] = b
    BY <1>1 DEF ToSet
  <2>3. i < Len(s) + j
    BY <1>1
  <2> QED BY <1>2, <2>1, <2>2, <2>3 DEF Earlier
<1> QED BY <1>2, <1>4, <1>5, <1>6, <1>7 DEF u, OnceEach

LEMMA OnceAppend ==
  ASSUME NEW list, NEW S, NEW e, OnceEach(list, S), e \notin S
  PROVE  /\ OnceEach(Append(list, e), S \union {e})
         /\ \A a, b : Earlier(list, a, b) => Earlier(Append(list, e), a, b)
         /\ \A a \in S : Earlier(Append(list, e), a, e)
<1> DEFINE t == Append(list, e)
           n == Len(list)
<1>1. IsList(list) /\ ToSet(list) = S /\ n \in Nat /\ DOMAIN list = 1..n
  BY ListIsSeq DEF OnceEach
<1>2. /\ IsList(t) /\ DOMAIN t = 1..(n + 1) /\ ToSet(t) = S \union {e}
      /\ t[n + 1] = e /\ \A i \in 1..n : t[i] = list[i]
  BY <1>1, ListAppend
<1> HIDE DEF t, n
<1>3. \A i \in DOMAIN t : i = n + 1 \/ (i \in 1..n /\ t[i] = list[i] /\ t[i] # e)
  <2>1. \A i \in DOMAIN t : i = n + 1 \/ i \in 1..n
    BY <1>1, <1>2
  <2>2. \A i \in 1..n : list[i] \in S
    BY <1>1 DEF ToSet
  <2> QED BY <2>1, <2>2, <1>2
<1>4. IsInjective(t)
  <2>1. \A i, j \in 1..n : list[i] = list[j] => i = j
    BY <1>1 DEF OnceEach, IsInjective
  <2>2. \A i, j \in DOMAIN t : t[i] = t[j] => i = j
    BY <1>2, <1>3, <2>1
  <2> QED BY <2>2 DEF IsInjective
<1>5. ASSUME NEW a, NEW b, Earlier(list, a, b) PROVE Earlier(t, a, b)
  BY <1>1, <1>2, <1>5 DEF Earlier
<1>6. ASSUME NEW a \in S PROVE Earlier(t, a, e)
  <2>1. PICK i \in 1..n : list[i] = a
    BY <1>1 DEF ToSet
  <2>2. i < n + 1 /\ i \in DOMAIN t /\ n + 1 \in DOMAIN t
    BY <1>1, <1>2
  <2> QED BY <1>2, <2>1, <2>2 DEF Earlier
<1> QED BY <1>2, <1>4, <1>5, <1>6 DEF t, OnceEach

LEMMA OnceLen ==
  ASSUME NEW list, NEW S, OnceEach(list, S)
  PROVE  IsFiniteSet(S) /\ Cardinality(S) = Len(list)
<1> DEFINE n == Len(list)
<1>1. list \in Seq(S) /\ n \in Nat /\ DOMAIN list = 1..n /\ list \in [1..n -> S]
  BY ListIsSeq, LenProperties DEF OnceEach
<1> HIDE DEF n
<1>2. list \in Bijection(1..n, S)
  <2>1. list \in Injection(1..n, S)
    BY <1>1 DEF OnceEach, IsInjective, Injection
  <2>2. list \in Surjection(1..n, S)
    BY <1>1 DEF OnceEach, ToSet, Surjection
  <2> QED BY <2>1, <2>2 DEF Bijection
<1>3. IsFiniteSet(1..n) /\ Cardinality(1..n) = n
  BY <1>1, FS_Interval
<1>4. ExistsBijection(1..n, S)
  BY <1>2 DEF ExistsBijection
<1> QED BY <1>3, <1>4, FS_Bijection DEF n

LEMMA EarlierIs ==
  ASSUME NEW list, NEW S, OnceEach(list, S), NEW s, NEW t, Earlier(list, s, t)
  PROVE  s \in S /\ t \in S /\ ~Earlier(list, t, s)
<1>1. DOMAIN list \subseteq Nat /\ ToSet(list) = S
  BY ListIsSeq DEF OnceEach
<1> QED BY <1>1 DEF OnceEach, Earlier, IsInjective, ToSet

\* The members of A, in the order of the list.
LEMMA AmongIs ==
  ASSUME NEW list, NEW A, IsList(list)
  PROVE  /\ IsList(Among(list, A)) /\ ToSet(Among(list, A)) = ToSet(list) \cap A
         /\ IsInjective(list) => OnceEach(Among(list, A), ToSet(list) \cap A)
         /\ \A s, t \in A : Earlier(list, s, t) => Earlier(Among(list, A), s, t)
<1> DEFINE n == Len(list)
           T == Seq(ToSet(list))
           Added(i, sofar) == IF list[i] \in A THEN Append(sofar, list[i]) ELSE sofar
           step == [i \in 1..n |-> [sofar \in T |-> Added(i, sofar)]]
           Solved(among) ==
             among = [i \in 0..n |-> IF i = 0 THEN <<>> ELSE Added(i, among[i - 1])]
           result == CHOOSE among : Solved(among)
<1>1. n \in Nat /\ DOMAIN list = 1..n /\ <<>> \in T /\ \A i \in 1..n : list[i] \in ToSet(list)
  BY ListIsSeq, EmptySeq DEF ToSet
<1>2. Among(list, A) = result[n]
  BY DEF Among
<1>3. Solved(result)
  <2>1. step \in Steps(n, T)
    <3>1. ASSUME NEW i \in 1..n, NEW sofar \in T PROVE Added(i, sofar) \in T
      BY <1>1, AppendProperties
    <3> QED BY <3>1 DEF Steps
  <2>2. PICK F : IsRun(F, n, T, <<>>, step)
    <3>1. n \in Nat /\ <<>> \in T
      BY <1>1
    <3> HIDE DEF n, T, step
    <3> QED BY <3>1, <2>1, Recursion
  <2>3. \A i \in 1..n : step[i][F[i - 1]] = Added(i, F[i - 1])
    <3>1. \A i \in 1..n : i - 1 \in 0..n
      BY <1>1
    <3>2. \A i \in 1..n : F[i - 1] \in T
      <4> HIDE DEF T, n
      <4> QED BY <3>1, <2>2 DEF IsRun
    <3> HIDE DEF T, Added
    <3> QED BY <3>2
  <2>4. Solved(F)
    <3> HIDE DEF step, Added, T
    <3> QED BY <1>1, <2>2, <2>3 DEF IsRun
  <2> HIDE DEF Solved
  <2> QED BY <2>4
<1> HIDE DEF result
<1>4. result[0] = <<>> /\ \A i \in 1..n : result[i] = Added(i, result[i - 1])
  <2>1. 0 \in 0..n /\ \A i \in 1..n : i \in 0..n /\ i # 0
    BY <1>1
  <2> HIDE DEF Added, n
  <2> QED BY <2>1, <1>3
<1> DEFINE Upto(i) == {list[j] : j \in 1..i}
           Good(i) ==
             /\ IsList(result[i]) /\ ToSet(result[i]) = Upto(i) \cap A
             /\ IsInjective(list) => IsInjective(result[i])
             /\ \A j, k \in 1..i : j < k /\ list[j] \in A /\ list[k] \in A
                                     => Earlier(result[i], list[j], list[k])
           P == {i \in 0..n : Good(i)}
<1>5. 0 \in P
  BY <1>1, <1>4, OnceEmpty DEF OnceEach
<1>6. ASSUME NEW i \in 0..(n - 1), i \in P PROVE i + 1 \in P
  <2> DEFINE sofar == result[i]
             e == list[i + 1]
  <2>1. Good(i) /\ i + 1 \in 1..n /\ result[i + 1] = Added(i + 1, sofar)
    BY <1>1, <1>4, <1>6
  <2>2. Upto(i + 1) = Upto(i) \union {e}
    BY <1>1
  <2>3. \A j, k \in 1..(i + 1) : j < k => j \in 1..i /\ (k \in 1..i \/ k = i + 1)
    OBVIOUS
  <2>4. CASE e \notin A
    <3>1. result[i + 1] = sofar
      BY <2>1, <2>4
    <3>2. ToSet(sofar) = Upto(i + 1) \cap A
      BY <2>1, <2>2, <2>4
    <3>3. Good(i + 1)
      <4> HIDE DEF sofar, Upto
      <4> QED BY <2>1, <2>3, <2>4, <3>1, <3>2 DEF sofar
    <3> HIDE DEF Good
    <3> QED BY <2>1, <3>3
  <2>5. CASE e \in A
    <3>1. result[i + 1] = Append(sofar, e)
      BY <2>1, <2>5
    <3>2. /\ IsList(Append(sofar, e)) /\ ToSet(Append(sofar, e)) = ToSet(sofar) \union {e}
          /\ DOMAIN Append(sofar, e) = 1..(Len(sofar) + 1)
          /\ Append(sofar, e)[Len(sofar) + 1] = e
          /\ \A j \in 1..Len(sofar) : Append(sofar, e)[j] = sofar[j]
      BY <2>1, ListAppend
    <3>3. IsList(sofar) /\ DOMAIN sofar = 1..Len(sofar) /\ Len(sofar) \in Nat
      BY <2>1, ListIsSeq
    <3>4. ToSet(Append(sofar, e)) = Upto(i + 1) \cap A
      BY <2>1, <2>2, <2>5, <3>2
    <3>5. ASSUME IsInjective(list) PROVE IsInjective(Append(sofar, e))
      <4>1. e \notin Upto(i)
        BY <1>1, <2>1, <3>5 DEF IsInjective
      <4>2. OnceEach(sofar, ToSet(sofar)) /\ e \notin ToSet(sofar)
        BY <2>1, <3>5, <4>1 DEF OnceEach
      <4> HIDE DEF sofar, e
      <4> QED BY <4>2, OnceAppend DEF OnceEach
    <3>6. \A a, b : Earlier(sofar, a, b) => Earlier(Append(sofar, e), a, b)
      <4> HIDE DEF sofar, e
      <4> QED BY <3>2, <3>3 DEF Earlier
    <3>7. \A a \in ToSet(sofar) : Earlier(Append(sofar, e), a, e)
      <4>1. ASSUME NEW a \in ToSet(sofar) PROVE Earlier(Append(sofar, e), a, e)
        <5>1. PICK j \in 1..Len(sofar) : sofar[j] = a
          BY <3>3 DEF ToSet
        <5>2. /\ j < Len(sofar) + 1 /\ j \in DOMAIN Append(sofar, e)
              /\ Len(sofar) + 1 \in DOMAIN Append(sofar, e)
          BY <3>2, <3>3
        <5> HIDE DEF sofar, e
        <5> QED BY <5>1, <5>2, <3>2 DEF Earlier
      <4> QED BY <4>1
    <3>8. ASSUME NEW j \in 1..(i + 1), NEW k \in 1..(i + 1), j < k, list[j] \in A, list[k] \in A
          PROVE  Earlier(Append(sofar, e), list[j], list[k])
      <4>1. CASE k \in 1..i
        <5>1. Earlier(sofar, list[j], list[k])
          BY <2>1, <2>3, <3>8, <4>1
        <5> QED BY <5>1, <3>6
      <4>2. CASE k = i + 1
        <5>1. list[j] \in ToSet(sofar)
          BY <2>1, <2>3, <3>8
        <5> QED BY <5>1, <3>7, <4>2
      <4> QED BY <4>1, <4>2, <2>3, <3>8
    <3>9. Good(i + 1)
      <4> HIDE DEF sofar, Upto, e
      <4> QED BY <3>1, <3>2, <3>4, <3>5, <3>8
    <3> HIDE DEF Good
    <3> QED BY <2>1, <3>9
  <2> QED BY <2>4, <2>5
<1>7. Good(n)
  <2>1. \A i \in 0..n : i \in P
    <3> HIDE DEF P
    <3> QED BY <1>1, <1>5, <1>6, UpTo
  <2> HIDE DEF Good
  <2> QED BY <1>1, <2>1
<1>8. ToSet(list) = Upto(n)
  BY <1>1 DEF ToSet
<1>9. ASSUME NEW s \in A, NEW t \in A, Earlier(list, s, t) PROVE Earlier(result[n], s, t)
  <2>1. PICK j \in 1..n, k \in 1..n : j < k /\ list[j] = s /\ list[k] = t
    BY <1>1, <1>9 DEF Earlier
  <2> QED BY <1>7, <2>1
<1> QED BY <1>2, <1>7, <1>8, <1>9 DEF OnceEach

\* sorted: each member once.
LEMMA AscendingIs ==
  ASSUME NEW S, S \subseteq Nat, IsFiniteSet(S)
  PROVE  OnceEach(Ascending(S), S)
<1> DEFINE n == Cardinality(S)
           U == S \union {Min({})}
           T == Seq(U)
           Added(sofar) == Append(sofar, Min(S \ ToSet(sofar)))
           step == [i \in 1..n |-> [sofar \in T |-> Added(sofar)]]
           Solved(list) ==
             list = [i \in 0..n |-> IF i = 0 THEN <<>> ELSE Added(list[i - 1])]
           result == CHOOSE list : Solved(list)
<1>1. n \in Nat /\ <<>> \in T
  BY FS_CardinalityType, EmptySeq
<1>2. Ascending(S) = result[n]
  BY DEF Ascending
<1>3. ASSUME NEW out, S \ out # {} PROVE Min(S \ out) \in S \ out
  <2>1. \E x \in S \ out : \A y \in S \ out : x <= y
    BY <1>3, LeastNatural
  <2> QED BY <2>1 DEF Min
<1>4. Solved(result)
  <2>1. step \in Steps(n, T)
    <3>1. ASSUME NEW sofar \in T PROVE Added(sofar) \in T
      <4>1. Min(S \ ToSet(sofar)) \in U
        <5>1. CASE S \ ToSet(sofar) = {}
          BY <5>1
        <5>2. CASE S \ ToSet(sofar) # {}
          BY <5>2, <1>3
        <5> QED BY <5>1, <5>2
      <4> HIDE DEF U
      <4> QED BY <4>1, AppendProperties
    <3> QED BY <3>1 DEF Steps
  <2>2. PICK F : IsRun(F, n, T, <<>>, step)
    <3> HIDE DEF n, T, step
    <3> QED BY <1>1, <2>1, Recursion
  <2>3. \A i \in 1..n : step[i][F[i - 1]] = Added(F[i - 1])
    <3>1. \A i \in 1..n : i - 1 \in 0..n
      BY <1>1
    <3>2. \A i \in 1..n : F[i - 1] \in T
      <4> HIDE DEF T, n
      <4> QED BY <3>1, <2>2 DEF IsRun
    <3> HIDE DEF T, Added
    <3> QED BY <3>2
  <2>4. Solved(F)
    <3> HIDE DEF step, Added, T
    <3> QED BY <1>1, <2>2, <2>3 DEF IsRun
  <2> HIDE DEF Solved
  <2> QED BY <2>4
<1> HIDE DEF result
<1>5. result[0] = <<>> /\ \A i \in 1..n : result[i] = Added(result[i - 1])
  <2>1. 0 \in 0..n /\ \A i \in 1..n : i \in 0..n /\ i # 0
    BY <1>1
  <2> HIDE DEF Added, n
  <2> QED BY <2>1, <1>4
<1> DEFINE Good(i) ==
             /\ OnceEach(result[i], ToSet(result[i])) /\ ToSet(result[i]) \subseteq S
             /\ Len(result[i]) = i
           P == {i \in 0..n : Good(i)}
<1>6. 0 \in P
  BY <1>1, <1>5, OnceEmpty, EmptySeq DEF OnceEach
<1>7. ASSUME NEW i \in 0..(n - 1), i \in P PROVE i + 1 \in P
  <2> DEFINE sofar == result[i]
             out == ToSet(sofar)
             e == Min(S \ out)
  <2>1. Good(i) /\ i + 1 \in 1..n /\ i + 1 \in 0..n /\ i < n /\ result[i + 1] = Append(sofar, e)
    <3>1. Good(i) /\ i + 1 \in 1..n /\ i + 1 \in 0..n /\ i < n
      BY <1>1, <1>7
    <3>2. result[i + 1] = Added(result[(i + 1) - 1]) /\ (i + 1) - 1 = i
      <4>1. (i + 1) - 1 = i
        OBVIOUS
      <4> HIDE DEF Added, n
      <4> QED BY <3>1, <4>1, <1>5
    <3> QED BY <3>1, <3>2
  <2>2. Cardinality(out) = i
    <3> HIDE DEF out, sofar
    <3> QED BY <2>1, OnceLen DEF sofar, out
  <2>3. S \ out # {}
    <3>1. out # S
      BY <2>1, <2>2
    <3> QED BY <2>1, <3>1
  <2>4. e \in S \ out
    <3> HIDE DEF out
    <3> QED BY <2>3, <1>3
  <2>5. OnceEach(Append(sofar, e), out \union {e}) /\ Len(Append(sofar, e)) = i + 1
    <3>1. OnceEach(sofar, out) /\ IsList(sofar) /\ e \notin out /\ Len(sofar) = i
      BY <2>1, <2>4 DEF OnceEach
    <3> HIDE DEF sofar, out, e
    <3> QED BY <3>1, OnceAppend, ListAppend
  <2>6. Good(i + 1)
    <3> HIDE DEF e
    <3> QED BY <2>1, <2>4, <2>5 DEF OnceEach
  <2> HIDE DEF Good
  <2> QED BY <2>1, <2>6
<1>8. Good(n)
  <2>1. \A i \in 0..n : i \in P
    <3> HIDE DEF P, n
    <3> QED BY <1>1, <1>6, <1>7, UpTo
  <2> HIDE DEF Good
  <2> QED BY <1>1, <2>1
<1>9. ToSet(result[n]) = S
  <2>1. Cardinality(ToSet(result[n])) = n
    BY <1>8, OnceLen
  <2> QED BY <1>8, <2>1, FS_Subset
<1> QED BY <1>2, <1>8, <1>9

\* n lists, each holding the members of its own set once.
Layers(n, lists, sets) ==
  /\ n \in Nat \ {0} /\ DOMAIN lists = 1..n /\ lists = [i \in 1..n |-> lists[i]]
  /\ \A i \in 1..n : OnceEach(lists[i], sets[i])
  /\ \A i, j \in 1..n : i # j => sets[i] \cap sets[j] = {}

LEMMA FlattenIs ==
  ASSUME NEW n, NEW lists, NEW sets, Layers(n, lists, sets)
  PROVE  /\ OnceEach(FlattenSeq(lists), UNION {sets[i] : i \in 1..n})
         /\ \A i \in 1..n : \A s, t :
              Earlier(lists[i], s, t) => Earlier(FlattenSeq(lists), s, t)
         /\ \A i, j \in 1..n : \A s \in sets[i], t \in sets[j] :
              i < j => Earlier(FlattenSeq(lists), s, t)
<1> DEFINE Upto(i) == UNION {sets[j] : j \in 1..i}
           T == Seq(Upto(n))
           Added(i, sofar) == IF i = 1 THEN lists[i] ELSE sofar \o lists[i]
           step == [i \in 1..n |-> [sofar \in T |-> Added(i, sofar)]]
           Solved(flatten) ==
             flatten = [i \in 1..n |-> IF i = 1 THEN lists[i] ELSE flatten[i - 1] \o lists[i]]
           result == CHOOSE flatten : Solved(flatten)
<1>1. n \in Nat /\ n > 0 /\ <<>> \in T /\ \A i \in 1..n : lists[i] \in T
  <2>1. n \in Nat /\ n > 0 /\ <<>> \in T
    BY EmptySeq DEF Layers
  <2>2. ASSUME NEW i \in 1..n PROVE lists[i] \in T
    <3>1. IsList(lists[i]) /\ ToSet(lists[i]) \subseteq Upto(n)
      BY <2>2 DEF Layers, OnceEach
    <3> HIDE DEF Upto
    <3> QED BY <3>1, ListIsSeq
  <2> QED BY <2>1, <2>2
<1>2. Len(lists) = n
  <2>1. lists \in [1..n -> T]
    BY <1>1 DEF Layers
  <2>2. lists \in Seq(T)
    <3> HIDE DEF T
    <3> QED BY <1>1, <2>1, SeqDef
  <2>3. Len(lists) \in Nat /\ 1..Len(lists) = 1..n
    BY <2>2, LenProperties DEF Layers
  <2> QED BY <1>1, <2>3
<1>3. FlattenSeq(lists) = result[n]
  BY <1>1, <1>2 DEF FlattenSeq
<1>4. Solved(result)
  <2>1. step \in Steps(n, T)
    <3>1. ASSUME NEW i \in 1..n, NEW sofar \in T PROVE Added(i, sofar) \in T
      <4> HIDE DEF T
      <4> QED BY <1>1, ConcatProperties DEF T
    <3> QED BY <3>1 DEF Steps
  <2>2. PICK F : IsRun(F, n, T, <<>>, step)
    <3> HIDE DEF T, step
    <3> QED BY <1>1, <2>1, Recursion
  <2>3. \A i \in 1..n : step[i][F[i - 1]] = Added(i, F[i - 1])
    <3>1. \A i \in 1..n : i - 1 \in 0..n
      BY <1>1
    <3>2. \A i \in 1..n : F[i - 1] \in T
      <4> HIDE DEF T
      <4> QED BY <3>1, <2>2 DEF IsRun
    <3> HIDE DEF T, Added
    <3> QED BY <3>2
  <2> DEFINE G == [i \in 1..n |-> F[i]]
  <2>4. Solved(G)
    <3>1. \A i \in 1..n : G[i] = Added(i, F[i - 1])
      <4> HIDE DEF step, Added, T
      <4> QED BY <1>1, <2>2, <2>3 DEF IsRun
    <3>2. \A i \in 1..n : i = 1 \/ (i - 1 \in 1..n /\ G[i - 1] = F[i - 1])
      BY <1>1
    <3>3. \A i \in 1..n : G[i] = IF i = 1 THEN lists[i] ELSE G[i - 1] \o lists[i]
      <4> HIDE DEF G
      <4> QED BY <3>1, <3>2
    <3>4. G = [i \in 1..n |-> G[i]]
      OBVIOUS
    <3> HIDE DEF G
    <3> QED BY <3>3, <3>4
  <2> HIDE DEF Solved, G
  <2> QED BY <2>4
<1> HIDE DEF result
<1>5. result[1] = lists[1]
      /\ \A i \in 1..n : i # 1 => result[i] = result[i - 1] \o lists[i]
  <2>1. 1 \in 1..n
    BY <1>1
  <2>2. \A i \in 1..n :
          result[i] = IF i = 1 THEN lists[i] ELSE result[i - 1] \o lists[i]
    BY <1>4, Zenon
  <2> QED BY <2>1, <2>2
<1> DEFINE Good(i) ==
             /\ OnceEach(result[i], Upto(i))
             /\ \A k \in 1..i : \A s, t : Earlier(lists[k], s, t) => Earlier(result[i], s, t)
             /\ \A j, k \in 1..i : \A s \in sets[j], t \in sets[k] :
                  j < k => Earlier(result[i], s, t)
           P == {i \in 0..(n - 1) : Good(i + 1)}
<1>6. 0 \in P
  <2>1. Upto(1) = sets[1] /\ OnceEach(lists[1], sets[1]) /\ 1 \in 1..n
    BY <1>1 DEF Layers
  <2>2. \A j, k \in 1..1 : ~(j < k)
    OBVIOUS
  <2>3. \A k \in 1..1 : k = 1
    OBVIOUS
  <2>4. Good(1)
    <3> HIDE DEF Upto
    <3> QED BY <1>5, <2>1, <2>2, <2>3
  <2>5. 0 + 1 = 1 /\ 0 \in 0..(n - 1)
    BY <1>1
  <2> HIDE DEF Good
  <2> QED BY <2>4, <2>5
<1>7. ASSUME NEW m \in 0..((n - 1) - 1), m \in P PROVE m + 1 \in P
  <2> DEFINE i == m + 1
             next == i + 1
  <2>1. /\ Good(i) /\ i \in 1..n /\ next \in 1..n /\ next # 1 /\ next - 1 = i
        /\ m + 1 \in 0..(n - 1) /\ i < next /\ i \in Nat
    BY <1>1, <1>7
  <2>2. \A k \in 1..next : k = next \/ k \in 1..i
    BY <2>1
  <2>3. \A k \in 1..i : k \in 1..n /\ k < next /\ k \in 1..next
    BY <1>1, <1>7
  <2> HIDE DEF next, i
  <2>4. result[next] = result[i] \o lists[next]
    <3> HIDE DEF Good
    <3> QED BY <1>5, <2>1
  <2>5. OnceEach(lists[next], sets[next])
    BY <2>1 DEF Layers
  <2>6. Upto(i) \cap sets[next] = {} /\ Upto(next) = Upto(i) \union sets[next]
    <3>1. \A k \in 1..i : sets[k] \cap sets[next] = {}
      BY <2>1, <2>3 DEF Layers
    <3>2. next \in 1..next
      BY <2>1
    <3> QED BY <3>1, <3>2, <2>2, <2>3
  <2>7. /\ OnceEach(result[next], Upto(next))
        /\ \A a, b : Earlier(result[i], a, b) \/ Earlier(lists[next], a, b)
                       => Earlier(result[next], a, b)
        /\ \A a \in Upto(i), b \in sets[next] : Earlier(result[next], a, b)
    <3> DEFINE A == Upto(i)
               B == sets[next]
               C == Upto(next)
               r == result[i]
               l == lists[next]
               u == result[next]
    <3>1. OnceEach(r, A) /\ OnceEach(l, B) /\ A \cap B = {} /\ C = A \union B /\ u = r \o l
      BY <2>1, <2>4, <2>5, <2>6
    <3> HIDE DEF A, B, C, r, l, u
    <3>2. /\ OnceEach(u, C) /\ \A a, b : Earlier(r, a, b) \/ Earlier(l, a, b) => Earlier(u, a, b)
          /\ \A a \in A, b \in B : Earlier(u, a, b)
      BY <3>1, OnceConcat
    <3> QED BY <3>2 DEF A, B, C, r, l, u
  <2>8. ASSUME NEW j \in 1..next, NEW k \in 1..next, NEW s \in sets[j], NEW t \in sets[k], j < k
        PROVE  Earlier(result[next], s, t)
    <3>1. j \in 1..i
      BY <2>1, <2>2, <2>3, <2>8
    <3>2. CASE k \in 1..i
      BY <2>1, <2>7, <2>8, <3>1, <3>2
    <3>3. CASE k = next
      <4>1. s \in Upto(i)
        BY <3>1
      <4> HIDE DEF Upto
      <4> QED BY <2>7, <3>3, <4>1
    <3> QED BY <2>2, <3>2, <3>3
  <2>9. ASSUME NEW k \in 1..next, NEW s, NEW t, Earlier(lists[k], s, t)
        PROVE  Earlier(result[next], s, t)
    BY <2>1, <2>2, <2>7, <2>9
  <2>10. Good(next)
    <3> HIDE DEF Upto
    <3> QED BY <2>7, <2>8, <2>9
  <2> HIDE DEF Good
  <2> QED BY <2>1, <2>10 DEF next, i
<1>8. Good(n)
  <2>1. \A i \in 0..(n - 1) : i \in P
    <3>1. n - 1 \in Nat
      BY <1>1
    <3> HIDE DEF P
    <3> QED BY <1>1, <1>6, <1>7, <3>1, UpTo
  <2>2. n - 1 \in 0..(n - 1) /\ (n - 1) + 1 = n
    BY <1>1
  <2> HIDE DEF Good
  <2> QED BY <2>1, <2>2
<1> QED BY <1>3, <1>8
=============================================================================
