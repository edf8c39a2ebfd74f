----------------------------- MODULE ListLemmas -----------------------------
(***************************************************************************)
(* Facts about natural numbers and finite sequences that the proofs share: *)
(* a least number with a property, which stands for induction, and what    *)
(* joining, shortening and counting do to a sequence whatever its elements *)
(* are.                                                                    *)
(***************************************************************************)
EXTENDS Integers, SequenceTheorems, FiniteSetTheorems, FunctionTheorems,
        WellFoundedInduction, TLAPS

\* Every set of natural numbers that is not empty has a least element.
LEMMA LeastNumber ==
  ASSUME NEW T \in SUBSET Nat, T # {}
  PROVE  \E n \in T : \A m \in T : n <= m
<1> DEFINE R == OpToRel(<, Nat)
<1>1. IsWellFoundedOn(R, Nat)
  BY NatLessThanWellFounded
<1>2. \A m, n \in Nat : <<m, n>> \in R <=> m < n
  BY DEF OpToRel
<1> HIDE DEF R
<1>3. PICK n \in T : \A m \in T : ~ (<<m, n>> \in R)
  BY <1>1, WFMin
<1>4. n \in Nat /\ \A m \in T : m \in Nat /\ ~(m < n)
  BY <1>2, <1>3
<1> QED
  BY <1>4

\* Induction, with the set of the numbers that are not refuted in the place of a
\* predicate.
LEMMA Induct ==
  ASSUME NEW T, 0 \in T, \A n \in Nat : n \in T => n + 1 \in T
  PROVE  Nat \subseteq T
<1> SUFFICES ASSUME Nat \ T # {} PROVE FALSE
  OBVIOUS
<1>1. PICK n \in Nat \ T : \A m \in Nat \ T : n <= m
  BY LeastNumber
<1>2. n # 0 /\ n \in Nat
  BY <1>1
<1>3. n - 1 \in Nat /\ ~(n <= n - 1) /\ (n - 1) + 1 = n
  BY <1>2
<1>4. n - 1 \in T
  BY <1>1, <1>3
<1> QED
  BY <1>1, <1>3, <1>4

-----------------------------------------------------------------------------
\* A finite sequence of whatever elements.
IsList(s) == \E S : s \in Seq(S)

LEMMA ListFacts ==
  ASSUME NEW s, IsList(s)
  PROVE  Len(s) \in Nat /\ DOMAIN s = 1..Len(s) /\ s = [i \in 1..Len(s) |-> s[i]]
<1>1. PICK S : s \in Seq(S)
  BY DEF IsList
<1> QED
  BY <1>1, LenProperties

LEMMA ListOf ==
  ASSUME NEW f, NEW n \in Nat, f = [i \in 1..n |-> f[i]]
  PROVE  IsList(f) /\ Len(f) = n /\ DOMAIN f = 1..n
<1> DEFINE S == {f[i] : i \in 1..n}
<1>1. f \in [1..n -> S]
  OBVIOUS
<1>2. f \in Seq(S)
  BY <1>1
<1>3. IsList(f) /\ DOMAIN f = 1..n
  BY <1>1, <1>2 DEF IsList
<1>4. Len(f) \in Nat /\ DOMAIN f = 1..Len(f)
  BY <1>3, ListFacts
<1>5. Len(f) = n
  BY <1>3, <1>4
<1> QED
  BY <1>3, <1>5

LEMMA EmptyList == IsList(<<>>) /\ Len(<<>>) = 0 /\ DOMAIN <<>> = {}
<1>1. <<>> \in Seq({})
  BY EmptySeq
<1> QED
  BY <1>1, EmptySeq DEF IsList

LEMMA SingleList ==
  ASSUME NEW x
  PROVE  IsList(<<x>>) /\ Len(<<x>>) = 1 /\ DOMAIN <<x>> = {1} /\ <<x>>[1] = x
<1>1. <<x>> \in Seq({x}) /\ Len(<<x>>) = 1
  OBVIOUS
<1>2. DOMAIN <<x>> = 1..1 /\ 1..1 = {1}
  BY <1>1, LenProperties
<1>3. <<x>>[1] = x
  OBVIOUS
<1> QED
  BY <1>1, <1>2, <1>3 DEF IsList

LEMMA PairList ==
  ASSUME NEW x, NEW y
  PROVE  IsList(<<x, y>>) /\ Len(<<x, y>>) = 2 /\ <<x, y>>[1] = x /\ <<x, y>>[2] = y
<1>1. <<x, y>> \in Seq({x, y}) /\ Len(<<x, y>>) = 2
  OBVIOUS
<1>2. <<x, y>>[1] = x /\ <<x, y>>[2] = y
  OBVIOUS
<1> QED
  BY <1>1, <1>2 DEF IsList

LEMMA JoinedList ==
  ASSUME NEW s, IsList(s), NEW t, IsList(t)
  PROVE  /\ IsList(s \o t)
         /\ Len(s \o t) = Len(s) + Len(t)
         /\ DOMAIN (s \o t) = 1..(Len(s) + Len(t))
         /\ \A i \in 1..Len(s) : (s \o t)[i] = s[i]
         /\ \A i \in 1..Len(t) : (s \o t)[i + Len(s)] = t[i]
<1>1. PICK S : s \in Seq(S)
  BY DEF IsList
<1>2. PICK T : t \in Seq(T)
  BY DEF IsList
<1> DEFINE U == S \cup T
<1>3. s \in Seq(U) /\ t \in Seq(U)
  BY <1>1, <1>2, SeqMonotonic
<1>4. Len(s) \in Nat /\ Len(t) \in Nat
  BY <1>3, LenProperties
<1> HIDE DEF U
<1>5. s \o t \in Seq(U) /\ Len(s \o t) = Len(s) + Len(t)
  BY <1>3, ConcatProperties
<1>6. \A i \in 1 .. Len(s) + Len(t) : (s \o t)[i] = IF i <= Len(s) THEN s[i] ELSE t[i - Len(s)]
  BY <1>3, ConcatProperties
<1>7. \A i \in 1..Len(t) : (s \o t)[i + Len(s)] = t[i]
  <2> TAKE i \in 1..Len(t)
  <2>1. i + Len(s) \in 1..Len(s) + Len(t) /\ ~(i + Len(s) <= Len(s)) /\ (i + Len(s)) - Len(s) = i
    BY <1>4
  <2> QED
    BY <1>6, <2>1
<1>8. \A i \in 1..Len(s) : (s \o t)[i] = s[i]
  BY <1>4, <1>6
<1>9. DOMAIN (s \o t) = 1..(Len(s) + Len(t))
  BY <1>5, LenProperties
<1> QED
  BY <1>5, <1>7, <1>8, <1>9 DEF IsList

LEMMA LongerList ==
  ASSUME NEW s, IsList(s), NEW x
  PROVE  /\ IsList(Append(s, x))
         /\ Len(Append(s, x)) = Len(s) + 1
         /\ Append(s, x) = s \o <<x>>
         /\ \A i \in 1..Len(s) : Append(s, x)[i] = s[i]
         /\ Append(s, x)[Len(s) + 1] = x
<1>1. PICK S : s \in Seq(S)
  BY DEF IsList
<1> DEFINE U == S \cup {x}
<1>2. s \in Seq(U) /\ x \in U
  BY <1>1, SeqMonotonic
<1> HIDE DEF U
<1>3. Append(s, x) \in Seq(U) /\ Len(Append(s, x)) = Len(s) + 1
  BY <1>2
<1>4. /\ Append(s, x) = s \o <<x>>
      /\ \A i \in 1..Len(s) : Append(s, x)[i] = s[i]
      /\ Append(s, x)[Len(s) + 1] = x
  BY <1>2
<1> QED
  BY <1>3, <1>4 DEF IsList

\* What is not empty has a head and a tail.
LEMMA ShorterList ==
  ASSUME NEW s, IsList(s), s # <<>>
  PROVE  /\ IsList(Tail(s))
         /\ Len(s) = Len(Tail(s)) + 1 /\ 1 \in DOMAIN s /\ Head(s) = s[1]
         /\ s = <<Head(s)>> \o Tail(s)
         /\ \A i \in 1..Len(Tail(s)) : Tail(s)[i] = s[i + 1]
<1>1. PICK S : s \in Seq(S)
  BY DEF IsList
<1>2. /\ Head(s) \in S /\ Tail(s) \in Seq(S)
      /\ Len(Tail(s)) = Len(s) - 1
      /\ \A i \in 1..Len(Tail(s)) : Tail(s)[i] = s[i + 1]
  BY <1>1, HeadTailProperties
<1>3. Len(s) \in Nat /\ Len(s) # 0 /\ DOMAIN s = 1..Len(s)
  BY <1>1, LenProperties, EmptySeq
<1>4. s = <<Head(s)>> \o Tail(s)
  BY <1>1
<1> QED
  BY <1>1, <1>2, <1>3, <1>4 DEF IsList

\* A part of a list.
LEMMA PartOfList ==
  ASSUME NEW s, IsList(s), NEW m \in Int, NEW n \in Int
  PROVE  /\ IsList(SubSeq(s, m, n))
         /\ Len(SubSeq(s, m, n)) = IF m <= n THEN n - m + 1 ELSE 0
<1> DEFINE S == {s[i] : i \in m..n}
<1>1. \A i \in m..n : s[i] \in S
  OBVIOUS
<1> HIDE DEF S
<1>2. /\ SubSeq(s, m, n) \in Seq(S)
      /\ Len(SubSeq(s, m, n)) = IF m <= n THEN n - m + 1 ELSE 0
  BY <1>1, SubSeqProperties
<1> QED
  BY <1>2 DEF IsList

\* What a list holds.
Elements(s) == {s[i] : i \in DOMAIN s}

LEMMA NoElements == Elements(<<>>) = {}
BY EmptyList DEF Elements

LEMMA SingleElement ==
  ASSUME NEW x
  PROVE  Elements(<<x>>) = {x}
BY SingleList DEF Elements

LEMMA JoinedElements ==
  ASSUME NEW s, IsList(s), NEW t, IsList(t)
  PROVE  Elements(s \o t) = Elements(s) \cup Elements(t)
<1>1. /\ Len(s) \in Nat /\ Len(t) \in Nat
      /\ DOMAIN s = 1..Len(s) /\ DOMAIN t = 1..Len(t)
  BY ListFacts
<1>2. /\ DOMAIN (s \o t) = 1..(Len(s) + Len(t))
      /\ \A i \in 1..Len(s) : (s \o t)[i] = s[i]
      /\ \A i \in 1..Len(t) : (s \o t)[i + Len(s)] = t[i]
  BY JoinedList
<1>3. ASSUME NEW i \in DOMAIN (s \o t)
      PROVE  (s \o t)[i] \in Elements(s) \cup Elements(t)
  <2>1. CASE i \in 1..Len(s)
    BY <1>1, <1>2, <2>1 DEF Elements
  <2>2. CASE i \notin 1..Len(s)
    <3>1. i - Len(s) \in 1..Len(t) /\ i = (i - Len(s)) + Len(s)
      BY <1>1, <1>2, <2>2
    <3>2. (s \o t)[i] = t[i - Len(s)]
      BY <1>2, <3>1
    <3> QED
      BY <1>1, <3>1, <3>2 DEF Elements
  <2> QED
    BY <2>1, <2>2
<1>4. ASSUME NEW i \in DOMAIN s
      PROVE  s[i] \in Elements(s \o t)
  BY <1>1, <1>2 DEF Elements
<1>5. ASSUME NEW i \in DOMAIN t
      PROVE  t[i] \in Elements(s \o t)
  <2>1. i + Len(s) \in 1..(Len(s) + Len(t))
    BY <1>1
  <2> QED
    BY <1>1, <1>2, <2>1 DEF Elements
<1> QED
  BY <1>3, <1>4, <1>5 DEF Elements

LEMMA LongerElements ==
  ASSUME NEW s, IsList(s), NEW x
  PROVE  Elements(Append(s, x)) = Elements(s) \cup {x}
<1>1. Append(s, x) = s \o <<x>> /\ IsList(<<x>>)
  BY LongerList, SingleList
<1>2. Elements(s \o <<x>>) = Elements(s) \cup Elements(<<x>>)
  BY <1>1, JoinedElements
<1> QED
  BY <1>1, <1>2, SingleElement

LEMMA ShorterElements ==
  ASSUME NEW s, IsList(s), s # <<>>
  PROVE  Head(s) \in Elements(s) /\ Elements(Tail(s)) \subseteq Elements(s)
<1>1. /\ IsList(Tail(s)) /\ s = <<Head(s)>> \o Tail(s)
  BY ShorterList
<1>2. Elements(s) = Elements(<<Head(s)>>) \cup Elements(Tail(s))
  BY <1>1, SingleList, JoinedElements
<1> QED
  BY <1>2, SingleElement

LEMMA OnlyElement ==
  ASSUME NEW s, IsList(s), s # <<>>, Len(s) = 1
  PROVE  Elements(Tail(s)) = {}
<1> DEFINE t == Tail(s)
<1>1. IsList(t) /\ Len(s) = Len(t) + 1
  BY ShorterList
<1> HIDE DEF t
<1>2. Len(t) \in Nat /\ DOMAIN t = 1..Len(t)
  BY <1>1, ListFacts
<1>3. Len(t) = 0
  BY <1>1, <1>2
<1>4. DOMAIN t = {}
  BY <1>2, <1>3
<1> QED
  BY <1>4 DEF Elements, t

\* A set of numbers, moved.
LEMMA MovedNumbers ==
  ASSUME NEW S \in SUBSET Int, IsFiniteSet(S), NEW k \in Int, NEW T,
         T = {i + k : i \in S}
  PROVE  IsFiniteSet(T) /\ Cardinality(T) = Cardinality(S)
<1> DEFINE f == [i \in S |-> i + k]
<1>1. f \in [S -> T]
  OBVIOUS
<1>2. \A i, j \in S : f[i] = f[j] => i = j
  OBVIOUS
<1>3. \A t \in T : \E i \in S : f[i] = t
  OBVIOUS
<1>4. f \in Bijection(S, T)
  BY <1>1, <1>2, <1>3, Zenon DEF Bijection, Injection, Surjection, IsInjective
<1>5. ExistsBijection(S, T)
  BY <1>4 DEF ExistsBijection
<1> QED
  BY <1>5, FS_Bijection

\* A function on 0..n, continued by one value: what one more turn of a loop leaves.
LEMMA OneMoreTurn ==
  ASSUME NEW n \in Nat, NEW f, NEW value, NEW g,
         g = [k \in 0..(n + 1) |-> IF k = n + 1 THEN value ELSE f[k]]
  PROVE  /\ DOMAIN g = 0..(n + 1)
         /\ \A k \in 0..n : g[k] = f[k]
         /\ \A k \in 1..n : g[k - 1] = f[k - 1]
         /\ g[n + 1] = value
         /\ g[(n + 1) - 1] = f[n]
<1>1. \A k \in 0..n : k # n + 1 /\ k \in 0..(n + 1)
  OBVIOUS
<1>2. \A k \in 1..n : k - 1 # n + 1 /\ k - 1 \in 0..(n + 1)
  OBVIOUS
<1>3. n + 1 \in 0..(n + 1) /\ (n + 1) - 1 = n /\ n \in 0..n
  OBVIOUS
<1>4. \A k \in 0..n : g[k] = f[k]
  BY <1>1
<1>5. \A k \in 1..n : g[k - 1] = f[k - 1]
  BY <1>2
<1> QED
  BY <1>3, <1>4, <1>5

\* A loop that stays in a set of values goes through to its end.
LEMMA LoopRuns ==
  ASSUME NEW S, NEW base \in S, NEW N \in Nat, NEW step \in [1..N -> [S -> S]]
  PROVE  \E f \in [0..N -> S] :
           f[0] = base /\ \A k \in 1..N : f[k] = step[k][f[k - 1]]
<1> DEFINE Runs(n, f) == /\ f \in [0..n -> S] /\ f[0] = base
                         /\ \A k \in 1..n : f[k] = step[k][f[k - 1]]
           Reached == {n \in Nat : n <= N => \E f : Runs(n, f)}
<1>1. 0 \in Reached
  <2> DEFINE f == [k \in 0..0 |-> base]
  <2>1. Runs(0, f)
    OBVIOUS
  <2> QED
    BY <2>1
<1>2. \A n \in Nat : n \in Reached => n + 1 \in Reached
  <2>1. ASSUME NEW n \in Nat, n + 1 <= N, NEW f, Runs(n, f)
        PROVE  \E g : Runs(n + 1, g)
    <3> DEFINE value == step[n + 1][f[n]]
               g == [k \in 0..(n + 1) |-> IF k = n + 1 THEN value ELSE f[k]]
    <3>1. n \in 0..n /\ n + 1 \in 1..N
      BY <2>1
    <3>2. value \in S
      BY <2>1, <3>1
    <3> HIDE DEF value
    <3>3. /\ \A k \in 0..n : g[k] = f[k]
          /\ \A k \in 1..n : g[k - 1] = f[k - 1]
          /\ g[n + 1] = value /\ g[(n + 1) - 1] = f[n]
      BY OneMoreTurn
    <3>4. g \in [0..(n + 1) -> S]
      BY <2>1, <3>2
    <3> HIDE DEF g
    <3>5. g[0] = base
      BY <2>1, <3>3
    <3>6. ASSUME NEW k \in 1..(n + 1) PROVE g[k] = step[k][g[k - 1]]
      <4>1. CASE k = n + 1
        BY <3>3, <4>1 DEF value
      <4>2. CASE k # n + 1
        <5>1. k \in 0..n /\ k \in 1..n
          BY <4>2
        <5> QED
          BY <2>1, <3>3, <5>1
      <4> QED
        BY <4>1, <4>2
    <3> QED
      BY <3>4, <3>5, <3>6
  <2>2. ASSUME NEW n \in Nat, n \in Reached, n + 1 <= N PROVE \E f : Runs(n, f)
    BY <2>2
  <2> HIDE DEF Runs
  <2> QED
    BY <2>1, <2>2
<1>3. Nat \subseteq Reached
  <2> HIDE DEF Reached
  <2> QED
    BY <1>1, <1>2, Induct
<1> QED
  BY <1>3

\* The values of a list are not more than its places.
LEMMA NotMoreValues ==
  ASSUME NEW n \in Nat, NEW f, NEW T, T = {f[i] : i \in 1..n}
  PROVE  IsFiniteSet(T) /\ Cardinality(T) <= n
<1> DEFINE g == [i \in 1..n |-> f[i]]
<1>1. g \in [1..n -> T]
  OBVIOUS
<1>2. \A t \in T : \E i \in 1..n : g[i] = t
  OBVIOUS
<1>3. g \in Surjection(1..n, T)
  BY <1>1, <1>2, Zenon DEF Surjection
<1>4. IsFiniteSet(1..n) /\ Cardinality(1..n) = n
  <2>1. 1 \in Int /\ n \in Int /\ (IF 1 > n THEN 0 ELSE n - 1 + 1) = n
    OBVIOUS
  <2> QED
    BY <2>1, FS_Interval
<1> HIDE DEF g
<1> QED
  BY <1>3, <1>4, FS_Surjection
=============================================================================
