--------------------------- MODULE ProfileProofs ---------------------------
(***************************************************************************)
(* Proofs about ProfileFile: whatever the built-in profiles, the file, its *)
(* reloads and the plugins, the calls are obeyed, and a profile that       *)
(* becomes active puts in force what it is given, itself or by inheritance.*)
(*                                                                         *)
(* 1. What the six loops of the registry leave after each turn.            *)
(* 2. One step of _resolveInheritance, domain by domain.                   *)
(* 3. Two registries that agree on what a profile inherits from agree on   *)
(*    what it is given, although they take different numbers of steps.     *)
(* 4. What is resolved is what is given, for as long as nobody on the way  *)
(*    is met twice.                                                        *)
(* 5. Registering, and resolving all there is: for the built-in profiles,  *)
(*    a file on top of them or instead of them, a plugin's profile.        *)
(* 6. The strongest of the calls, and the steps of the profile manager.    *)
(***************************************************************************)
EXTENDS ProfileFile, ListLemmas

(* ------------------------ 1. the loops, turn by turn ------------------ *)

\* A theorem of the library that is about any loop would take the loop's body as a
\* parameter; each of the six has a copy of the argument instead.  The longest run
\* of a loop is reached by induction on the number of turns (Induct), and CHOOSE
\* finds it.

\* What the walk of _resolveInheritance has met after each number of steps, what it
\* has merged, and what is given.
Walks(reg) ==
  CHOOSE loop : loop =
    [k \in Steps(reg) |->
      IF k = 0 THEN [p \in DOMAIN reg |-> [met |-> {}, twice |-> FALSE]]
      ELSE [p \in DOMAIN reg |-> Met(reg, p, loop[k - 1])]]

\* The walk is what is left after its last turn, and each turn but the first makes it
\* from the one before.
LEMMA WalksRun ==
  ASSUME NEW reg, IsFiniteSet(DOMAIN reg)
  PROVE  /\ Walk(reg) = Walks(reg)[Deepest(reg)] /\ Deepest(reg) \in Nat
         /\ \A n \in 0..Deepest(reg) : Walks(reg)[n] =
              IF n = 0 THEN [p \in DOMAIN reg |-> [met |-> {}, twice |-> FALSE]]
              ELSE [p \in DOMAIN reg |-> Met(reg, p, Walks(reg)[n - 1])]
<1> DEFINE N == Deepest(reg)
           First == [p \in DOMAIN reg |-> [met |-> {}, twice |-> FALSE]]
           After(k, before) == [p \in DOMAIN reg |-> Met(reg, p, before)]
           Loop(n, f) == [k \in 0..n |-> IF k = 0 THEN First ELSE After(k, f[k - 1])]
           Reached == {n \in Nat : \E f : f = Loop(n, f)}
<1>0. N \in Nat
  BY FS_CardinalityType DEF Deepest
<1> HIDE DEF First, After
<1>1. 0 \in Reached
  <2> DEFINE f == [k \in 0..0 |-> First]
  <2>1. \A k \in 0..0 : k = 0
    OBVIOUS
  <2>2. f = Loop(0, f)
    BY <2>1
  <2> QED
    BY <2>2
<1>2. \A n \in Nat : n \in Reached => n + 1 \in Reached
  <2>1. ASSUME NEW n \in Nat, NEW f, f = Loop(n, f)
        PROVE  \E g : g = Loop(n + 1, g)
    <3> DEFINE value == After(n + 1, f[n])
               g == [k \in 0..(n + 1) |-> IF k = n + 1 THEN value ELSE f[k]]
    <3> HIDE DEF value
    <3>1. /\ \A k \in 0..n : g[k] = f[k]
          /\ \A k \in 1..n : g[k - 1] = f[k - 1]
          /\ g[n + 1] = value /\ g[(n + 1) - 1] = f[n]
      BY OneMoreTurn
    <3>2. g = [k \in 0..(n + 1) |-> g[k]]
      OBVIOUS
    <3> HIDE DEF g
    <3>3. \A k \in 0..(n + 1) : g[k] = IF k = 0 THEN First ELSE After(k, g[k - 1])
      <4> TAKE k \in 0..(n + 1)
      <4>1. CASE k = n + 1
        BY <3>1, <4>1 DEF value
      <4>2. CASE k # n + 1
        <5>1. k \in 0..n /\ (k # 0 => k \in 1..n)
          BY <4>2
        <5> QED
          BY <2>1, <3>1, <5>1
      <4> QED
        BY <4>1, <4>2
    <3>4. g = Loop(n + 1, g)
      BY <3>2, <3>3
    <3> QED
      BY <3>4
  <2> HIDE DEF Loop
  <2> QED
    BY <2>1
<1>3. Nat \subseteq Reached
  <2> HIDE DEF Reached
  <2> QED
    BY <1>1, <1>2, Induct
<1>4. \E f : f = Loop(N, f)
  BY <1>0, <1>3
<1> DEFINE loop == CHOOSE f : f = Loop(N, f)
<1>5. loop = Loop(N, loop)
  BY <1>4
<1>6. loop = Walks(reg)
  BY Zenon DEF Walks, Steps, First, After
<1>7. Walk(reg) = Walks(reg)[N]
  BY Zenon DEF Walk, Walks
<1> HIDE DEF loop
<1>8. \A k \in 0..N : loop[k] = IF k = 0 THEN First ELSE After(k, loop[k - 1])
  BY <1>5
<1> QED
  BY <1>0, <1>6, <1>7, <1>8 DEF First, After

Merges(reg) ==
  CHOOSE loop : loop =
    [k \in Steps(reg) |->
      IF k = 0 THEN [p \in DOMAIN reg |-> Nothing]
      ELSE [p \in DOMAIN reg |-> ResolvedBy(reg, p, loop[k - 1])]]

\* The same for what inheritance merges.
LEMMA MergesRun ==
  ASSUME NEW reg, IsFiniteSet(DOMAIN reg)
  PROVE  /\ Inherited(reg) = Merges(reg)[Deepest(reg)] /\ Deepest(reg) \in Nat
         /\ \A n \in 0..Deepest(reg) : Merges(reg)[n] =
              IF n = 0 THEN [p \in DOMAIN reg |-> Nothing]
              ELSE [p \in DOMAIN reg |-> ResolvedBy(reg, p, Merges(reg)[n - 1])]
<1> DEFINE N == Deepest(reg)
           First == [p \in DOMAIN reg |-> Nothing]
           After(k, before) == [p \in DOMAIN reg |-> ResolvedBy(reg, p, before)]
           Loop(n, f) == [k \in 0..n |-> IF k = 0 THEN First ELSE After(k, f[k - 1])]
           Reached == {n \in Nat : \E f : f = Loop(n, f)}
<1>0. N \in Nat
  BY FS_CardinalityType DEF Deepest
<1> HIDE DEF First, After
<1>1. 0 \in Reached
  <2> DEFINE f == [k \in 0..0 |-> First]
  <2>1. \A k \in 0..0 : k = 0
    OBVIOUS
  <2>2. f = Loop(0, f)
    BY <2>1
  <2> QED
    BY <2>2
<1>2. \A n \in Nat : n \in Reached => n + 1 \in Reached
  <2>1. ASSUME NEW n \in Nat, NEW f, f = Loop(n, f)
        PROVE  \E g : g = Loop(n + 1, g)
    <3> DEFINE value == After(n + 1, f[n])
               g == [k \in 0..(n + 1) |-> IF k = n + 1 THEN value ELSE f[k]]
    <3> HIDE DEF value
    <3>1. /\ \A k \in 0..n : g[k] = f[k]
          /\ \A k \in 1..n : g[k - 1] = f[k - 1]
          /\ g[n + 1] = value /\ g[(n + 1) - 1] = f[n]
      BY OneMoreTurn
    <3>2. g = [k \in 0..(n + 1) |-> g[k]]
      OBVIOUS
    <3> HIDE DEF g
    <3>3. \A k \in 0..(n + 1) : g[k] = IF k = 0 THEN First ELSE After(k, g[k - 1])
      <4> TAKE k \in 0..(n + 1)
      <4>1. CASE k = n + 1
        BY <3>1, <4>1 DEF value
      <4>2. CASE k # n + 1
        <5>1. k \in 0..n /\ (k # 0 => k \in 1..n)
          BY <4>2
        <5> QED
          BY <2>1, <3>1, <5>1
      <4> QED
        BY <4>1, <4>2
    <3>4. g = Loop(n + 1, g)
      BY <3>2, <3>3
    <3> QED
      BY <3>4
  <2> HIDE DEF Loop
  <2> QED
    BY <2>1
<1>3. Nat \subseteq Reached
  <2> HIDE DEF Reached
  <2> QED
    BY <1>1, <1>2, Induct
<1>4. \E f : f = Loop(N, f)
  BY <1>0, <1>3
<1> DEFINE loop == CHOOSE f : f = Loop(N, f)
<1>5. loop = Loop(N, loop)
  BY <1>4
<1>6. loop = Merges(reg)
  BY Zenon DEF Merges, Steps, First, After
<1>7. Inherited(reg) = Merges(reg)[N]
  BY Zenon DEF Inherited, Merges
<1> HIDE DEF loop
<1>8. \A k \in 0..N : loop[k] = IF k = 0 THEN First ELSE After(k, loop[k - 1])
  BY <1>5
<1> QED
  BY <1>0, <1>6, <1>7, <1>8 DEF First, After

Givens(reg, d) ==
  CHOOSE loop : loop =
    [k \in Steps(reg) |->
      IF k = 0 THEN [p \in DOMAIN reg |-> None]
      ELSE [p \in DOMAIN reg |-> Gives(reg, p, d, loop[k - 1])]]

\* The same for what is given.
LEMMA GivensRun ==
  ASSUME NEW reg, IsFiniteSet(DOMAIN reg), NEW d
  PROVE  /\ Given(reg, d) = Givens(reg, d)[Deepest(reg)] /\ Deepest(reg) \in Nat
         /\ \A n \in 0..Deepest(reg) : Givens(reg, d)[n] =
              IF n = 0 THEN [p \in DOMAIN reg |-> None]
              ELSE [p \in DOMAIN reg |-> Gives(reg, p, d, Givens(reg, d)[n - 1])]
<1> DEFINE N == Deepest(reg)
           First == [p \in DOMAIN reg |-> None]
           After(k, before) == [p \in DOMAIN reg |-> Gives(reg, p, d, before)]
           Loop(n, f) == [k \in 0..n |-> IF k = 0 THEN First ELSE After(k, f[k - 1])]
           Reached == {n \in Nat : \E f : f = Loop(n, f)}
<1>0. N \in Nat
  BY FS_CardinalityType DEF Deepest
<1> HIDE DEF First, After
<1>1. 0 \in Reached
  <2> DEFINE f == [k \in 0..0 |-> First]
  <2>1. \A k \in 0..0 : k = 0
    OBVIOUS
  <2>2. f = Loop(0, f)
    BY <2>1
  <2> QED
    BY <2>2
<1>2. \A n \in Nat : n \in Reached => n + 1 \in Reached
  <2>1. ASSUME NEW n \in Nat, NEW f, f = Loop(n, f)
        PROVE  \E g : g = Loop(n + 1, g)
    <3> DEFINE value == After(n + 1, f[n])
               g == [k \in 0..(n + 1) |-> IF k = n + 1 THEN value ELSE f[k]]
    <3> HIDE DEF value
    <3>1. /\ \A k \in 0..n : g[k] = f[k]
          /\ \A k \in 1..n : g[k - 1] = f[k - 1]
          /\ g[n + 1] = value /\ g[(n + 1) - 1] = f[n]
      BY OneMoreTurn
    <3>2. g = [k \in 0..(n + 1) |-> g[k]]
      OBVIOUS
    <3> HIDE DEF g
    <3>3. \A k \in 0..(n + 1) : g[k] = IF k = 0 THEN First ELSE After(k, g[k - 1])
      <4> TAKE k \in 0..(n + 1)
      <4>1. CASE k = n + 1
        BY <3>1, <4>1 DEF value
      <4>2. CASE k # n + 1
        <5>1. k \in 0..n /\ (k # 0 => k \in 1..n)
          BY <4>2
        <5> QED
          BY <2>1, <3>1, <5>1
      <4> QED
        BY <4>1, <4>2
    <3>4. g = Loop(n + 1, g)
      BY <3>2, <3>3
    <3> QED
      BY <3>4
  <2> HIDE DEF Loop
  <2> QED
    BY <2>1
<1>3. Nat \subseteq Reached
  <2> HIDE DEF Reached
  <2> QED
    BY <1>1, <1>2, Induct
<1>4. \E f : f = Loop(N, f)
  BY <1>0, <1>3
<1> DEFINE loop == CHOOSE f : f = Loop(N, f)
<1>5. loop = Loop(N, loop)
  BY <1>4
<1>6. loop = Givens(reg, d)
  BY Zenon DEF Givens, Steps, First, After
<1>7. Given(reg, d) = Givens(reg, d)[N]
  BY Zenon DEF Given, Givens
<1> HIDE DEF loop
<1>8. \A k \in 0..N : loop[k] = IF k = 0 THEN First ELSE After(k, loop[k - 1])
  BY <1>5
<1> QED
  BY <1>0, <1>6, <1>7, <1>8 DEF First, After


MergedSoFar(parts) ==
  CHOOSE loop : loop =
    [k \in 0..Len(parts) |-> IF k = 0 THEN Nothing ELSE DeepMerge(loop[k - 1], parts[k])]

\* The same for the parents' settings, merged one after the other.
LEMMA MergeAllRuns ==
  ASSUME NEW parts, Len(parts) \in Nat
  PROVE  /\ MergeAll(parts) = MergedSoFar(parts)[Len(parts)]
         /\ \A k \in 0..Len(parts) :
              MergedSoFar(parts)[k] = IF k = 0 THEN Nothing
                                      ELSE DeepMerge(MergedSoFar(parts)[k - 1], parts[k])
<1> DEFINE N == Len(parts)
           First == Nothing
           After(k, before) == DeepMerge(before, parts[k])
           Loop(n, f) == [k \in 0..n |-> IF k = 0 THEN First ELSE After(k, f[k - 1])]
           Reached == {n \in Nat : \E f : f = Loop(n, f)}
<1>0. N \in Nat
  OBVIOUS
<1> HIDE DEF First, After
<1>1. 0 \in Reached
  <2> DEFINE f == [k \in 0..0 |-> First]
  <2>1. \A k \in 0..0 : k = 0
    OBVIOUS
  <2>2. f = Loop(0, f)
    BY <2>1
  <2> QED
    BY <2>2
<1>2. \A n \in Nat : n \in Reached => n + 1 \in Reached
  <2>1. ASSUME NEW n \in Nat, NEW f, f = Loop(n, f)
        PROVE  \E g : g = Loop(n + 1, g)
    <3> DEFINE value == After(n + 1, f[n])
               g == [k \in 0..(n + 1) |-> IF k = n + 1 THEN value ELSE f[k]]
    <3> HIDE DEF value
    <3>1. /\ \A k \in 0..n : g[k] = f[k]
          /\ \A k \in 1..n : g[k - 1] = f[k - 1]
          /\ g[n + 1] = value /\ g[(n + 1) - 1] = f[n]
      BY OneMoreTurn
    <3>2. g = [k \in 0..(n + 1) |-> g[k]]
      OBVIOUS
    <3> HIDE DEF g
    <3>3. \A k \in 0..(n + 1) : g[k] = IF k = 0 THEN First ELSE After(k, g[k - 1])
      <4> TAKE k \in 0..(n + 1)
      <4>1. CASE k = n + 1
        BY <3>1, <4>1 DEF value
      <4>2. CASE k # n + 1
        <5>1. k \in 0..n /\ (k # 0 => k \in 1..n)
          BY <4>2
        <5> QED
          BY <2>1, <3>1, <5>1
      <4> QED
        BY <4>1, <4>2
    <3>4. g = Loop(n + 1, g)
      BY <3>2, <3>3
    <3> QED
      BY <3>4
  <2> HIDE DEF Loop
  <2> QED
    BY <2>1
<1>3. Nat \subseteq Reached
  <2> HIDE DEF Reached
  <2> QED
    BY <1>1, <1>2, Induct
<1>4. \E f : f = Loop(N, f)
  BY <1>0, <1>3
<1> DEFINE loop == CHOOSE f : f = Loop(N, f)
<1>5. loop = Loop(N, loop)
  BY <1>4
<1>6. loop = MergedSoFar(parts)
  BY Zenon DEF MergedSoFar, First, After
<1>7. MergeAll(parts) = MergedSoFar(parts)[N]
  BY Zenon DEF MergeAll, MergedSoFar
<1> HIDE DEF loop
<1>8. \A k \in 0..N : loop[k] = IF k = 0 THEN First ELSE After(k, loop[k - 1])
  BY <1>5
<1> QED
  BY <1>0, <1>6, <1>7, <1>8 DEF First, After


StoredSoFar(reg, defs) ==
  CHOOSE loop : loop =
    [k \in 0..Len(defs) |-> IF k = 0 THEN reg ELSE Register(loop[k - 1], defs[k])]

\* The same for the registrations of a list.
LEMMA StoredRuns ==
  ASSUME NEW reg, NEW defs, Len(defs) \in Nat
  PROVE  /\ Stored(reg, defs) = StoredSoFar(reg, defs)[Len(defs)]
         /\ \A k \in 0..Len(defs) :
              StoredSoFar(reg, defs)[k] = IF k = 0 THEN reg
                                          ELSE Register(StoredSoFar(reg, defs)[k - 1], defs[k])
<1> DEFINE N == Len(defs)
           First == reg
           After(k, before) == Register(before, defs[k])
           Loop(n, f) == [k \in 0..n |-> IF k = 0 THEN First ELSE After(k, f[k - 1])]
           Reached == {n \in Nat : \E f : f = Loop(n, f)}
<1>0. N \in Nat
  OBVIOUS
<1> HIDE DEF First, After
<1>1. 0 \in Reached
  <2> DEFINE f == [k \in 0..0 |-> First]
  <2>1. \A k \in 0..0 : k = 0
    OBVIOUS
  <2>2. f = Loop(0, f)
    BY <2>1
  <2> QED
    BY <2>2
<1>2. \A n \in Nat : n \in Reached => n + 1 \in Reached
  <2>1. ASSUME NEW n \in Nat, NEW f, f = Loop(n, f)
        PROVE  \E g : g = Loop(n + 1, g)
    <3> DEFINE value == After(n + 1, f[n])
               g == [k \in 0..(n + 1) |-> IF k = n + 1 THEN value ELSE f[k]]
    <3> HIDE DEF value
    <3>1. /\ \A k \in 0..n : g[k] = f[k]
          /\ \A k \in 1..n : g[k - 1] = f[k - 1]
          /\ g[n + 1] = value /\ g[(n + 1) - 1] = f[n]
      BY OneMoreTurn
    <3>2. g = [k \in 0..(n + 1) |-> g[k]]
      OBVIOUS
    <3> HIDE DEF g
    <3>3. \A k \in 0..(n + 1) : g[k] = IF k = 0 THEN First ELSE After(k, g[k - 1])
      <4> TAKE k \in 0..(n + 1)
      <4>1. CASE k = n + 1
        BY <3>1, <4>1 DEF value
      <4>2. CASE k # n + 1
        <5>1. k \in 0..n /\ (k # 0 => k \in 1..n)
          BY <4>2
        <5> QED
          BY <2>1, <3>1, <5>1
      <4> QED
        BY <4>1, <4>2
    <3>4. g = Loop(n + 1, g)
      BY <3>2, <3>3
    <3> QED
      BY <3>4
  <2> HIDE DEF Loop
  <2> QED
    BY <2>1
<1>3. Nat \subseteq Reached
  <2> HIDE DEF Reached
  <2> QED
    BY <1>1, <1>2, Induct
<1>4. \E f : f = Loop(N, f)
  BY <1>0, <1>3
<1> DEFINE loop == CHOOSE f : f = Loop(N, f)
<1>5. loop = Loop(N, loop)
  BY <1>4
<1>6. loop = StoredSoFar(reg, defs)
  BY Zenon DEF StoredSoFar, First, After
<1>7. Stored(reg, defs) = StoredSoFar(reg, defs)[N]
  BY Zenon DEF Stored, StoredSoFar
<1> HIDE DEF loop
<1>8. \A k \in 0..N : loop[k] = IF k = 0 THEN First ELSE After(k, loop[k - 1])
  BY <1>5
<1> QED
  BY <1>0, <1>6, <1>7, <1>8 DEF First, After


OthersSoFar(src) ==
  CHOOSE loop : loop =
    [k \in 0..Len(calls) |-> IF k = 0 THEN <<>>
                             ELSE IF calls[k].src = src THEN loop[k - 1]
                             ELSE Append(loop[k - 1], calls[k])]

\* The same for the calls that are kept.
LEMMA OtherCallsRun ==
  ASSUME NEW src, Len(calls) \in Nat
  PROVE  /\ OtherCalls(src) = OthersSoFar(src)[Len(calls)]
         /\ \A k \in 0..Len(calls) :
              OthersSoFar(src)[k] = IF k = 0 THEN <<>>
                                    ELSE IF calls[k].src = src THEN OthersSoFar(src)[k - 1]
                                    ELSE Append(OthersSoFar(src)[k - 1], calls[k])
<1> DEFINE N == Len(calls)
           First == <<>>
           After(k, before) == IF calls[k].src = src THEN before ELSE Append(before, calls[k])
           Loop(n, f) == [k \in 0..n |-> IF k = 0 THEN First ELSE After(k, f[k - 1])]
           Reached == {n \in Nat : \E f : f = Loop(n, f)}
<1>0. N \in Nat
  OBVIOUS
<1> HIDE DEF First, After
<1>1. 0 \in Reached
  <2> DEFINE f == [k \in 0..0 |-> First]
  <2>1. \A k \in 0..0 : k = 0
    OBVIOUS
  <2>2. f = Loop(0, f)
    BY <2>1
  <2> QED
    BY <2>2
<1>2. \A n \in Nat : n \in Reached => n + 1 \in Reached
  <2>1. ASSUME NEW n \in Nat, NEW f, f = Loop(n, f)
        PROVE  \E g : g = Loop(n + 1, g)
    <3> DEFINE value == After(n + 1, f[n])
               g == [k \in 0..(n + 1) |-> IF k = n + 1 THEN value ELSE f[k]]
    <3> HIDE DEF value
    <3>1. /\ \A k \in 0..n : g[k] = f[k]
          /\ \A k \in 1..n : g[k - 1] = f[k - 1]
          /\ g[n + 1] = value /\ g[(n + 1) - 1] = f[n]
      BY OneMoreTurn
    <3>2. g = [k \in 0..(n + 1) |-> g[k]]
      OBVIOUS
    <3> HIDE DEF g
    <3>3. \A k \in 0..(n + 1) : g[k] = IF k = 0 THEN First ELSE After(k, g[k - 1])
      <4> TAKE k \in 0..(n + 1)
      <4>1. CASE k = n + 1
        BY <3>1, <4>1 DEF value
      <4>2. CASE k # n + 1
        <5>1. k \in 0..n /\ (k # 0 => k \in 1..n)
          BY <4>2
        <5> QED
          BY <2>1, <3>1, <5>1
      <4> QED
        BY <4>1, <4>2
    <3>4. g = Loop(n + 1, g)
      BY <3>2, <3>3
    <3> QED
      BY <3>4
  <2> HIDE DEF Loop
  <2> QED
    BY <2>1
<1>3. Nat \subseteq Reached
  <2> HIDE DEF Reached
  <2> QED
    BY <1>1, <1>2, Induct
<1>4. \E f : f = Loop(N, f)
  BY <1>0, <1>3
<1> DEFINE loop == CHOOSE f : f = Loop(N, f)
<1>5. loop = Loop(N, loop)
  BY <1>4
<1>6. loop = OthersSoFar(src)
  BY Zenon DEF OthersSoFar, First, After
<1>7. OtherCalls(src) = OthersSoFar(src)[N]
  BY Zenon DEF OtherCalls, OthersSoFar
<1> HIDE DEF loop
<1>8. \A k \in 0..N : loop[k] = IF k = 0 THEN First ELSE After(k, loop[k - 1])
  BY <1>5
<1> QED
  BY <1>0, <1>6, <1>7, <1>8 DEF First, After

(* ---------------------- 2. one step of inheritance ---------------------- *)

\* A merge of settings domain by domain.
LEMMA MergedDomain ==
  ASSUME NEW a, NEW b, NEW d
  PROVE  /\ d \in DOMAIN DeepMerge(a, b) <=> d \in DOMAIN a \/ d \in DOMAIN b
         /\ d \in DOMAIN b => DeepMerge(a, b)[d] = b[d]
         /\ d \in DOMAIN a /\ d \notin DOMAIN b => DeepMerge(a, b)[d] = a[d]
BY DEF DeepMerge

\* A cleared registry, and settings of nobody, have nothing.
LEMMA NothingSet == DOMAIN Nothing = {}
BY DEF Nothing

\* Of several parents that set a domain the last wins.
LEMMA LastParentWins ==
  ASSUME NEW parts, Len(parts) \in Nat, NEW d
  PROVE  /\ (\A i \in 1..Len(parts) : d \notin DOMAIN parts[i]) => d \notin DOMAIN MergeAll(parts)
         /\ \A i \in 1..Len(parts) :
              d \in DOMAIN parts[i] /\ (\A j \in 1..Len(parts) : d \in DOMAIN parts[j] => j <= i) =>
                d \in DOMAIN MergeAll(parts) /\ MergeAll(parts)[d] = parts[i][d]
<1> DEFINE N == Len(parts)
           m == MergedSoFar(parts)
           Claim(n) ==
             /\ (\A i \in 1..n : d \notin DOMAIN parts[i]) => d \notin DOMAIN m[n]
             /\ \A i \in 1..n :
                  d \in DOMAIN parts[i] /\ (\A j \in 1..n : d \in DOMAIN parts[j] => j <= i) =>
                    d \in DOMAIN m[n] /\ m[n][d] = parts[i][d]
           T == {n \in Nat : n <= N => Claim(n)}
<1>1. /\ MergeAll(parts) = m[N]
      /\ \A k \in 0..N : m[k] = IF k = 0 THEN Nothing ELSE DeepMerge(m[k - 1], parts[k])
  BY MergeAllRuns
<1> HIDE DEF m
<1>2. 0 \in T
  <2>1. m[0] = Nothing
    BY <1>1
  <2>2. Claim(0)
    BY <2>1, NothingSet
  <2> QED
    BY <2>2
<1>3. \A n \in Nat : n \in T => n + 1 \in T
  <2> SUFFICES ASSUME NEW n \in Nat, n + 1 <= N, n <= N => Claim(n) PROVE Claim(n + 1)
    <3> HIDE DEF Claim
    <3> QED
      OBVIOUS
  <2>0. Claim(n)
    OBVIOUS
  <2>1. n + 1 \in 0..N /\ n + 1 # 0 /\ (n + 1) - 1 = n
    OBVIOUS
  <2>2. m[n + 1] = DeepMerge(m[n], parts[n + 1])
    BY <1>1, <2>1
  <2> DEFINE last == parts[n + 1]
             so == m[n]
             next == m[n + 1]
  <2>3. /\ d \in DOMAIN next <=> d \in DOMAIN so \/ d \in DOMAIN last
        /\ d \in DOMAIN last => next[d] = last[d]
        /\ d \in DOMAIN so /\ d \notin DOMAIN last => next[d] = so[d]
    BY <2>2, MergedDomain
  <2>4. \A i \in 1..(n + 1) : i = n + 1 \/ i \in 1..n
    OBVIOUS
  <2>5. \A i \in 1..n : i \in 1..(n + 1) /\ ~(n + 1 <= i)
    OBVIOUS
  <2>6. n + 1 \in 1..(n + 1)
    OBVIOUS
  <2>7. ASSUME \A i \in 1..(n + 1) : d \notin DOMAIN parts[i]
        PROVE  d \notin DOMAIN m[n + 1]
    BY <2>0, <2>3, <2>5, <2>6, <2>7
  <2>8. ASSUME NEW i \in 1..(n + 1), d \in DOMAIN parts[i],
               \A j \in 1..(n + 1) : d \in DOMAIN parts[j] => j <= i
        PROVE  d \in DOMAIN m[n + 1] /\ m[n + 1][d] = parts[i][d]
    <3>1. CASE i = n + 1
      BY <2>3, <2>8, <3>1
    <3>2. CASE i # n + 1
      <4>1. i \in 1..n /\ d \notin DOMAIN last
        BY <2>4, <2>5, <2>6, <2>8, <3>2
      <4>2. d \in DOMAIN so /\ so[d] = parts[i][d]
        BY <2>0, <2>5, <2>8, <4>1
      <4> QED
        BY <2>3, <4>1, <4>2
    <3> QED
      BY <3>1, <3>2
  <2> QED
    BY <2>7, <2>8
<1>4. Nat \subseteq T
  <2> HIDE DEF T
  <2> QED
    BY <1>2, <1>3, Induct
<1>5. Claim(N)
  <2> HIDE DEF Claim
  <2> QED
    BY <1>4
<1>6. MergeAll(parts) = m[N]
  BY <1>1
<1>7. (\A i \in 1..N : d \notin DOMAIN parts[i]) => d \notin DOMAIN MergeAll(parts)
  BY <1>5, <1>6
<1>8. \A i \in 1..N :
        d \in DOMAIN parts[i] /\ (\A j \in 1..N : d \in DOMAIN parts[j] => j <= i) =>
          d \in DOMAIN MergeAll(parts) /\ MergeAll(parts)[d] = parts[i][d]
  BY <1>5, <1>6
<1> QED
  BY <1>7, <1>8

\* What a profile inherits is in what it has met, and has not met the profile.
LEMMA MetByParents ==
  ASSUME NEW reg, IsFiniteSet(DOMAIN reg), NEW n \in 1..Deepest(reg), NEW p \in DOMAIN reg
  PROVE  /\ p \in Walks(reg)[n][p].met
         /\ \A i \in Parents(reg, p) :
              /\ reg[p].def.inherits[i] \in DOMAIN reg
              /\ Walks(reg)[n - 1][reg[p].def.inherits[i]].met \subseteq Walks(reg)[n][p].met
              /\ ~Walks(reg)[n][p].twice =>
                   /\ ~Walks(reg)[n - 1][reg[p].def.inherits[i]].twice
                   /\ p \notin Walks(reg)[n - 1][reg[p].def.inherits[i]].met
<1> DEFINE before == Walks(reg)[n - 1]
           branch == [i \in Parents(reg, p) |-> before[reg[p].def.inherits[i]]]
<1>1. n \in 0..Deepest(reg) /\ n # 0
  BY WalksRun
<1>2. Walks(reg)[n] = [q \in DOMAIN reg |-> Met(reg, q, before)]
  BY <1>1, WalksRun
<1> HIDE DEF before
<1>3. /\ Walks(reg)[n][p].met = {p} \cup UNION {branch[i].met : i \in Parents(reg, p)}
      /\ Walks(reg)[n][p].twice =
           \E i \in Parents(reg, p) :
             \/ p \in branch[i].met \/ branch[i].twice
             \/ \E j \in Parents(reg, p) \ {i} : branch[i].met \cap branch[j].met # {}
  <2>1. Walks(reg)[n][p] = Met(reg, p, before)
    BY <1>2
  <2> HIDE DEF branch
  <2>2. Met(reg, p, before).met = {p} \cup UNION {branch[i].met : i \in Parents(reg, p)}
    BY DEF Met, branch
  <2>3. Met(reg, p, before).twice =
           \E i \in Parents(reg, p) :
             \/ p \in branch[i].met \/ branch[i].twice
             \/ \E j \in Parents(reg, p) \ {i} : branch[i].met \cap branch[j].met # {}
    BY DEF Met, branch
  <2> QED
    BY <2>1, <2>2, <2>3
<1>4. \A i \in Parents(reg, p) : reg[p].def.inherits[i] \in DOMAIN reg
  BY DEF Parents
<1>5. \A i \in Parents(reg, p) : branch[i] = before[reg[p].def.inherits[i]]
  OBVIOUS
<1> HIDE DEF branch
<1> QED
  BY <1>3, <1>4, <1>5 DEF before

(* ----------------------- 3. registries that agree ----------------------- *)

\* What registration lets in.
Proper(reg) == IsFiniteSet(DOMAIN reg) /\ \A p \in DOMAIN reg : WellFormed(reg[p].def)

\* A set of places that is not empty has a last one.
LEMMA GreatestNumber ==
  ASSUME NEW n \in Nat, NEW T \in SUBSET (1..n), T # {}
  PROVE  \E i \in T : \A j \in T : j <= i
<1> DEFINE left == {n - i : i \in T}
<1>1. left \in SUBSET Nat /\ left # {}
  <2>1. \A i \in T : n - i \in Nat
    OBVIOUS
  <2> QED
    BY <2>1
<1> HIDE DEF left
<1>2. PICK m \in left : \A l \in left : m <= l
  BY <1>1, LeastNumber
<1>3. PICK i \in T : m = n - i
  BY DEF left
<1>4. \A j \in T : n - i <= n - j
  BY <1>2, <1>3 DEF left
<1> QED
  BY <1>4

\* The last parent that gives a domain something.
LEMMA LastGiver ==
  ASSUME NEW reg, NEW p, WellFormed(reg[p].def), NEW givers \in SUBSET Parents(reg, p), givers # {}
  PROVE  LET last == CHOOSE i \in givers : \A j \in givers : j <= i
         IN last \in givers /\ \A j \in givers : j <= last
<1>1. DOMAIN reg[p].def.inherits = 1..Len(reg[p].def.inherits) /\ Len(reg[p].def.inherits) \in Nat
  BY LenProperties DEF WellFormed
<1>2. givers \in SUBSET (1..Len(reg[p].def.inherits))
  BY <1>1 DEF Parents
<1>3. \E i \in givers : \A j \in givers : j <= i
  BY <1>1, <1>2, GreatestNumber
<1> QED
  BY <1>3, Zenon

\* Two registries that agree on some profiles and on which of their parents are
\* known: from there the walk meets the same profiles in both, and they give the
\* same, however many steps of it are made, if they are more than the profiles.
Alike(reg, other, S) ==
  /\ S \subseteq DOMAIN reg /\ S \subseteq DOMAIN other
  /\ \A q \in S :
       /\ other[q].def = reg[q].def
       /\ \A i \in DOMAIN reg[q].def.inherits :
            reg[q].def.inherits[i] \in DOMAIN other => reg[q].def.inherits[i] \in DOMAIN reg

\* A profile has the same parents in a registry that agrees.
LEMMA SameParents ==
  ASSUME NEW reg, IsFiniteSet(DOMAIN reg), NEW other, NEW S, Alike(reg, other, S),
         NEW n \in 2..Deepest(reg), NEW p \in S, Walks(reg)[n][p].met \subseteq S
  PROVE  /\ Parents(other, p) = Parents(reg, p)
         /\ \A i \in Parents(reg, p) : reg[p].def.inherits[i] \in S
<1>1. Deepest(reg) \in Nat
  BY WalksRun
<1>2. n \in 1..Deepest(reg) /\ n - 1 \in 1..Deepest(reg) /\ p \in DOMAIN reg
  BY <1>1 DEF Alike
<1>3. \A i \in Parents(reg, p) :
        /\ reg[p].def.inherits[i] \in DOMAIN reg
        /\ Walks(reg)[n - 1][reg[p].def.inherits[i]].met \subseteq S
  BY <1>2, MetByParents
<1>4. \A q \in DOMAIN reg : q \in Walks(reg)[n - 1][q].met
  BY <1>2, MetByParents
<1>5. \A i \in Parents(reg, p) : reg[p].def.inherits[i] \in S
  BY <1>3, <1>4
<1> QED
  BY <1>5 DEF Parents, Alike

\* One step from parents met alike meets the same.
LEMMA MetSame ==
  ASSUME NEW reg, NEW other, NEW p, NEW before, NEW after,
         other[p].def = reg[p].def, Parents(other, p) = Parents(reg, p),
         \A i \in Parents(reg, p) : after[reg[p].def.inherits[i]] = before[reg[p].def.inherits[i]]
  PROVE  Met(other, p, after) = Met(reg, p, before)
<1> DEFINE branch == [i \in Parents(reg, p) |-> before[reg[p].def.inherits[i]]]
           twig == [i \in Parents(other, p) |-> after[other[p].def.inherits[i]]]
<1>1. twig = branch
  OBVIOUS
<1> HIDE DEF branch, twig
<1>2. Met(reg, p, before) =
        [met   |-> {p} \cup UNION {branch[i].met : i \in Parents(reg, p)},
         twice |-> \E i \in Parents(reg, p) :
                     \/ p \in branch[i].met \/ branch[i].twice
                     \/ \E j \in Parents(reg, p) \ {i} : branch[i].met \cap branch[j].met # {}]
  BY Zenon DEF Met, branch
<1>3. Met(other, p, after) =
        [met   |-> {p} \cup UNION {twig[i].met : i \in Parents(other, p)},
         twice |-> \E i \in Parents(other, p) :
                     \/ p \in twig[i].met \/ twig[i].twice
                     \/ \E j \in Parents(other, p) \ {i} : twig[i].met \cap twig[j].met # {}]
  BY Zenon DEF Met, twig
<1> QED
  BY <1>1, <1>2, <1>3, Zenon

\* One step from parents given the same gives the same.
LEMMA GivesSame ==
  ASSUME NEW reg, NEW other, NEW p, NEW d, NEW before, NEW after,
         WellFormed(reg[p].def), other[p].def = reg[p].def,
         Parents(other, p) = Parents(reg, p),
         \A i \in Parents(reg, p) : after[reg[p].def.inherits[i]] = before[reg[p].def.inherits[i]]
  PROVE  Gives(other, p, d, after) = Gives(reg, p, d, before)
<1> DEFINE def == reg[p].def
           givers == {i \in Parents(reg, p) : before[def.inherits[i]] # None}
           others == {i \in Parents(other, p) : after[other[p].def.inherits[i]] # None}
           last == CHOOSE i \in givers : \A j \in givers : j <= i
<1>1. others = givers
  OBVIOUS
<1>2. ASSUME givers # {}
      PROVE  after[def.inherits[last]] = before[def.inherits[last]]
  <2>1. last \in givers
    BY <1>2, LastGiver
  <2> HIDE DEF last
  <2> QED
    BY <2>1
<1> DEFINE Choice(own, some, which, b) ==
             CASE d \in DOMAIN own.overrides -> own.overrides[d]
               [] d \in DOMAIN own.settings \ DOMAIN own.overrides -> own.settings[d]
               [] OTHER -> IF some = {} THEN None ELSE b[own.inherits[which]]
<1>3. Gives(other, p, d, after) =
        Choice(other[p].def, others, CHOOSE i \in others : \A j \in others : j <= i, after)
  BY Zenon DEF Gives
<1>4. Gives(reg, p, d, before) = Choice(def, givers, last, before)
  BY Zenon DEF Gives
<1>5. Gives(other, p, d, after) = Choice(def, givers, last, after)
  <2> HIDE DEF others, givers, Choice
  <2> QED
    BY <1>1, <1>3, Zenon DEF last
<1> HIDE DEF others, givers, last, def
<1> QED
  BY <1>2, <1>4, <1>5

\* After as many steps, two registries that agree have met and given the same.
LEMMA SameWalk ==
  ASSUME NEW reg, Proper(reg), NEW other, IsFiniteSet(DOMAIN other), NEW d
  PROVE  \A k \in Nat : \A S \in SUBSET DOMAIN reg :
         \A n \in (k + 1)..Deepest(reg) : \A m \in (k + 1)..Deepest(other) : \A p \in S :
           IsFiniteSet(S) /\ Cardinality(S) = k /\ Alike(reg, other, S)
           /\ Walks(reg)[n][p].met \subseteq S /\ ~Walks(reg)[n][p].twice =>
             /\ Walks(other)[m][p] = Walks(reg)[n][p]
             /\ Givens(other, d)[m][p] = Givens(reg, d)[n][p]
<1> DEFINE Same(k, S, n, m, p) ==
             IsFiniteSet(S) /\ Cardinality(S) = k /\ Alike(reg, other, S)
             /\ Walks(reg)[n][p].met \subseteq S /\ ~Walks(reg)[n][p].twice =>
               /\ Walks(other)[m][p] = Walks(reg)[n][p]
               /\ Givens(other, d)[m][p] = Givens(reg, d)[n][p]
           T == {k \in Nat : \A S \in SUBSET DOMAIN reg :
                  \A n \in (k + 1)..Deepest(reg) : \A m \in (k + 1)..Deepest(other) :
                  \A p \in S : Same(k, S, n, m, p)}
<1>0. IsFiniteSet(DOMAIN reg) /\ Deepest(reg) \in Nat /\ Deepest(other) \in Nat
  BY WalksRun DEF Proper
<1>1. 0 \in T
  <2>1. ASSUME NEW S \in SUBSET DOMAIN reg, NEW p \in S, IsFiniteSet(S), Cardinality(S) = 0
        PROVE  FALSE
    BY <2>1, FS_EmptySet
  <2> QED
    BY <2>1
<1>2. ASSUME NEW k \in Nat, k \in T PROVE k + 1 \in T
  <2> SUFFICES ASSUME NEW S \in SUBSET DOMAIN reg, NEW n \in (k + 2)..Deepest(reg),
                      NEW m \in (k + 2)..Deepest(other), NEW p \in S,
                      IsFiniteSet(S), Cardinality(S) = k + 1, Alike(reg, other, S),
                      Walks(reg)[n][p].met \subseteq S, ~Walks(reg)[n][p].twice
               PROVE  /\ Walks(other)[m][p] = Walks(reg)[n][p]
                      /\ Givens(other, d)[m][p] = Givens(reg, d)[n][p]
    BY <1>0
  <2> DEFINE R == S \ {p}
  <2>1. IsFiniteSet(R) /\ Cardinality(R) = k /\ R \in SUBSET DOMAIN reg
    <3>1. IsFiniteSet(S \ {p}) /\ Cardinality(S \ {p}) = Cardinality(S) - 1
      BY FS_RemoveElement
    <3>2. (k + 1) - 1 = k
      OBVIOUS
    <3> QED
      BY <3>1, <3>2
  <2>2. Alike(reg, other, R)
    BY DEF Alike
  <2>3. /\ n \in 2..Deepest(reg) /\ n \in 1..Deepest(reg) /\ n # 0 /\ n \in 0..Deepest(reg)
        /\ n - 1 \in (k + 1)..Deepest(reg) /\ n - 1 \in 1..Deepest(reg)
        /\ m \in 1..Deepest(other) /\ m # 0 /\ m \in 0..Deepest(other)
        /\ m - 1 \in (k + 1)..Deepest(other)
        /\ p \in DOMAIN reg /\ p \in DOMAIN other /\ other[p].def = reg[p].def
        /\ WellFormed(reg[p].def)
    BY <1>0 DEF Alike, Proper
  <2>4. /\ Parents(other, p) = Parents(reg, p)
        /\ \A i \in Parents(reg, p) : reg[p].def.inherits[i] \in S
    BY <1>0, <2>3, SameParents
  <2>5. ASSUME NEW i \in Parents(reg, p)
        PROVE  /\ Walks(other)[m - 1][reg[p].def.inherits[i]] =
                    Walks(reg)[n - 1][reg[p].def.inherits[i]]
               /\ Givens(other, d)[m - 1][reg[p].def.inherits[i]] =
                    Givens(reg, d)[n - 1][reg[p].def.inherits[i]]
    <3> DEFINE q == reg[p].def.inherits[i]
    <3>1. /\ q \in DOMAIN reg /\ Walks(reg)[n - 1][q].met \subseteq S
          /\ p \notin Walks(reg)[n - 1][q].met /\ ~Walks(reg)[n - 1][q].twice
      BY <1>0, <2>3, MetByParents
    <3>2. q \in Walks(reg)[n - 1][q].met
      BY <1>0, <2>3, <3>1, MetByParents
    <3>3. q \in R /\ Walks(reg)[n - 1][q].met \subseteq R
      BY <3>1, <3>2
    <3> DEFINE n1 == n - 1
               m1 == m - 1
    <3>4. n1 \in (k + 1)..Deepest(reg) /\ m1 \in (k + 1)..Deepest(other)
      BY <2>3
    <3> HIDE DEF q, R, n1, m1
    <3>5. Same(k, R, n1, m1, q)
      BY <1>2, <2>1, <3>3, <3>4
    <3>6. /\ Walks(reg)[n1][q].met \subseteq R /\ ~Walks(reg)[n1][q].twice
      BY <3>1, <3>3 DEF n1
    <3>7. /\ Walks(other)[m1][q] = Walks(reg)[n1][q]
          /\ Givens(other, d)[m1][q] = Givens(reg, d)[n1][q]
      BY <2>1, <2>2, <3>5, <3>6
    <3> QED
      BY <3>7 DEF n1, m1, q
  <2>6. Walks(reg)[n] = [q \in DOMAIN reg |-> Met(reg, q, Walks(reg)[n - 1])]
    BY <1>0, <2>3, WalksRun
  <2>7. Walks(other)[m] = [q \in DOMAIN other |-> Met(other, q, Walks(other)[m - 1])]
    BY <1>0, <2>3, WalksRun
  <2>12. Givens(reg, d)[n] = [q \in DOMAIN reg |-> Gives(reg, q, d, Givens(reg, d)[n - 1])]
    <3>1. \A l \in 0..Deepest(reg) : Givens(reg, d)[l] =
            IF l = 0 THEN [q \in DOMAIN reg |-> None]
            ELSE [q \in DOMAIN reg |-> Gives(reg, q, d, Givens(reg, d)[l - 1])]
      BY <1>0, GivensRun
    <3> QED
      BY <2>3, <3>1
  <2>13. Givens(other, d)[m] = [q \in DOMAIN other |-> Gives(other, q, d, Givens(other, d)[m - 1])]
    <3>1. \A l \in 0..Deepest(other) : Givens(other, d)[l] =
            IF l = 0 THEN [q \in DOMAIN other |-> None]
            ELSE [q \in DOMAIN other |-> Gives(other, q, d, Givens(other, d)[l - 1])]
      BY <1>0, GivensRun
    <3> QED
      BY <2>3, <3>1
  <2> DEFINE w == Walks(reg)[n - 1]
             v == Walks(other)[m - 1]
             g == Givens(reg, d)[n - 1]
             h == Givens(other, d)[m - 1]
  <2>8. /\ Walks(reg)[n][p] = Met(reg, p, w) /\ Walks(other)[m][p] = Met(other, p, v)
        /\ Givens(reg, d)[n][p] = Gives(reg, p, d, g) /\ Givens(other, d)[m][p] = Gives(other, p, d, h)
    BY <2>3, <2>6, <2>7, <2>12, <2>13
  <2>9. /\ \A i \in Parents(reg, p) : v[reg[p].def.inherits[i]] = w[reg[p].def.inherits[i]]
        /\ \A i \in Parents(reg, p) : h[reg[p].def.inherits[i]] = g[reg[p].def.inherits[i]]
    BY <2>5
  <2> HIDE DEF w, v, g, h
  <2>10. Met(other, p, v) = Met(reg, p, w)
    BY <2>3, <2>4, <2>9, MetSame
  <2>11. Gives(other, p, d, h) = Gives(reg, p, d, g)
    BY <2>3, <2>4, <2>9, GivesSame
  <2> QED
    BY <2>8, <2>10, <2>11
<1>3. Nat \subseteq T
  <2> HIDE DEF T
  <2> QED
    BY <1>1, <1>2, Induct
<1> QED
  BY <1>3

(* ----------------- 4. what is resolved is what is given ----------------- *)

\* Settings that hold for a domain what it is given, or nothing if that is nothing.
Fits(settings, d, given) ==
  IF given = None THEN d \notin DOMAIN settings
  ELSE d \in DOMAIN settings /\ settings[d] = given

\* One step of _resolveInheritance leaves what the profile is given, if its parents'
\* settings fit and its own, where they were resolved before.
LEMMA ResolvedFits ==
  ASSUME NEW reg, NEW p, NEW d, NEW before, NEW so, WellFormed(reg[p].def),
         \A i \in Parents(reg, p) :
           Fits(before[reg[p].def.inherits[i]], d, so[reg[p].def.inherits[i]]),
         reg[p].resolved # None => Fits(reg[p].resolved, d, Gives(reg, p, d, so))
  PROVE  Fits(ResolvedBy(reg, p, before), d, Gives(reg, p, d, so))
<1> DEFINE def == reg[p].def
           parent == def.inherits
           L == Len(parent)
           parts == [i \in DOMAIN parent |->
                      IF i \in Parents(reg, p) THEN before[parent[i]] ELSE Nothing]
           givers == {i \in Parents(reg, p) : so[def.inherits[i]] # None}
           last == CHOOSE i \in givers : \A j \in givers : j <= i
           inherited == IF givers = {} THEN None ELSE so[parent[last]]
           all == MergeAll(parts)
           own == Settings(reg[p])
           value == Gives(reg, p, d, so)
<1>1. /\ L \in Nat /\ DOMAIN parent = 1..L /\ Parents(reg, p) \subseteq 1..L
      /\ \A x \in DOMAIN def.settings : def.settings[x] # None
      /\ \A x \in DOMAIN def.overrides : def.overrides[x] # None
  <2>1. parent \in Seq(STRING)
    BY DEF WellFormed
  <2>2. L \in Nat /\ DOMAIN parent = 1..L
    BY <2>1, LenProperties
  <2> QED
    BY <2>2 DEF WellFormed, Parents
<1>2. /\ Len(parts) = L
      /\ \A i \in 1..L : parts[i] = IF i \in Parents(reg, p) THEN before[parent[i]] ELSE Nothing
  <2>1. /\ parts = [i \in 1..L |-> parts[i]]
        /\ \A i \in 1..L : parts[i] = IF i \in Parents(reg, p) THEN before[parent[i]] ELSE Nothing
    BY <1>1
  <2> HIDE DEF parts, L
  <2> QED
    BY <1>1, <2>1, ListOf
<1>3. ResolvedBy(reg, p, before) = DeepMerge(DeepMerge(all, own), def.overrides)
  BY Zenon DEF ResolvedBy
<1>4. value = CASE d \in DOMAIN def.overrides -> def.overrides[d]
                [] d \in DOMAIN def.settings \ DOMAIN def.overrides -> def.settings[d]
                [] OTHER -> inherited
  BY Zenon DEF Gives
<1>5. givers # {} => last \in givers /\ \A j \in givers : j <= last
  BY LastGiver
<1> HIDE DEF parts, last
<1>6. \A i \in 1..L : /\ d \in DOMAIN parts[i] <=> i \in givers
                      /\ i \in givers => parts[i][d] = so[parent[i]]
  BY <1>2, NothingSet DEF Fits
<1>7. Fits(all, d, inherited)
  <2>1. /\ (\A i \in 1..L : d \notin DOMAIN parts[i]) => d \notin DOMAIN all
        /\ \A i \in 1..L :
              d \in DOMAIN parts[i] /\ (\A j \in 1..L : d \in DOMAIN parts[j] => j <= i) =>
                d \in DOMAIN all /\ all[d] = parts[i][d]
    <3> HIDE DEF L
    <3> QED
      BY <1>1, <1>2, LastParentWins
  <2> HIDE DEF all
  <2>2. CASE givers = {}
    BY <1>6, <2>1, <2>2 DEF Fits
  <2>3. CASE givers # {}
    <3>1. last \in givers /\ \A j \in givers : j <= last
      BY <1>5, <2>3
    <3>2. last \in 1..L /\ so[parent[last]] # None
      BY <1>1, <3>1
    <3>3. d \in DOMAIN parts[last] /\ \A j \in 1..L : d \in DOMAIN parts[j] => j <= last
      BY <1>6, <3>1, <3>2
    <3>4. d \in DOMAIN all /\ all[d] = parts[last][d] /\ parts[last][d] = so[parent[last]]
      BY <1>6, <2>1, <3>1, <3>2, <3>3
    <3> QED
      BY <2>3, <3>2, <3>4 DEF Fits
  <2> QED
    BY <2>2, <2>3
<1> DEFINE whole == DeepMerge(DeepMerge(all, own), def.overrides)
           most == DeepMerge(all, own)
<1>8. /\ d \in DOMAIN whole <=> d \in DOMAIN most \/ d \in DOMAIN def.overrides
      /\ d \in DOMAIN def.overrides => whole[d] = def.overrides[d]
      /\ d \in DOMAIN most /\ d \notin DOMAIN def.overrides => whole[d] = most[d]
  <2> HIDE DEF all, own, def
  <2> QED
    BY MergedDomain
<1>9. /\ d \in DOMAIN most <=> d \in DOMAIN all \/ d \in DOMAIN own
      /\ d \in DOMAIN own => most[d] = own[d]
      /\ d \in DOMAIN all /\ d \notin DOMAIN own => most[d] = all[d]
  <2> HIDE DEF all, own
  <2> QED
    BY MergedDomain
<1>10. own = (IF reg[p].resolved = None THEN def.settings ELSE reg[p].resolved)
  BY DEF Settings
<1>11. reg[p].resolved # None => Fits(reg[p].resolved, d, value)
  OBVIOUS
<1> HIDE DEF all, own, value, inherited, most, whole, def
<1>12. CASE d \in DOMAIN def.overrides
  <2>1. value = def.overrides[d] /\ value # None
    BY <1>1, <1>4, <1>12
  <2> QED
    BY <1>3, <1>8, <1>12, <2>1 DEF Fits, value, whole
<1>13. CASE d \notin DOMAIN def.overrides /\ reg[p].resolved = None
  <2>1. CASE d \in DOMAIN def.settings
    <3>1. value = def.settings[d] /\ value # None
      BY <1>1, <1>4, <1>13, <2>1
    <3>2. Fits(whole, d, value)
      BY <1>8, <1>9, <1>10, <1>13, <2>1, <3>1 DEF Fits
    <3> QED
      BY <1>3, <3>2 DEF value, whole
  <2>2. CASE d \notin DOMAIN def.settings
    <3>1. value = inherited
      BY <1>4, <1>13, <2>2
    <3>2. Fits(whole, d, value)
      BY <1>7, <1>8, <1>9, <1>10, <1>13, <2>2, <3>1 DEF Fits
    <3> QED
      BY <1>3, <3>2 DEF value, whole
  <2> QED
    BY <2>1, <2>2
<1>14. CASE d \notin DOMAIN def.overrides /\ reg[p].resolved # None
  <2>1. Fits(own, d, value)
    BY <1>10, <1>11, <1>14
  <2>2. value = None => inherited = None
    BY <1>1, <1>4, <1>14
  <2>3. Fits(whole, d, value)
    BY <1>7, <1>8, <1>9, <1>14, <2>1, <2>2 DEF Fits
  <2> QED
    BY <1>3, <2>3 DEF value, whole
<1> QED
  BY <1>12, <1>13, <1>14

\* The profiles a set has room for: the walk is longer than them.
LEMMA EnoughSteps ==
  ASSUME NEW reg, IsFiniteSet(DOMAIN reg), NEW S \in SUBSET DOMAIN reg
  PROVE  /\ IsFiniteSet(S) /\ Cardinality(S) \in Nat /\ Deepest(reg) \in Nat
         /\ Deepest(reg) \in (Cardinality(S) + 1)..Deepest(reg)
<1>1. IsFiniteSet(S) /\ Cardinality(S) <= Cardinality(DOMAIN reg)
  BY FS_Subset
<1>2. Cardinality(S) \in Nat /\ Cardinality(DOMAIN reg) \in Nat
  BY <1>1, FS_CardinalityType
<1> QED
  BY <1>1, <1>2 DEF Deepest

\* A profile in two registries that agree on all it inherits from.
LEMMA SameGiven ==
  ASSUME NEW reg, Proper(reg), NEW other, IsFiniteSet(DOMAIN other), NEW d,
         NEW p \in DOMAIN reg, ~Rejected(reg, p), Alike(reg, other, Walk(reg)[p].met)
  PROVE  /\ p \in DOMAIN other /\ p \in Walk(reg)[p].met
         /\ Walk(other)[p] = Walk(reg)[p]
         /\ Given(other, d)[p] = Given(reg, d)[p]
<1> DEFINE S == Walk(reg)[p].met
           n == Deepest(reg)
           m == Deepest(other)
           k == Cardinality(S)
<1>1. IsFiniteSet(DOMAIN reg)
  BY DEF Proper
<1>2. S \in SUBSET DOMAIN reg /\ S \in SUBSET DOMAIN other
  BY DEF Alike
<1>3. /\ IsFiniteSet(S) /\ k \in Nat /\ n \in Nat /\ m \in Nat
      /\ n \in (k + 1)..n /\ m \in (k + 1)..m
  <2> HIDE DEF S
  <2> QED
    BY <1>1, <1>2, EnoughSteps
<1>4. /\ Walk(reg) = Walks(reg)[n] /\ Walk(other) = Walks(other)[m]
  BY <1>1, WalksRun
<1>5. Given(reg, d) = Givens(reg, d)[n]
  BY <1>1, GivensRun
<1>6. Given(other, d) = Givens(other, d)[m]
  BY GivensRun
<1>7. n \in 1..n
  BY <1>3
<1>8. p \in S
  BY <1>1, <1>4, <1>7, MetByParents
<1>9. Walks(reg)[n][p].met \subseteq S /\ ~Walks(reg)[n][p].twice
  BY <1>4 DEF Rejected
<1>10. Alike(reg, other, S)
  OBVIOUS
<1> HIDE DEF S, n, m, k
<1>11. Cardinality(S) = k
  BY DEF k
<1>12. n \in (k + 1)..Deepest(reg) /\ m \in (k + 1)..Deepest(other)
  BY <1>3 DEF n, m
<1>13. /\ Walks(other)[m][p] = Walks(reg)[n][p]
       /\ Givens(other, d)[m][p] = Givens(reg, d)[n][p]
  BY <1>2, <1>3, <1>8, <1>9, <1>10, <1>11, <1>12, SameWalk
<1> QED
  BY <1>2, <1>4, <1>5, <1>6, <1>8, <1>13 DEF S

\* What a profile inherits from is met on its own as it is met from there, and what is
\* merged on the way fits what is given, if what was resolved before fits.
LEMMA WalkFits ==
  ASSUME NEW reg, Proper(reg), NEW d
  PROVE  \A k \in Nat : \A S \in SUBSET DOMAIN reg :
         \A n \in (k + 1)..Deepest(reg) : \A p \in S :
           IsFiniteSet(S) /\ Cardinality(S) = k
           /\ Walks(reg)[n][p].met \subseteq S /\ ~Walks(reg)[n][p].twice =>
             /\ \A q \in Walks(reg)[n][p].met :
                  ~Rejected(reg, q) /\ Walk(reg)[q].met \subseteq Walks(reg)[n][p].met
             /\ (\A q \in Walks(reg)[n][p].met :
                  reg[q].resolved # None => Fits(reg[q].resolved, d, Given(reg, d)[q])) =>
                    Fits(Merges(reg)[n][p], d, Givens(reg, d)[n][p])
<1> DEFINE Right(M) == \A q \in M :
             reg[q].resolved # None => Fits(reg[q].resolved, d, Given(reg, d)[q])
           Clean(M) == \A q \in M : ~Rejected(reg, q) /\ Walk(reg)[q].met \subseteq M
           Holds(k, S, n, p) ==
             IsFiniteSet(S) /\ Cardinality(S) = k
             /\ Walks(reg)[n][p].met \subseteq S /\ ~Walks(reg)[n][p].twice =>
               /\ Clean(Walks(reg)[n][p].met)
               /\ Right(Walks(reg)[n][p].met) => Fits(Merges(reg)[n][p], d, Givens(reg, d)[n][p])
           T == {k \in Nat : \A S \in SUBSET DOMAIN reg :
                  \A n \in (k + 1)..Deepest(reg) : \A p \in S : Holds(k, S, n, p)}
<1>0. /\ IsFiniteSet(DOMAIN reg) /\ Deepest(reg) \in Nat /\ Walk(reg) = Walks(reg)[Deepest(reg)]
      /\ Given(reg, d) = Givens(reg, d)[Deepest(reg)]
  <2>1. IsFiniteSet(DOMAIN reg)
    BY DEF Proper
  <2> QED
    BY <2>1, WalksRun, GivensRun
<1>1. 0 \in T
  <2>1. ASSUME NEW S \in SUBSET DOMAIN reg, NEW p \in S, IsFiniteSet(S), Cardinality(S) = 0
        PROVE  FALSE
    BY <2>1, FS_EmptySet
  <2> HIDE DEF Clean, Right
  <2> QED
    BY <2>1
<1>2. ASSUME NEW k \in Nat, k \in T PROVE k + 1 \in T
  <2>1. ASSUME NEW S \in SUBSET DOMAIN reg, NEW n \in (k + 2)..Deepest(reg), NEW p \in S,
               IsFiniteSet(S), Cardinality(S) = k + 1,
               Walks(reg)[n][p].met \subseteq S, ~Walks(reg)[n][p].twice
        PROVE  /\ Clean(Walks(reg)[n][p].met)
               /\ Right(Walks(reg)[n][p].met) => Fits(Merges(reg)[n][p], d, Givens(reg, d)[n][p])
    <3> DEFINE R == S \ {p}
               w == Walks(reg)[n - 1]
               g == Givens(reg, d)[n - 1]
               h == Merges(reg)[n - 1]
               M == Walks(reg)[n][p].met
    <3>1. IsFiniteSet(R) /\ Cardinality(R) = k /\ R \in SUBSET DOMAIN reg
      <4>1. IsFiniteSet(S \ {p}) /\ Cardinality(S \ {p}) = Cardinality(S) - 1
        BY <2>1, FS_RemoveElement
      <4>2. (k + 1) - 1 = k
        OBVIOUS
      <4> QED
        BY <2>1, <4>1, <4>2
    <3>2. /\ n \in 1..Deepest(reg) /\ n # 0 /\ n \in 0..Deepest(reg)
          /\ n - 1 \in (k + 1)..Deepest(reg) /\ n - 1 \in 1..Deepest(reg)
          /\ Deepest(reg) \in (k + 2)..Deepest(reg)
          /\ p \in DOMAIN reg /\ WellFormed(reg[p].def)
      BY <1>0 DEF Proper
    <3>3. ASSUME NEW i \in Parents(reg, p)
          PROVE  LET q == reg[p].def.inherits[i]
                 IN /\ w[q].met \subseteq M /\ p \notin w[q].met
                    /\ Clean(w[q].met) /\ (Right(w[q].met) => Fits(h[q], d, g[q]))
      <4> DEFINE q == reg[p].def.inherits[i]
                 l == n - 1
      <4>1. /\ q \in DOMAIN reg /\ Walks(reg)[n - 1][q].met \subseteq Walks(reg)[n][p].met
            /\ p \notin Walks(reg)[n - 1][q].met /\ ~Walks(reg)[n - 1][q].twice
        BY <1>0, <2>1, <3>2, MetByParents
      <4>2. q \in Walks(reg)[n - 1][q].met
        BY <1>0, <3>2, <4>1, MetByParents
      <4>3. q \in R /\ Walks(reg)[l][q].met \subseteq R /\ ~Walks(reg)[l][q].twice
        BY <2>1, <4>1, <4>2
      <4>4. l \in (k + 1)..Deepest(reg)
        BY <3>2
      <4> HIDE DEF q, R, l
      <4>5. Holds(k, R, l, q)
        <5> HIDE DEF Holds
        <5> QED
          BY <1>2, <3>1, <4>3, <4>4
      <4> HIDE DEF Clean, Right
      <4>6. /\ Clean(Walks(reg)[l][q].met)
            /\ Right(Walks(reg)[l][q].met) => Fits(Merges(reg)[l][q], d, Givens(reg, d)[l][q])
        BY <3>1, <4>3, <4>5
      <4> QED
        BY <4>1, <4>6 DEF l, q
    <3>4. Walk(reg)[p] = Walks(reg)[n][p] /\ Given(reg, d)[p] = Givens(reg, d)[n][p]
      <4> DEFINE m == Deepest(reg)
                 j == k + 1
      <4>1. Alike(reg, reg, S)
        BY DEF Alike
      <4>2. /\ j \in Nat /\ n \in (j + 1)..Deepest(reg) /\ m \in (j + 1)..Deepest(reg)
            /\ Cardinality(S) = j
        BY <1>0, <2>1, <3>2
      <4> HIDE DEF j, m
      <4>3. /\ Walks(reg)[m][p] = Walks(reg)[n][p]
            /\ Givens(reg, d)[m][p] = Givens(reg, d)[n][p]
        BY <1>0, <2>1, <4>1, <4>2, SameWalk
      <4> QED
        BY <1>0, <4>3 DEF m
    <3>5. Walks(reg)[n] = [q \in DOMAIN reg |-> Met(reg, q, Walks(reg)[n - 1])]
      BY <1>0, <3>2, WalksRun
    <3>6. Givens(reg, d)[n] = [q \in DOMAIN reg |-> Gives(reg, q, d, Givens(reg, d)[n - 1])]
      <4>1. \A l \in 0..Deepest(reg) : Givens(reg, d)[l] =
              IF l = 0 THEN [q \in DOMAIN reg |-> None]
              ELSE [q \in DOMAIN reg |-> Gives(reg, q, d, Givens(reg, d)[l - 1])]
        BY <1>0, GivensRun
      <4> QED
        BY <3>2, <4>1
    <3>7. Merges(reg)[n] = [q \in DOMAIN reg |-> ResolvedBy(reg, q, Merges(reg)[n - 1])]
      BY <1>0, <3>2, MergesRun
    <3>8. /\ Walks(reg)[n][p] = Met(reg, p, w) /\ Givens(reg, d)[n][p] = Gives(reg, p, d, g)
          /\ Merges(reg)[n][p] = ResolvedBy(reg, p, h)
      BY <3>2, <3>5, <3>6, <3>7
    <3> HIDE DEF w, g, h
    <3>9. \A q \in M : q = p \/ \E i \in Parents(reg, p) : q \in w[reg[p].def.inherits[i]].met
        <4> DEFINE branch == [i \in Parents(reg, p) |-> w[reg[p].def.inherits[i]]]
      <4>1. \A i \in Parents(reg, p) : branch[i] = w[reg[p].def.inherits[i]]
        OBVIOUS
      <4> HIDE DEF branch
      <4>2. Met(reg, p, w).met = {p} \cup UNION {branch[i].met : i \in Parents(reg, p)}
        BY DEF Met, branch
      <4>3. M = {p} \cup UNION {branch[i].met : i \in Parents(reg, p)}
        BY <3>8, <4>2
      <4> HIDE DEF M
      <4> QED
        BY <4>1, <4>3
    <3>10. p \in M
      BY <1>0, <3>2, MetByParents
    <3>11. Clean(M)
      <4> SUFFICES ASSUME NEW q \in M PROVE ~Rejected(reg, q) /\ Walk(reg)[q].met \subseteq M
        OBVIOUS
      <4>1. CASE q = p
        BY <2>1, <3>4, <4>1 DEF Rejected
      <4>2. CASE q # p
        <5>1. PICK i \in Parents(reg, p) : q \in w[reg[p].def.inherits[i]].met
          BY <3>9, <4>2
        <5> HIDE DEF M
        <5> QED
          BY <3>3, <5>1
      <4> QED
        BY <4>1, <4>2
    <3>12. ASSUME Right(M) PROVE Fits(Merges(reg)[n][p], d, Givens(reg, d)[n][p])
      <4>1. \A i \in Parents(reg, p) :
              Fits(h[reg[p].def.inherits[i]], d, g[reg[p].def.inherits[i]])
        <5> TAKE i \in Parents(reg, p)
        <5> DEFINE q == reg[p].def.inherits[i]
        <5>1. w[q].met \subseteq M /\ (Right(w[q].met) => Fits(h[q], d, g[q]))
          <6> HIDE DEF M, Clean, Right
          <6> QED
            BY <3>3
        <5> HIDE DEF q
        <5>2. Right(w[q].met)
          BY <3>12, <5>1
        <5>3. Fits(h[q], d, g[q])
          BY <5>1, <5>2
        <5> QED
          BY <5>3 DEF q
      <4>2. reg[p].resolved # None => Fits(reg[p].resolved, d, Given(reg, d)[p])
        BY <3>10, <3>12
      <4>3. reg[p].resolved # None => Fits(reg[p].resolved, d, Gives(reg, p, d, g))
        BY <3>4, <3>8, <4>2
      <4>4. Fits(ResolvedBy(reg, p, h), d, Gives(reg, p, d, g))
        BY <3>2, <4>1, <4>3, ResolvedFits
      <4> QED
        BY <3>8, <4>4
    <3> QED
      BY <3>11, <3>12
  <2>2. (k + 1) + 1 = k + 2
    OBVIOUS
  <2> HIDE DEF Clean, Right
  <2> QED
    BY <2>1, <2>2
<1>3. Nat \subseteq T
  <2> HIDE DEF T
  <2> QED
    BY <1>1, <1>2, Induct
<1> QED
  BY <1>3

\* Those a profile inherits from are not rejected if it is not, they meet no others, and
\* what it inherits fits.
LEMMA Ancestors ==
  ASSUME NEW reg, Proper(reg), NEW p \in DOMAIN reg, ~Rejected(reg, p),
         Walk(reg)[p].met \subseteq DOMAIN reg, NEW d
  PROVE  /\ \A q \in Walk(reg)[p].met : ~Rejected(reg, q) /\ Walk(reg)[q].met \subseteq Walk(reg)[p].met
         /\ (\A q \in Walk(reg)[p].met :
              reg[q].resolved # None => Fits(reg[q].resolved, d, Given(reg, d)[q])) =>
                Fits(Inherited(reg)[p], d, Given(reg, d)[p])
<1> DEFINE S == Walk(reg)[p].met
           n == Deepest(reg)
           k == Cardinality(S)
<1>1. IsFiniteSet(DOMAIN reg) /\ S \in SUBSET DOMAIN reg
  BY DEF Proper
<1>2. IsFiniteSet(S) /\ k \in Nat /\ n \in (k + 1)..n /\ n \in Nat
  <2> HIDE DEF S
  <2> QED
    BY <1>1, EnoughSteps
<1>3. Walk(reg) = Walks(reg)[n] /\ Inherited(reg) = Merges(reg)[n]
  BY <1>1, WalksRun, MergesRun
<1>4. Given(reg, d) = Givens(reg, d)[n]
  BY <1>1, GivensRun
<1>5. n \in 1..n
  BY <1>2
<1>6. p \in S
  BY <1>1, <1>3, <1>5, MetByParents
<1>7. Walks(reg)[n][p].met = S /\ ~Walks(reg)[n][p].twice
  BY <1>3 DEF Rejected
<1> HIDE DEF S, n, k
<1>8. Cardinality(S) = k
  BY DEF k
<1>9. n \in (k + 1)..Deepest(reg) /\ Walks(reg)[n][p].met \subseteq S
  BY <1>2, <1>7 DEF n
<1>10. /\ \A q \in Walks(reg)[n][p].met :
            ~Rejected(reg, q) /\ Walk(reg)[q].met \subseteq Walks(reg)[n][p].met
       /\ (\A q \in Walks(reg)[n][p].met :
             reg[q].resolved # None => Fits(reg[q].resolved, d, Given(reg, d)[q])) =>
               Fits(Merges(reg)[n][p], d, Givens(reg, d)[n][p])
  BY <1>1, <1>2, <1>6, <1>7, <1>8, <1>9, WalkFits
<1> QED
  BY <1>3, <1>4, <1>7, <1>10 DEF S

\* Only profiles that are known are met.
LEMMA MetAreKnown ==
  ASSUME NEW reg, Proper(reg)
  PROVE  \A p \in DOMAIN reg : Walk(reg)[p].met \subseteq DOMAIN reg
<1> DEFINE N == Deepest(reg)
           T == {n \in Nat : n <= N => \A p \in DOMAIN reg : Walks(reg)[n][p].met \subseteq DOMAIN reg}
<1>1. IsFiniteSet(DOMAIN reg)
  BY DEF Proper
<1>2. /\ Walk(reg) = Walks(reg)[N] /\ N \in Nat
      /\ \A n \in 0..N : Walks(reg)[n] =
           IF n = 0 THEN [p \in DOMAIN reg |-> [met |-> {}, twice |-> FALSE]]
           ELSE [p \in DOMAIN reg |-> Met(reg, p, Walks(reg)[n - 1])]
  BY <1>1, WalksRun
<1> HIDE DEF N
<1>3. 0 \in T
  <2>1. 0 \in 0..N
    BY <1>2
  <2>2. Walks(reg)[0] = [p \in DOMAIN reg |-> [met |-> {}, twice |-> FALSE]]
    BY <1>2, <2>1
  <2> QED
    BY <2>2
<1>4. \A n \in Nat : n \in T => n + 1 \in T
  <2>1. ASSUME NEW n \in Nat, n + 1 <= N,
               \A p \in DOMAIN reg : Walks(reg)[n][p].met \subseteq DOMAIN reg,
               NEW p \in DOMAIN reg
        PROVE  Walks(reg)[n + 1][p].met \subseteq DOMAIN reg
    <3> DEFINE w == Walks(reg)[n]
               branch == [i \in Parents(reg, p) |-> w[reg[p].def.inherits[i]]]
    <3>1. n + 1 \in 0..N /\ n + 1 # 0 /\ (n + 1) - 1 = n
      BY <1>2, <2>1
    <3>2. Walks(reg)[n + 1] = [q \in DOMAIN reg |-> Met(reg, q, w)]
      BY <1>2, <3>1
    <3>3. \A i \in Parents(reg, p) : branch[i].met \subseteq DOMAIN reg
      BY <2>1 DEF Parents
    <3> HIDE DEF branch, w
    <3>4. Met(reg, p, w).met = {p} \cup UNION {branch[i].met : i \in Parents(reg, p)}
      BY DEF Met, branch
    <3>5. Walks(reg)[n + 1][p] = Met(reg, p, w)
      BY <3>2
    <3> QED
      BY <3>3, <3>4, <3>5
  <2>2. \A n \in Nat : n + 1 <= N => n <= N
    BY <1>2
  <2> QED
    BY <2>1, <2>2
<1>5. Nat \subseteq T
  <2> HIDE DEF T
  <2> QED
    BY <1>3, <1>4, Induct
<1> QED
  BY <1>2, <1>5

(* ---------------------------- 5. registering ---------------------------- *)

\* Registries as register makes them.
Named(reg) ==
  /\ Proper(reg)
  /\ \A p \in DOMAIN reg : /\ reg[p] = [def |-> reg[p].def, resolved |-> reg[p].resolved]
                           /\ reg[p].def.id = p

\* An empty registry is one.
LEMMA NothingNamed == Named(Nothing) /\ DOMAIN Nothing = {}
BY NothingSet, FS_EmptySet DEF Named, Proper

\* Registration leaves what there is, or stores a definition that is valid.
LEMMA RegisterNamed ==
  ASSUME NEW reg, Named(reg), NEW def, def.valid => WellFormed(def)
  PROVE  /\ Named(Register(reg, def)) /\ DOMAIN reg \subseteq DOMAIN Register(reg, def)
         /\ \A p \in DOMAIN Register(reg, def) :
              \/ p \in DOMAIN reg /\ Register(reg, def)[p] = reg[p]
              \/ p = def.id /\ Register(reg, def)[p] = [def |-> def, resolved |-> None]
         /\ def.valid => def.id \in DOMAIN Register(reg, def)
<1> DEFINE new == Register(reg, def)
           entry == [def |-> def, resolved |-> None]
<1>1. CASE ~def.valid \/ (def.id \in DOMAIN reg /\ reg[def.id].def.version = def.version)
  BY <1>1 DEF Register
<1>2. CASE ~(~def.valid \/ (def.id \in DOMAIN reg /\ reg[def.id].def.version = def.version))
  <2>1. new = [id \in DOMAIN reg \cup {def.id} |-> IF id = def.id THEN entry ELSE reg[id]]
    BY <1>2, Zenon DEF Register
  <2>2. entry = [def |-> entry.def, resolved |-> entry.resolved] /\ entry.def = def
    OBVIOUS
  <2> HIDE DEF new, entry
  <2>3. /\ DOMAIN new = DOMAIN reg \cup {def.id} /\ new[def.id] = entry
        /\ \A p \in DOMAIN reg : p # def.id => new[p] = reg[p]
    BY <2>1
  <2>4. IsFiniteSet(DOMAIN new)
    BY <2>3, FS_AddElement DEF Named, Proper
  <2>5. ASSUME NEW p \in DOMAIN new
        PROVE  /\ WellFormed(new[p].def) /\ new[p].def.id = p
               /\ new[p] = [def |-> new[p].def, resolved |-> new[p].resolved]
    <3>1. CASE p = def.id
      BY <1>2, <2>2, <2>3, <3>1
    <3>2. CASE p # def.id
      BY <2>3, <2>5, <3>2 DEF Named, Proper
    <3> QED
      BY <3>1, <3>2
  <2>6. Named(new)
    BY <2>4, <2>5 DEF Named, Proper
  <2> QED
    BY <2>3, <2>6 DEF new, entry
<1> QED
  BY <1>1, <1>2

\* What the loop of registerAll leaves: what there was, and definitions of the list.
LEMMA StoredNamed ==
  ASSUME NEW reg, Named(reg), NEW defs, Len(defs) \in Nat,
         \A i \in 1..Len(defs) : defs[i].valid => WellFormed(defs[i])
  PROVE  /\ Named(Stored(reg, defs)) /\ DOMAIN reg \subseteq DOMAIN Stored(reg, defs)
         /\ \A p \in DOMAIN Stored(reg, defs) :
              \/ p \in DOMAIN reg /\ Stored(reg, defs)[p] = reg[p]
              \/ /\ Stored(reg, defs)[p].resolved = None
                 /\ \E i \in 1..Len(defs) : Stored(reg, defs)[p].def = defs[i]
<1> DEFINE N == Len(defs)
           so == StoredSoFar(reg, defs)
           Claim(r) ==
             /\ Named(r) /\ DOMAIN reg \subseteq DOMAIN r
             /\ \A p \in DOMAIN r :
                  \/ p \in DOMAIN reg /\ r[p] = reg[p]
                  \/ r[p].resolved = None /\ \E i \in 1..N : r[p].def = defs[i]
           T == {n \in Nat : n <= N => Claim(so[n])}
<1>1. /\ Stored(reg, defs) = so[N]
      /\ \A k \in 0..N : so[k] = IF k = 0 THEN reg ELSE Register(so[k - 1], defs[k])
  BY StoredRuns
<1> HIDE DEF so, N
<1>2. N \in Nat
  BY DEF N
<1>3. 0 \in T
  <2>1. so[0] = reg
    BY <1>1, <1>2
  <2>2. Claim(so[0])
    BY <2>1
  <2> QED
    BY <2>2
<1>4. \A n \in Nat : n \in T => n + 1 \in T
  <2>1. ASSUME NEW n \in Nat, n + 1 <= N, Claim(so[n])
        PROVE  Claim(so[n + 1])
    <3> DEFINE r == so[n]
               def == defs[n + 1]
               new == Register(r, def)
    <3>1. n + 1 \in 0..N /\ n + 1 \in 1..N /\ n + 1 # 0 /\ (n + 1) - 1 = n
      BY <1>2, <2>1
    <3>2. so[n + 1] = new
      BY <1>1, <3>1
    <3>3. Named(r) /\ (def.valid => WellFormed(def))
      BY <2>1, <3>1 DEF N
    <3> HIDE DEF r, def
    <3>4. /\ Named(new) /\ DOMAIN r \subseteq DOMAIN new
          /\ \A p \in DOMAIN new :
               \/ p \in DOMAIN r /\ new[p] = r[p]
               \/ new[p] = [def |-> def, resolved |-> None]
      BY <3>3, RegisterNamed
    <3> HIDE DEF new
    <3>5. ASSUME NEW p \in DOMAIN new
          PROVE  \/ p \in DOMAIN reg /\ new[p] = reg[p]
                 \/ new[p].resolved = None /\ \E i \in 1..N : new[p].def = defs[i]
      <4>1. CASE p \in DOMAIN r /\ new[p] = r[p]
        BY <2>1, <4>1 DEF r
      <4>2. CASE new[p] = [def |-> def, resolved |-> None]
        BY <3>1, <4>2 DEF def
      <4> QED
        BY <3>4, <4>1, <4>2
    <3>6. DOMAIN reg \subseteq DOMAIN new
      BY <2>1, <3>4 DEF r
    <3> QED
      BY <3>2, <3>4, <3>5, <3>6
  <2>2. \A n \in Nat : n + 1 <= N => n <= N
    BY <1>2
  <2> HIDE DEF Claim
  <2> QED
    BY <2>1, <2>2
<1>5. Nat \subseteq T
  <2> HIDE DEF T
  <2> QED
    BY <1>3, <1>4, Induct
<1>6. Claim(so[N])
  <2> HIDE DEF Claim
  <2> QED
    BY <1>2, <1>5
<1> QED
  BY <1>1, <1>6 DEF N

\* The built-in profiles are all there, as they are defined.
LEMMA BuiltinsStored ==
  \A i \in 1..Len(Builtins) : /\ Builtins[i].id \in DOMAIN Stored(Nothing, Builtins)
                              /\ Stored(Nothing, Builtins)[Builtins[i].id].def = Builtins[i]
<1> DEFINE N == Len(Builtins)
           so == StoredSoFar(Nothing, Builtins)
           Claim(n) == /\ Named(so[n])
                       /\ \A p \in DOMAIN so[n] : \E i \in 1..n : so[n][p].def = Builtins[i]
                       /\ \A i \in 1..n : /\ Builtins[i].id \in DOMAIN so[n]
                                          /\ so[n][Builtins[i].id].def = Builtins[i]
           T == {n \in Nat : n <= N => Claim(n)}
<1>1. /\ N \in Nat /\ DOMAIN Builtins = 1..N
      /\ \A i \in 1..N : Builtins[i].valid /\ WellFormed(Builtins[i])
      /\ \A i, j \in 1..N : Builtins[i].id = Builtins[j].id => i = j
  BY ProfileFileAssumption
<1>2. /\ Stored(Nothing, Builtins) = so[N]
      /\ \A k \in 0..N : so[k] = IF k = 0 THEN Nothing ELSE Register(so[k - 1], Builtins[k])
  BY <1>1, StoredRuns
<1> HIDE DEF so, N
<1>3. 0 \in T
  <2>1. so[0] = Nothing
    BY <1>1, <1>2
  <2>2. Claim(0)
    BY <2>1, NothingNamed
  <2> QED
    BY <2>2
<1>4. \A n \in Nat : n \in T => n + 1 \in T
  <2>1. ASSUME NEW n \in Nat, n + 1 <= N, Claim(n)
        PROVE  Claim(n + 1)
    <3> DEFINE r == so[n]
               def == Builtins[n + 1]
               new == Register(r, def)
    <3>1. n + 1 \in 0..N /\ n + 1 \in 1..N /\ n + 1 # 0 /\ (n + 1) - 1 = n
      BY <1>1, <2>1
    <3>2. so[n + 1] = new
      BY <1>2, <3>1
    <3>3. Named(r) /\ def.valid /\ WellFormed(def)
      BY <1>1, <2>1, <3>1
    <3>4. \A i \in 1..n : i \in 1..N /\ i # n + 1 /\ i \in 1..(n + 1)
      BY <1>1, <2>1
    <3>5. \A i \in 1..n : Builtins[i].id # def.id
      BY <1>1, <3>1, <3>4
    <3>6. n + 1 \in 1..(n + 1) /\ \A i \in 1..(n + 1) : i = n + 1 \/ i \in 1..n
      OBVIOUS
    <3> HIDE DEF r, def
    <3>7. /\ Named(new) /\ DOMAIN r \subseteq DOMAIN new /\ def.id \in DOMAIN new
          /\ \A p \in DOMAIN new :
               \/ p \in DOMAIN r /\ new[p] = r[p]
               \/ p = def.id /\ new[p] = [def |-> def, resolved |-> None]
      BY <3>3, RegisterNamed
    <3> HIDE DEF new
    <3>8. \A p \in DOMAIN new : \E i \in 1..(n + 1) : new[p].def = Builtins[i]
      <4> TAKE p \in DOMAIN new
      <4>1. CASE p \in DOMAIN r /\ new[p] = r[p]
        BY <2>1, <3>4, <4>1 DEF r
      <4>2. CASE new[p] = [def |-> def, resolved |-> None]
        BY <3>6, <4>2 DEF def
      <4> QED
        BY <3>7, <4>1, <4>2
    <3>9. new[def.id].def = def
      <4>1. CASE def.id \in DOMAIN r /\ new[def.id] = r[def.id]
        <5>1. PICK i \in 1..n : r[def.id].def = Builtins[i]
          BY <2>1, <4>1 DEF r
        <5>2. r[def.id].def.id = def.id
          BY <3>3, <4>1 DEF Named
        <5> QED
          BY <3>5, <5>1, <5>2
      <4>2. CASE new[def.id] = [def |-> def, resolved |-> None]
        BY <4>2
      <4> QED
        BY <3>7, <4>1, <4>2
    <3>10. ASSUME NEW i \in 1..n
           PROVE  Builtins[i].id \in DOMAIN new /\ new[Builtins[i].id].def = Builtins[i]
      <4>1. Builtins[i].id \in DOMAIN r /\ r[Builtins[i].id].def = Builtins[i]
        BY <2>1 DEF r
      <4>2. Builtins[i].id \in DOMAIN new /\ new[Builtins[i].id] = r[Builtins[i].id]
        BY <3>5, <3>7, <4>1
      <4> QED
        BY <4>1, <4>2
    <3>11. \A i \in 1..(n + 1) : /\ Builtins[i].id \in DOMAIN new
                                 /\ new[Builtins[i].id].def = Builtins[i]
      BY <3>6, <3>7, <3>9, <3>10 DEF def
    <3> QED
      BY <3>2, <3>7, <3>8, <3>11
  <2>2. \A n \in Nat : n + 1 <= N => n <= N
    BY <1>1
  <2> HIDE DEF Claim
  <2> QED
    BY <2>1, <2>2
<1>5. Nat \subseteq T
  <2> HIDE DEF T
  <2> QED
    BY <1>3, <1>4, Induct
<1>6. Claim(N)
  <2> HIDE DEF Claim
  <2> QED
    BY <1>1, <1>5
<1> QED
  BY <1>2, <1>6 DEF N

\* What registerAll resolves fits, if what was resolved before did.
LEMMA RegisteredFits ==
  ASSUME NEW reg, NEW defs, Named(Stored(reg, defs)), NEW p \in DOMAIN RegisterAll(reg, defs),
         NEW d, ~Rejected(RegisterAll(reg, defs), p)
  PROVE  LET all == Stored(reg, defs)
             new == RegisterAll(reg, defs)
         IN /\ ~Rejected(all, p) /\ Walk(all)[p] = Walk(new)[p]
            /\ Given(all, d)[p] = Given(new, d)[p]
            /\ (\A q \in Walk(new)[p].met :
                  all[q].resolved # None => Fits(all[q].resolved, d, Given(all, d)[q])) =>
                    Fits(new[p].resolved, d, Given(new, d)[p])
<1> DEFINE all == Stored(reg, defs)
           new == RegisterAll(reg, defs)
           Resolved(id) == IF Rejected(all, id) THEN Settings(all[id]) ELSE Inherited(all)[id]
<1>1. new = [id \in DOMAIN all |-> [all[id] EXCEPT !.resolved = Resolved(id)]]
  BY Zenon DEF RegisterAll
<1> HIDE DEF Resolved, new, all
<1>2. Named(all) /\ Proper(all)
  BY DEF all, Named
<1>3. DOMAIN new = DOMAIN all
  BY <1>1
<1>4. ASSUME NEW id \in DOMAIN all
      PROVE  new[id].def = all[id].def /\ new[id].resolved = Resolved(id)
  <2> DEFINE entry == all[id]
  <2>1. entry = [def |-> entry.def, resolved |-> entry.resolved]
    BY <1>2 DEF Named
  <2>2. new[id] = [entry EXCEPT !.resolved = Resolved(id)]
    BY <1>1
  <2> HIDE DEF entry
  <2>3. new[id].def = entry.def /\ new[id].resolved = Resolved(id)
    BY <2>1, <2>2
  <2> QED
    BY <2>3 DEF entry
<1>5. Proper(new) /\ IsFiniteSet(DOMAIN all) /\ p \in DOMAIN new /\ ~Rejected(new, p)
  BY <1>2, <1>3, <1>4 DEF Proper, new
<1>6. Walk(new)[p].met \subseteq DOMAIN new
  BY <1>5, MetAreKnown
<1>7. Alike(new, all, Walk(new)[p].met)
  BY <1>3, <1>4, <1>6 DEF Alike
<1>8. Walk(all)[p] = Walk(new)[p] /\ Given(all, d)[p] = Given(new, d)[p]
  BY <1>5, <1>7, SameGiven
<1>9. ~Rejected(all, p)
  BY <1>5, <1>8 DEF Rejected
<1>10. new[p].resolved = Inherited(all)[p]
  BY <1>3, <1>4, <1>5, <1>9 DEF Resolved
<1>11. Walk(all)[p].met \subseteq DOMAIN all /\ p \in DOMAIN all
  BY <1>3, <1>5, <1>6, <1>8
<1>12. (\A q \in Walk(all)[p].met :
          all[q].resolved # None => Fits(all[q].resolved, d, Given(all, d)[q])) =>
            Fits(Inherited(all)[p], d, Given(all, d)[p])
  BY <1>2, <1>9, <1>11, Ancestors
<1> QED
  BY <1>8, <1>9, <1>10, <1>12 DEF all, new

\* Resolving changes no definition.
LEMMA RegisteredNamed ==
  ASSUME NEW reg, NEW defs, Named(Stored(reg, defs))
  PROVE  LET all == Stored(reg, defs)
             new == RegisterAll(reg, defs)
         IN /\ Named(new) /\ DOMAIN new = DOMAIN all
            /\ \A p \in DOMAIN all : new[p].def = all[p].def
<1> DEFINE all == Stored(reg, defs)
           new == RegisterAll(reg, defs)
           Resolved(id) == IF Rejected(all, id) THEN Settings(all[id]) ELSE Inherited(all)[id]
<1>1. new = [id \in DOMAIN all |-> [all[id] EXCEPT !.resolved = Resolved(id)]]
  BY Zenon DEF RegisterAll
<1> HIDE DEF Resolved, new, all
<1>2. Named(all) /\ Proper(all)
  BY DEF all, Named
<1>3. DOMAIN new = DOMAIN all
  BY <1>1
<1>4. ASSUME NEW id \in DOMAIN all
      PROVE  /\ new[id].def = all[id].def
             /\ new[id] = [def |-> new[id].def, resolved |-> new[id].resolved]
  <2> DEFINE entry == all[id]
             value == Resolved(id)
  <2>1. entry = [def |-> entry.def, resolved |-> entry.resolved]
    BY <1>2 DEF Named
  <2>2. new[id] = [entry EXCEPT !.resolved = value]
    BY <1>1
  <2> HIDE DEF entry, value
  <2>3. new[id] = [def |-> entry.def, resolved |-> value]
    BY <2>1, <2>2
  <2>4. /\ new[id].def = entry.def
        /\ new[id] = [def |-> new[id].def, resolved |-> new[id].resolved]
    BY <2>3
  <2> QED
    BY <2>4 DEF entry
<1>5. Proper(new)
  BY <1>2, <1>3, <1>4 DEF Proper
<1>6. Named(new)
  BY <1>2, <1>3, <1>4, <1>5 DEF Named
<1> QED
  BY <1>3, <1>4, <1>6 DEF all, new

\* In a registry that was cleared before, what is resolved and not rejected fits.
LEMMA ClearedFits ==
  ASSUME NEW doc \in ProfileDocuments \cup {Builtins}, NEW p \in DOMAIN RegisterAll(Nothing, doc),
         NEW d, ~Rejected(RegisterAll(Nothing, doc), p)
  PROVE  Fits(RegisterAll(Nothing, doc)[p].resolved, d, Given(RegisterAll(Nothing, doc), d)[p])
<1>1. Len(doc) \in Nat /\ \A i \in 1..Len(doc) : doc[i].valid => WellFormed(doc[i])
  BY ProfileFileAssumption
<1>2. /\ Named(Stored(Nothing, doc))
      /\ \A q \in DOMAIN Stored(Nothing, doc) : Stored(Nothing, doc)[q].resolved = None
  BY <1>1, NothingNamed, StoredNamed
<1>3. DOMAIN RegisterAll(Nothing, doc) = DOMAIN Stored(Nothing, doc) /\ Named(RegisterAll(Nothing, doc))
  BY <1>2, RegisteredNamed
<1>4. Walk(RegisterAll(Nothing, doc))[p].met \subseteq DOMAIN Stored(Nothing, doc)
  BY <1>3, MetAreKnown DEF Named
<1> QED
  BY <1>2, <1>4, RegisteredFits

\* What the registry holds fits, where a profile is well resolved.
ResolvedRight(reg) ==
  \A p \in DOMAIN reg : WellResolved(reg, p) =>
    \A d \in Domains : Fits(reg[p].resolved, d, Given(reg, d)[p])

\* So does all of it.
LEMMA ClearedRight ==
  ASSUME NEW doc \in ProfileDocuments \cup {Builtins}
  PROVE  Named(RegisterAll(Nothing, doc)) /\ ResolvedRight(RegisterAll(Nothing, doc))
<1>1. Len(doc) \in Nat /\ \A i \in 1..Len(doc) : doc[i].valid => WellFormed(doc[i])
  BY ProfileFileAssumption
<1>2. Named(Stored(Nothing, doc))
  BY <1>1, NothingNamed, StoredNamed
<1>3. Named(RegisterAll(Nothing, doc))
  BY <1>2, RegisteredNamed
<1>4. \A p : WellResolved(RegisterAll(Nothing, doc), p) => ~Rejected(RegisterAll(Nothing, doc), p)
  BY DEF WellResolved
<1> QED
  BY <1>3, <1>4, ClearedFits DEF ResolvedRight

\* At the start the built-in profiles are resolved before the file is read.
LEMMA StartRight ==
  ASSUME NEW doc \in ProfileDocuments
  PROVE  LET start == RegisterAll(RegisterAll(Nothing, Builtins), doc)
         IN Named(start) /\ ResolvedRight(start)
<1> DEFINE first == RegisterAll(Nothing, Builtins)
           all == Stored(first, doc)
           start == RegisterAll(first, doc)
           IsBuiltin(p) == \E i \in DOMAIN Builtins : Builtins[i] = start[p].def
<1>1. Named(first) /\ Proper(first)
  <2>1. Builtins \in ProfileDocuments \cup {Builtins}
    OBVIOUS
  <2> QED
    BY <2>1, ClearedRight DEF Named
<1>2. /\ Len(doc) \in Nat /\ \A i \in 1..Len(doc) : doc[i].valid => WellFormed(doc[i])
      /\ Len(Builtins) \in Nat /\ DOMAIN Builtins = 1..Len(Builtins)
      /\ \A i \in 1..Len(Builtins) : Builtins[i].valid => WellFormed(Builtins[i])
  BY ProfileFileAssumption
<1>3. /\ Named(Stored(Nothing, Builtins))
      /\ \A p \in DOMAIN Stored(Nothing, Builtins) :
           \E i \in 1..Len(Builtins) : Stored(Nothing, Builtins)[p].def = Builtins[i]
  BY <1>2, NothingNamed, StoredNamed
<1>4. /\ DOMAIN first = DOMAIN Stored(Nothing, Builtins)
      /\ \A p \in DOMAIN first : first[p].def = Stored(Nothing, Builtins)[p].def
  BY <1>3, RegisteredNamed
<1>5. \A p \in DOMAIN first : \E i \in DOMAIN Builtins : Builtins[i] = first[p].def
  BY <1>2, <1>3, <1>4
<1>6. \A i \in DOMAIN Builtins : /\ Builtins[i].id \in DOMAIN first
                                 /\ first[Builtins[i].id].def = Builtins[i]
  BY <1>2, <1>4, BuiltinsStored
<1>7. /\ Named(all) /\ DOMAIN first \subseteq DOMAIN all
      /\ \A p \in DOMAIN all : \/ p \in DOMAIN first /\ all[p] = first[p]
                               \/ all[p].resolved = None
  <2> HIDE DEF first
  <2> QED
    BY <1>1, <1>2, StoredNamed
<1>8. /\ Named(start) /\ DOMAIN start = DOMAIN all
      /\ \A p \in DOMAIN all : start[p].def = all[p].def
  <2> HIDE DEF first
  <2> QED
    BY <1>7, RegisteredNamed
<1>9. ASSUME NEW p \in DOMAIN start, WellResolved(start, p), NEW d
      PROVE  Fits(start[p].resolved, d, Given(start, d)[p])
  <2>1. /\ ~Rejected(start, p)
        /\ \A q \in Walk(start)[p].met :
             IsBuiltin(q) => \A r \in Walk(start)[q].met : IsBuiltin(r)
    BY <1>9 DEF WellResolved
  <2> HIDE DEF first, all, start, IsBuiltin
  <2>2. Proper(start) /\ IsFiniteSet(DOMAIN first) /\ IsFiniteSet(DOMAIN all)
    BY <1>1, <1>7, <1>8 DEF Named, Proper
  <2>3. Walk(start)[p].met \subseteq DOMAIN start
    BY <2>2, MetAreKnown
  <2>4. \A q \in Walk(start)[p].met :
          ~Rejected(start, q) /\ Walk(start)[q].met \subseteq Walk(start)[p].met
    BY <2>1, <2>2, <2>3, Ancestors
  <2>5. ASSUME NEW q \in Walk(start)[p].met, all[q].resolved # None
        PROVE  Fits(all[q].resolved, d, Given(all, d)[q])
    <3>1. q \in DOMAIN first /\ all[q] = first[q] /\ q \in DOMAIN start /\ start[q].def = first[q].def
      BY <1>7, <1>8, <2>3, <2>5
    <3>2. IsBuiltin(q)
      BY <1>5, <3>1 DEF IsBuiltin
    <3>3. ASSUME NEW r \in Walk(start)[q].met
          PROVE  r \in DOMAIN first /\ first[r].def = start[r].def
      <4>1. r \in DOMAIN start /\ start[r].def.id = r
        BY <1>8, <2>3, <2>4 DEF Named
      <4>2. PICK i \in DOMAIN Builtins : Builtins[i] = start[r].def
        BY <2>1, <3>2 DEF IsBuiltin
      <4> QED
        BY <1>6, <4>1, <4>2
    <3>4. Walk(start)[q].met \subseteq DOMAIN start /\ ~Rejected(start, q)
      BY <2>3, <2>4
    <3>5. Alike(start, first, Walk(start)[q].met)
      BY <1>7, <1>8, <3>3, <3>4 DEF Alike
    <3>6. Walk(first)[q] = Walk(start)[q] /\ Given(first, d)[q] = Given(start, d)[q]
      BY <2>2, <3>1, <3>4, <3>5, SameGiven
    <3>7. Alike(start, all, Walk(start)[q].met)
      BY <1>8, <3>4 DEF Alike
    <3>8. Given(all, d)[q] = Given(start, d)[q]
      BY <2>2, <3>1, <3>4, <3>7, SameGiven
    <3>9. ~Rejected(first, q)
      BY <3>4, <3>6 DEF Rejected
    <3>10. Fits(first[q].resolved, d, Given(first, d)[q])
      <4>1. Builtins \in ProfileDocuments \cup {Builtins}
        OBVIOUS
      <4> QED
        BY <3>1, <3>9, <4>1, ClearedFits DEF first
    <3> QED
      BY <3>1, <3>6, <3>8, <3>10
  <2> QED
    BY <1>7, <1>9, <2>1, <2>5, RegisteredFits DEF all, start
<1> QED
  BY <1>8, <1>9 DEF ResolvedRight

\* A profile a plugin registers is not resolved, and disturbs only those that inherit
\* from it.
LEMMA RegisterRight ==
  ASSUME NEW reg, Named(reg), ResolvedRight(reg), NEW def, def.valid => WellFormed(def)
  PROVE  Named(Register(reg, def)) /\ ResolvedRight(Register(reg, def))
<1> DEFINE new == Register(reg, def)
           Fixed(r, p) == \E i \in DOMAIN Builtins : Builtins[i] = r[p].def
<1>1. /\ Named(new) /\ DOMAIN reg \subseteq DOMAIN new
      /\ \A p \in DOMAIN new : \/ p \in DOMAIN reg /\ new[p] = reg[p]
                               \/ new[p].resolved = None
  BY RegisterNamed
<1> HIDE DEF new
<1>2. Proper(new) /\ Proper(reg) /\ IsFiniteSet(DOMAIN reg)
  BY <1>1 DEF Named, Proper
<1>3. ASSUME NEW p \in DOMAIN new, WellResolved(new, p), NEW d \in Domains
      PROVE  Fits(new[p].resolved, d, Given(new, d)[p])
  <2>1. /\ ~Rejected(new, p)
        /\ \A q \in Walk(new)[p].met :
             /\ new[q].resolved # None
             /\ Fixed(new, q) => \A r \in Walk(new)[q].met : Fixed(new, r)
    BY <1>3 DEF WellResolved
  <2> HIDE DEF Fixed
  <2>2. Walk(new)[p].met \subseteq DOMAIN new
    BY <1>2, MetAreKnown
  <2>3. \A q \in Walk(new)[p].met : q \in DOMAIN reg /\ new[q] = reg[q]
    BY <1>1, <2>1, <2>2
  <2>4. \A q \in Walk(new)[p].met :
          ~Rejected(new, q) /\ Walk(new)[q].met \subseteq Walk(new)[p].met
    BY <1>2, <2>1, <2>2, Ancestors
  <2>5. ASSUME NEW q \in Walk(new)[p].met
        PROVE  Alike(new, reg, Walk(new)[q].met)
    BY <1>1, <2>2, <2>3, <2>4 DEF Alike
  <2>6. \A q \in Walk(new)[p].met :
          Walk(reg)[q] = Walk(new)[q] /\ Given(reg, d)[q] = Given(new, d)[q]
    BY <1>2, <2>2, <2>4, <2>5, SameGiven
  <2>7. Alike(new, reg, Walk(new)[p].met)
    BY <1>1, <2>2, <2>3 DEF Alike
  <2>8. p \in Walk(new)[p].met
    BY <1>2, <2>1, <2>7, SameGiven
  <2>9. WellResolved(reg, p)
    <3>1. Walk(reg)[p] = Walk(new)[p] /\ ~Rejected(reg, p)
      BY <2>1, <2>6, <2>8 DEF Rejected
    <3>2. \A q \in Walk(new)[p].met : Fixed(reg, q) <=> Fixed(new, q)
      BY <2>3 DEF Fixed
    <3>3. ASSUME NEW q \in Walk(reg)[p].met
          PROVE  /\ reg[q].resolved # None
                 /\ Fixed(reg, q) => \A r \in Walk(reg)[q].met : Fixed(reg, r)
      BY <2>1, <2>3, <2>4, <2>6, <3>1, <3>2
    <3> QED
      BY <3>1, <3>3 DEF WellResolved, Fixed
  <2>10. Fits(reg[p].resolved, d, Given(reg, d)[p])
    BY <2>3, <2>8, <2>9 DEF ResolvedRight
  <2> QED
    BY <2>3, <2>6, <2>8, <2>10
<1>4. ResolvedRight(new)
  BY <1>3 DEF ResolvedRight
<1> QED
  BY <1>1, <1>4 DEF new

(* ---------------------- 6. the calls and the steps ---------------------- *)

\* Among ranked places one beats all: of the highest rank the first.
LEMMA OneBeatsAll ==
  ASSUME NEW n \in Nat, NEW T \in SUBSET (1..n), T # {}, NEW rank, \A i \in T : rank[i] \in Nat
  PROVE  \E i \in T : \A j \in T : rank[i] > rank[j] \/ (rank[i] = rank[j] /\ i <= j)
<1> DEFINE Beats(i, j) == rank[i] > rank[j] \/ (rank[i] = rank[j] /\ i <= j)
           Upto(k) == T \cap (1..k)
           Best(k) == \E i \in Upto(k) : \A j \in Upto(k) : Beats(i, j)
           R == {k \in Nat : Upto(k) # {} => Best(k)}
<1>1. 0 \in R
  OBVIOUS
<1>2. ASSUME NEW k \in Nat, Upto(k) # {} => Best(k), Upto(k + 1) # {}
      PROVE  Best(k + 1)
  <2>1. \A i \in T : i \in Nat /\ i >= 1 /\ rank[i] \in Nat
    OBVIOUS
  <2>2. CASE k + 1 \notin T
    <3>1. Upto(k + 1) = Upto(k)
      BY <2>1, <2>2
    <3> HIDE DEF Upto, Beats
    <3> QED
      BY <1>2, <3>1
  <2>3. CASE k + 1 \in T
    <3>1. Upto(k + 1) = Upto(k) \cup {k + 1} /\ \A j \in Upto(k) : j <= k + 1 /\ j \in T
      BY <2>1, <2>3
    <3>2. Beats(k + 1, k + 1)
      BY <2>1, <2>3
    <3> DEFINE last == k + 1
    <3>3. CASE Upto(k) = {}
      <4> HIDE DEF Upto, Beats
      <4> QED
        BY <3>1, <3>2, <3>3
    <3>4. CASE Upto(k) # {}
      <4>1. PICK i \in Upto(k) : \A j \in Upto(k) : Beats(i, j)
        BY <1>2, <3>4
      <4>2. CASE rank[last] > rank[i]
        <5>1. \A j \in Upto(k) : Beats(last, j)
          BY <2>1, <2>3, <3>1, <4>1, <4>2
        <5> HIDE DEF Upto, Beats
        <5> QED
          BY <3>1, <3>2, <5>1
      <4>3. CASE ~(rank[last] > rank[i])
        <5>1. Beats(i, last)
          BY <2>1, <2>3, <3>1, <4>1, <4>3
        <5> HIDE DEF Upto, Beats
        <5> QED
          BY <3>1, <4>1, <5>1
      <4> QED
        BY <4>2, <4>3
    <3> QED
      BY <3>3, <3>4
  <2> QED
    BY <2>2, <2>3
<1>3. n \in R
  <2>1. \A k \in Nat : k \in R => k + 1 \in R
    <3> HIDE DEF Upto, Best
    <3> QED
      BY <1>2
  <2> HIDE DEF R
  <2> QED
    BY <1>1, <2>1, Induct
<1>4. Upto(n) = T
  OBVIOUS
<1> HIDE DEF Upto
<1> QED
  BY <1>3, <1>4

\* The calls are a list, and have their profile's priority, or none.
CallList(c) == IsList(c) /\ \A i \in DOMAIN c : c[i].priority \in Nat \cup {None}

\* A call is added.
LEMMA LongerCalls ==
  ASSUME NEW c, CallList(c), NEW call, call.priority \in Nat \cup {None}
  PROVE  CallList(Append(c, call))
<1> DEFINE n == Len(c)
           longer == Append(c, call)
<1>1. n \in Nat /\ DOMAIN c = 1..n
  BY ListFacts DEF CallList
<1>2. /\ IsList(longer) /\ Len(longer) = n + 1
      /\ \A i \in 1..n : longer[i] = c[i]
      /\ longer[n + 1] = call
  BY LongerList DEF CallList
<1> HIDE DEF longer
<1>3. DOMAIN longer = 1..(n + 1)
  BY <1>1, <1>2, ListFacts
<1>4. ASSUME NEW i \in DOMAIN longer PROVE longer[i].priority \in Nat \cup {None}
  <2>1. CASE i = n + 1
    BY <1>2, <2>1
  <2>2. CASE i # n + 1
    <3>1. i \in 1..n
      BY <1>1, <1>3, <2>2
    <3> QED
      BY <1>1, <1>2, <3>1 DEF CallList
  <2> QED
    BY <2>1, <2>2
<1>5. CallList(longer)
  BY <1>2, <1>4 DEF CallList
<1> QED
  BY <1>5 DEF longer

\* The calls of the others are such a list again.
LEMMA OthersAreCalls ==
  ASSUME CallList(calls), NEW src
  PROVE  CallList(OtherCalls(src))
<1> DEFINE N == Len(calls)
           others == OthersSoFar(src)
           T == {k \in Nat : k <= N => CallList(others[k])}
<1>1. N \in Nat /\ DOMAIN calls = 1..N
  BY ListFacts DEF CallList
<1>2. /\ OtherCalls(src) = others[N]
      /\ \A k \in 0..N : others[k] = IF k = 0 THEN <<>>
                                     ELSE IF calls[k].src = src THEN others[k - 1]
                                     ELSE Append(others[k - 1], calls[k])
  BY <1>1, OtherCallsRun
<1> HIDE DEF others
<1>3. 0 \in T
  <2>1. others[0] = <<>>
    BY <1>1, <1>2
  <2> QED
    BY <2>1, EmptyList DEF CallList
<1>4. \A k \in Nat : k \in T => k + 1 \in T
  <2> SUFFICES ASSUME NEW k \in Nat, k + 1 <= N, CallList(others[k])
               PROVE  CallList(others[k + 1])
    BY <1>1
  <2> DEFINE m == k + 1
             before == others[k]
             call == calls[m]
  <2>1. m \in 0..N /\ m # 0 /\ m - 1 = k /\ m \in DOMAIN calls
    BY <1>1
  <2>2. others[m] = IF call.src = src THEN before ELSE Append(before, call)
    BY <1>2, <2>1
  <2>3. call.priority \in Nat \cup {None}
    BY <2>1 DEF CallList
  <2>4. CallList(before)
    OBVIOUS
  <2> HIDE DEF before, call, m
  <2>5. CallList(Append(before, call))
    BY <2>3, <2>4, LongerCalls
  <2>6. CallList(others[m])
    BY <2>2, <2>4, <2>5
  <2> QED
    BY <2>6 DEF m
<1>5. N \in T
  <2> HIDE DEF T, N
  <2> QED
    BY <1>1, <1>3, <1>4, Induct
<1> QED
  BY <1>1, <1>2, <1>5

\* The strongest call is one that stands, and none that stands is stronger.
LEMMA StrongestStands ==
  ASSUME NEW reg, NEW c, CallList(c)
  PROVE  IF Standing(reg, c) = {} THEN Strongest(reg, c) = DefaultProfile
         ELSE \E i \in Standing(reg, c) :
                /\ c[i].id = Strongest(reg, c) /\ Strongest(reg, c) \in DOMAIN reg
                /\ \A j \in Standing(reg, c) : c[j].priority <= c[i].priority
<1> DEFINE T == Standing(reg, c)
           n == Len(c)
           rank == [i \in T |-> c[i].priority]
           Beats(i, j) == c[i].priority > c[j].priority \/ (c[i].priority = c[j].priority /\ i <= j)
           best == CHOOSE i \in T : \A j \in T : Beats(i, j)
<1>1. n \in Nat /\ DOMAIN c = 1..n
  BY ListFacts DEF CallList
<1>2. T \in SUBSET (1..n) /\ \A i \in T : c[i].id \in DOMAIN reg /\ c[i].priority \in Nat
  BY <1>1 DEF CallList, Standing
<1>3. Strongest(reg, c) = IF T = {} THEN DefaultProfile ELSE c[best].id
  BY Zenon DEF Strongest
<1>4. CASE T = {}
  BY <1>3, <1>4
<1>5. CASE T # {}
  <2>1. \A i \in T : rank[i] = c[i].priority
    OBVIOUS
  <2> HIDE DEF rank, T
  <2>2. \E i \in T : \A j \in T : rank[i] > rank[j] \/ (rank[i] = rank[j] /\ i <= j)
    <3>1. \A i \in T : rank[i] \in Nat
      BY <1>2, <2>1
    <3> QED
      BY <1>1, <1>2, <1>5, <3>1, OneBeatsAll
  <2>3. \E i \in T : \A j \in T : Beats(i, j)
    BY <2>1, <2>2
  <2>4. best \in T /\ \A j \in T : Beats(best, j)
    BY <2>3
  <2> HIDE DEF best
  <2>5. \A j \in T : c[j].priority <= c[best].priority
    BY <1>2, <2>4
  <2>6. c[best].id = Strongest(reg, c) /\ Strongest(reg, c) \in DOMAIN reg
    BY <1>2, <1>3, <1>5, <2>4
  <2> QED
    BY <1>5, <2>4, <2>5, <2>6 DEF T
<1> QED
  BY <1>4, <1>5

\* Of what is registered, definitions are well formed and resolved settings what
\* is given; the calls are ranked, and obeyed.
ProfileInv ==
  /\ Named(registered) /\ ResolvedRight(registered)
  /\ CallList(calls) /\ CallObeyed
  /\ profileFile \in ProfileDocuments \cup {None}

\* A profile that becomes active puts in force what it is given.
PutsInForce ==
  activeProfile' # activeProfile /\ WellResolved(registered', activeProfile') =>
    \A d \in Domains :
      Given(registered', d)[activeProfile'] \in KnownPresets[d] =>
        presets'[d] = Given(registered', d)[activeProfile']

\* A profile that is well resolved puts in force what it is given.
LEMMA ResolvedInForce ==
  ASSUME NEW reg, Named(reg), ResolvedRight(reg), NEW p \in DOMAIN reg, WellResolved(reg, p),
         NEW d \in Domains, Given(reg, d)[p] \in KnownPresets[d]
  PROVE  Applied(Settings(reg[p]))[d] = Given(reg, d)[p]
<1>1. Proper(reg) /\ IsFiniteSet(DOMAIN reg) /\ ~Rejected(reg, p)
  BY DEF Named, Proper, WellResolved
<1>2. Walk(reg)[p].met \subseteq DOMAIN reg
  BY <1>1, MetAreKnown
<1>3. Alike(reg, reg, Walk(reg)[p].met)
  BY <1>2 DEF Alike
<1>4. p \in Walk(reg)[p].met
  BY <1>1, <1>3, SameGiven
<1>5. reg[p].resolved # None
  BY <1>4 DEF WellResolved
<1>6. Settings(reg[p]) = reg[p].resolved
  BY <1>5 DEF Settings
<1>7. Given(reg, d)[p] # None
  BY ProfileFileAssumption DEF Domains
<1>8. Fits(reg[p].resolved, d, Given(reg, d)[p])
  BY DEF ResolvedRight
<1>9. d \in DOMAIN reg[p].resolved /\ reg[p].resolved[d] = Given(reg, d)[p]
  BY <1>7, <1>8 DEF Fits
<1> QED
  BY <1>6, <1>9 DEF Applied

\* _reevaluate obeys the calls, and puts a winner that is new in force.
LEMMA ReevaluateObeys ==
  ASSUME Named(registered'), ResolvedRight(registered'), CallList(calls'),
         Reevaluate(registered', calls')
  PROVE  CallObeyed' /\ PutsInForce
<1> DEFINE winner == Strongest(registered', calls')
           T == Standing(registered', calls')
<1>1. IF T = {} THEN winner = DefaultProfile
      ELSE \E i \in T : /\ calls'[i].id = winner /\ winner \in DOMAIN registered'
                        /\ \A j \in T : calls'[j].priority <= calls'[i].priority
  BY StrongestStands
<1>2. \/ winner = activeProfile /\ activeProfile' = activeProfile
      \/ winner \notin DOMAIN registered' /\ activeProfile' = activeProfile
      \/ /\ winner \in DOMAIN registered' /\ activeProfile' = winner
         /\ presets' = Applied(Settings(registered'[winner]))
  BY DEF Reevaluate
<1>3. CallObeyed'
  <2> DEFINE standing == {calls'[i] : i \in T}
  <2>1. CallObeyed' <=>
          ((pmRunning /\ ~unevaluated)' =>
             \/ \E call \in standing : /\ call.id = activeProfile'
                                       /\ \A other \in standing : other.priority <= call.priority
             \/ /\ standing = {}
                /\ activeProfile' = DefaultProfile \/ DefaultProfile \notin DOMAIN registered')
    BY DEF CallObeyed, Standing
  <2> HIDE DEF T, winner
  <2>2. CASE T = {}
    BY <1>1, <1>2, <2>1, <2>2
  <2>3. CASE T # {}
    <3>1. PICK i \in T : /\ calls'[i].id = winner /\ winner \in DOMAIN registered'
                         /\ \A j \in T : calls'[j].priority <= calls'[i].priority
      BY <1>1, <2>3
    <3>2. activeProfile' = winner
      BY <1>2, <3>1
    <3>3. calls'[i] \in standing /\ \A other \in standing : other.priority <= calls'[i].priority
      BY <3>1
    <3> HIDE DEF standing
    <3> QED
      BY <2>1, <3>1, <3>2, <3>3
  <2> QED
    BY <2>2, <2>3
<1>4. ASSUME activeProfile' # activeProfile, WellResolved(registered', activeProfile'),
             NEW d \in Domains, Given(registered', d)[activeProfile'] \in KnownPresets[d]
      PROVE  presets'[d] = Given(registered', d)[activeProfile']
  <2>1. /\ activeProfile' \in DOMAIN registered'
        /\ presets' = Applied(Settings(registered'[activeProfile']))
    BY <1>2, <1>4
  <2> QED
    BY <1>4, <2>1, ResolvedInForce
<1> QED
  BY <1>3, <1>4 DEF PutsInForce

\* So it is at the start.
LEMMA ProfileInitInv == ProfileInit => ProfileInv
<1> SUFFICES ASSUME ProfileInit PROVE ProfileInv
  OBVIOUS
<1>1. /\ profileFile \in ProfileDocuments \cup {None} /\ calls = <<>>
      /\ activeProfile = DefaultProfile
      /\ registered = IF profileFile = None THEN RegisterAll(Nothing, Builtins)
                      ELSE RegisterAll(RegisterAll(Nothing, Builtins), profileFile)
  BY DEF ProfileInit
<1>2. Named(registered) /\ ResolvedRight(registered)
  <2>1. CASE profileFile = None
    <3>1. Builtins \in ProfileDocuments \cup {Builtins}
      OBVIOUS
    <3> QED
      BY <1>1, <2>1, <3>1, ClearedRight
  <2>2. CASE profileFile # None
    BY <1>1, <2>2, StartRight
  <2> QED
    BY <2>1, <2>2
<1>3. CallList(calls) /\ Standing(registered, calls) = {}
  BY <1>1, EmptyList DEF CallList, Standing
<1>4. CallObeyed
  BY <1>1, <1>3 DEF CallObeyed
<1> QED
  BY <1>1, <1>2, <1>3, <1>4 DEF ProfileInv

\* Whatever the step, the registry is right and the calls are obeyed after it, and
\* a profile that becomes active in it is put in force.
LEMMA ProfileNextInv == ProfileInv /\ [ProfileNext]_profileVars => ProfileInv' /\ PutsInForce
<1> SUFFICES ASSUME ProfileInv, [ProfileNext]_profileVars PROVE ProfileInv' /\ PutsInForce
  OBVIOUS
<1>1. /\ Named(registered) /\ ResolvedRight(registered)
      /\ CallList(calls) /\ CallObeyed
      /\ profileFile \in ProfileDocuments \cup {None}
  BY DEF ProfileInv
<1>2. ASSUME NEW src \in DOMAIN CallsFor, NEW id \in CallsFor[src], CallProfile(src, id)
      PROVE  ProfileInv' /\ PutsInForce
  <2>1. /\ id \in DOMAIN registered /\ registered' = registered /\ profileFile' = profileFile
        /\ calls' = Append(OtherCalls(src),
                           [src |-> src, id |-> id, priority |-> registered[id].def.priority])
        /\ Reevaluate(registered, calls')
    BY <1>2 DEF CallProfile
  <2>2. registered[id].def.priority \in Nat \cup {None}
    BY <1>1, <2>1 DEF Named, Proper, WellFormed
  <2>3. CallList(calls')
    <3>1. CallList(OtherCalls(src))
      BY <1>1, OthersAreCalls
    <3> DEFINE call == [src |-> src, id |-> id, priority |-> registered[id].def.priority]
    <3>2. call.priority \in Nat \cup {None}
      BY <2>2
    <3> HIDE DEF call
    <3>3. CallList(Append(OtherCalls(src), call))
      BY <3>1, <3>2, LongerCalls
    <3> QED
      BY <2>1, <3>3 DEF call
  <2>4. Named(registered') /\ ResolvedRight(registered') /\ Reevaluate(registered', calls')
    BY <1>1, <2>1
  <2>5. CallObeyed' /\ PutsInForce
    BY <2>3, <2>4, ReevaluateObeys
  <2> QED
    BY <1>1, <2>1, <2>3, <2>4, <2>5 DEF ProfileInv
<1>3. ASSUME NEW src \in DOMAIN CallsFor, WithdrawCall(src)
      PROVE  ProfileInv' /\ PutsInForce
  <2>1. /\ registered' = registered /\ profileFile' = profileFile
        /\ calls' = OtherCalls(src) /\ Reevaluate(registered, calls')
    BY <1>3 DEF WithdrawCall
  <2>2. CallList(calls')
    BY <1>1, <2>1, OthersAreCalls
  <2>3. Named(registered') /\ ResolvedRight(registered') /\ Reevaluate(registered', calls')
    BY <1>1, <2>1
  <2>4. CallObeyed' /\ PutsInForce
    BY <2>2, <2>3, ReevaluateObeys
  <2> QED
    BY <1>1, <2>1, <2>2, <2>3, <2>4 DEF ProfileInv
<1>4. ASSUME EditProfiles PROVE ProfileInv' /\ PutsInForce
  <2>1. /\ profileFile' \in ProfileDocuments \cup {None}
        /\ UNCHANGED <<registered, calls, activeProfile, unevaluated, pmRunning>>
    BY <1>4 DEF EditProfiles
  <2>2. CallObeyed'
    BY <1>1, <2>1 DEF CallObeyed
  <2> QED
    BY <1>1, <2>1, <2>2 DEF ProfileInv, PutsInForce
<1>5. ASSUME ReloadProfiles PROVE ProfileInv' /\ PutsInForce
  <2>1. calls' = calls /\ profileFile' = profileFile
    BY <1>5 DEF ReloadProfiles
  <2>2. CASE /\ registered' = Nothing /\ activeProfile' = activeProfile
    <3>1. Named(registered') /\ DOMAIN registered' = {}
      BY <2>2, NothingNamed
    <3>2. ResolvedRight(registered')
      BY <3>1 DEF ResolvedRight
    <3>3. Standing(registered', calls') = {}
      BY <3>1 DEF Standing
    <3>4. CallObeyed'
      BY <3>1, <3>3 DEF CallObeyed
    <3> QED
      BY <1>1, <2>1, <2>2, <3>1, <3>2, <3>4 DEF ProfileInv, PutsInForce
  <2>3. CASE /\ profileFile # None /\ registered' = RegisterAll(Nothing, profileFile)
             /\ Reevaluate(registered', calls)
    <3>1. Named(registered') /\ ResolvedRight(registered')
      BY <1>1, <2>3, ClearedRight
    <3>2. CallList(calls') /\ Reevaluate(registered', calls')
      BY <1>1, <2>1, <2>3
    <3>3. CallObeyed' /\ PutsInForce
      BY <3>1, <3>2, ReevaluateObeys
    <3> QED
      BY <1>1, <2>1, <3>1, <3>2, <3>3 DEF ProfileInv
  <2> QED
    BY <1>5, <2>2, <2>3 DEF ReloadProfiles
<1>6. ASSUME PluginRegisters PROVE ProfileInv' /\ PutsInForce
  <2>1. PICK def \in PluginProfiles : registered' = Register(registered, def)
    BY <1>6 DEF PluginRegisters
  <2>2. Named(registered') /\ ResolvedRight(registered')
    BY <1>1, <2>1, RegisterRight, ProfileFileAssumption
  <2>3. /\ unevaluated' = TRUE
        /\ UNCHANGED <<calls, activeProfile, profileFile>>
    BY <1>6 DEF PluginRegisters
  <2>4. CallObeyed' /\ CallList(calls')
    BY <1>1, <2>3 DEF CallObeyed
  <2> QED
    BY <1>1, <2>2, <2>3, <2>4 DEF ProfileInv, PutsInForce
<1>7. ASSUME DestroyProfiles PROVE ProfileInv' /\ PutsInForce
  <2>1. /\ pmRunning' = FALSE /\ registered' = Nothing /\ calls' = <<>>
        /\ UNCHANGED <<activeProfile, profileFile>>
    BY <1>7 DEF DestroyProfiles
  <2>2. Named(registered') /\ ResolvedRight(registered')
    BY <2>1, NothingNamed DEF ResolvedRight
  <2>3. CallList(calls') /\ CallObeyed'
    BY <2>1, EmptyList DEF CallList, CallObeyed
  <2> QED
    BY <1>1, <2>1, <2>2, <2>3 DEF ProfileInv, PutsInForce
<1>8. ASSUME UNCHANGED profileVars PROVE ProfileInv' /\ PutsInForce
  <2>1. UNCHANGED <<registered, calls, activeProfile, profileFile, unevaluated, pmRunning>>
    BY <1>8 DEF profileVars
  <2>2. CallObeyed'
    BY <1>1, <2>1 DEF CallObeyed
  <2> QED
    BY <1>1, <2>1, <2>2 DEF ProfileInv, PutsInForce
<1> QED
  BY <1>2, <1>3, <1>4, <1>5, <1>6, <1>7, <1>8 DEF ProfileNext
=============================================================================
