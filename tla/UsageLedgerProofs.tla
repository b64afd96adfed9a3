---------------------------- MODULE UsageLedgerProofs ----------------------------
(***************************************************************************)
(* Proofs about UsageLedger, for any messages, requests, buckets, batches, *)
(* file lengths, restarts and depth of the writer's queue.                 *)
(*                                                                         *)
(* Induction over data is done with sets: NatInduct says that a set of     *)
(* naturals that has 0 and is closed under successor has all of them, and  *)
(* the set is the one of the n for which the claim holds.                  *)
(*                                                                         *)
(* Of Claude Code the inductive invariant is Ledger: one row per message,  *)
(* with class and amount of its best line, and rollups that add up to the  *)
(* rows.  A batch keeps it because the fold over its lines is upsert_one   *)
(* on the lines one after the other, and upsert_one keeps it.              *)
(*                                                                         *)
(* Of Codex it is CodexInv: the amounts of a file are stored up to one of  *)
(* its totals, the latest snapshot is that total, the lines before the     *)
(* checkpoint are below it, and each batch in the writer takes the file on *)
(* to a total that is not lower.  The amounts between two totals telescope.*)
(***************************************************************************)
EXTENDS UsageLedger, TLAPS, FiniteSetTheorems, SequenceTheorems, WellFoundedInduction

-----------------------------------------------------------------------------
(* Induction.                                                              *)

LEMMA LeastExists ==
    ASSUME NEW E \in SUBSET Nat, E # {}
    PROVE  \E i \in E : \A j \in E : i <= j
<1> DEFINE R == OpToRel(<, Nat)
<1>1. IsWellFoundedOn(R, Nat)
  BY NatLessThanWellFounded
<1>2. \A a, b \in Nat : <<a, b>> \in R <=> a < b
  BY Zenon DEF OpToRel
<1> HIDE DEF R
<1>3. PICK i \in E : \A j \in E : ~(<<j, i>> \in R)
  BY <1>1, WFMin
<1>4. ASSUME NEW j \in E PROVE i <= j
  <2>1. ~(j < i)
    BY <1>2, <1>3, Zenon
  <2>2. i \in Nat /\ j \in Nat
    OBVIOUS
  <2>3. QED
    BY <2>1, <2>2
<1>5. QED
  BY <1>4, Zenon

LEMMA NatInduct ==
    ASSUME NEW G \in SUBSET Nat, 0 \in G, \A n \in Nat : n \in G => n + 1 \in G
    PROVE  \A n \in Nat : n \in G
<1> SUFFICES ASSUME Nat \ G # {} PROVE FALSE
  OBVIOUS
<1>1. PICK i \in Nat \ G : \A j \in Nat \ G : i <= j
  BY LeastExists
<1>2. i # 0 /\ i - 1 \in Nat /\ ~(i <= i - 1)
  OBVIOUS
<1>3. i - 1 \in G
  BY <1>1, <1>2
<1>4. (i - 1) + 1 \in G
  BY <1>2, <1>3
<1> QED
  BY <1>4

-----------------------------------------------------------------------------
(* Sums over finite sets: the fold that MapThenSumSet is satisfies its      *)
(* equation, and its value does not depend on the order of the elements.   *)

Pick(s) == CHOOSE x \in s : TRUE
SumStep(f, g, s) == IF s = {} THEN 0 ELSE f[Pick(s)] + g[s \ {Pick(s)}]
SumIter(f, S) == CHOOSE g : g = [s \in SUBSET S |-> SumStep(f, g, s)]

LEMMA PickIn == ASSUME NEW s, s # {} PROVE Pick(s) \in s
  BY DEF Pick

LEMMA SumIsIter == ASSUME NEW f, NEW S PROVE SumOver(f, S) = SumIter(f, S)[S]
  BY DEF SumOver, SumIter, MapThenSumSet, MapThenFoldSet, SumStep, Pick

\* The subsets of S with at most n elements.
Small(S, n) == {s \in SUBSET S : IsFiniteSet(s) /\ Cardinality(s) <= n}

LEMMA SmallRest ==
    ASSUME NEW S, NEW n \in Nat, NEW s \in Small(S, n + 1), s # {}
    PROVE  s \ {Pick(s)} \in Small(S, n)
<1>1. Pick(s) \in s
  BY PickIn
<1>2. IsFiniteSet(s) /\ Cardinality(s) <= n + 1 /\ Cardinality(s) \in Nat
  BY FS_CardinalityType DEF Small
<1>3. IsFiniteSet(s \ {Pick(s)}) /\ Cardinality(s \ {Pick(s)}) = Cardinality(s) - 1
  BY <1>1, <1>2, FS_RemoveElement
<1> QED
  BY <1>2, <1>3 DEF Small

LEMMA SumIterAt ==
    ASSUME NEW f, NEW S, IsFiniteSet(S), NEW T \in SUBSET S
    PROVE  SumIter(f, S)[T] = SumStep(f, SumIter(f, S), T)
<1> DEFINE G == {n \in Nat : \E g : g = [s \in Small(S, n) |-> SumStep(f, g, s)]}
<1>1. 0 \in G
  <2> DEFINE g == [s \in Small(S, 0) |-> 0]
  <2>1. ASSUME NEW s \in Small(S, 0) PROVE s = {}
    BY FS_CardinalityType, FS_EmptySet DEF Small
  <2>2. g = [s \in Small(S, 0) |-> SumStep(f, g, s)]
    BY <2>1, Zenon DEF SumStep
  <2> QED
    BY <2>2
<1>2. ASSUME NEW n \in Nat, n \in G PROVE n + 1 \in G
  <2>1. PICK g : g = [s \in Small(S, n) |-> SumStep(f, g, s)]
    BY <1>2
  <2> DEFINE h == [s \in Small(S, n + 1) |-> SumStep(f, g, s)]
  <2>2. Small(S, n) \subseteq Small(S, n + 1)
    BY FS_CardinalityType DEF Small
  <2>3. ASSUME NEW s \in Small(S, n) PROVE h[s] = g[s]
    <3>1. g[s] = SumStep(f, g, s)
      BY <2>1
    <3>2. h[s] = SumStep(f, g, s)
      BY <2>2
    <3> QED
      BY <3>1, <3>2
  <2> HIDE DEF h
  <2>4. ASSUME NEW s \in Small(S, n + 1) PROVE SumStep(f, g, s) = SumStep(f, h, s)
    <3>1. s # {} => h[s \ {Pick(s)}] = g[s \ {Pick(s)}]
      BY <2>3, SmallRest
    <3> QED
      BY <3>1 DEF SumStep
  <2>5. h = [s \in Small(S, n + 1) |-> SumStep(f, h, s)]
    BY <2>4, Zenon DEF h
  <2> QED
    BY <2>5
<1>3. \A n \in Nat : n \in G
  <2> HIDE DEF G
  <2>1. G \in SUBSET Nat
    BY DEF G
  <2> QED
    BY <1>1, <1>2, <2>1, NatInduct
<1>4. Cardinality(S) \in Nat
  BY FS_CardinalityType
<1>5. Small(S, Cardinality(S)) = SUBSET S
  BY FS_Subset DEF Small
<1>6. \E g : g = [s \in SUBSET S |-> SumStep(f, g, s)]
  BY <1>3, <1>4, <1>5
<1> DEFINE it == SumIter(f, S)
<1>7. it = [s \in SUBSET S |-> SumStep(f, it, s)]
  BY <1>6 DEF SumIter
<1> HIDE DEF it
<1>8. it[T] = SumStep(f, it, T)
  BY <1>7
<1> QED
  BY <1>8 DEF it

\* Inside the sum over S, a subset of S has its own sum.
LEMMA SumIterSubset ==
    ASSUME NEW f, NEW S, IsFiniteSet(S), NEW T \in SUBSET S
    PROVE  SumIter(f, S)[T] = SumOver(f, T)
<1> DEFINE Agree(A, U) == SumIter(f, A)[U] = SumIter(f, U)[U]
           G == {n \in Nat : \A A \in SUBSET S : \A U \in SUBSET A : U \in Small(S, n) => Agree(A, U)}
<1>1. ASSUME NEW A \in SUBSET S, NEW U \in SUBSET A
      PROVE  SumIter(f, A)[U] = SumStep(f, SumIter(f, A), U)
  BY FS_Subset, SumIterAt
<1>2. 0 \in G
  <2> SUFFICES ASSUME NEW A \in SUBSET S, NEW U \in SUBSET A, U \in Small(S, 0) PROVE Agree(A, U)
    OBVIOUS
  <2>1. U = {} /\ U \in SUBSET U /\ U \in SUBSET S
    BY FS_CardinalityType, FS_EmptySet DEF Small
  <2>2. SumIter(f, A)[U] = 0 /\ SumIter(f, U)[U] = 0
    BY <1>1, <2>1 DEF SumStep
  <2> QED
    BY <2>2
<1>3. ASSUME NEW n \in Nat, n \in G PROVE n + 1 \in G
  <2> SUFFICES ASSUME NEW A \in SUBSET S, NEW U \in SUBSET A, U \in Small(S, n + 1) PROVE Agree(A, U)
    OBVIOUS
  <2>1. U \in SUBSET U /\ U \in SUBSET S
    OBVIOUS
  <2>2. SumIter(f, A)[U] = SumStep(f, SumIter(f, A), U) /\ SumIter(f, U)[U] = SumStep(f, SumIter(f, U), U)
    BY <1>1, <2>1
  <2>3. CASE U = {}
    BY <2>2, <2>3 DEF SumStep
  <2>4. CASE U # {}
    <3> DEFINE V == U \ {Pick(U)}
    <3>1. V \in Small(S, n) /\ V \in SUBSET U /\ V \in SUBSET A
      BY <2>1, <2>4, SmallRest
    <3>2. Agree(A, V) /\ Agree(U, V)
      BY <1>3, <2>1, <3>1
    <3> QED
      BY <2>2, <2>4, <3>2 DEF SumStep
  <2> QED
    BY <2>3, <2>4
<1>4. \A n \in Nat : n \in G
  <2>1. G \in SUBSET Nat
    OBVIOUS
  <2> HIDE DEF G
  <2> QED
    BY <1>2, <1>3, <2>1, NatInduct
<1>5. IsFiniteSet(T) /\ Cardinality(T) \in Nat /\ T \in Small(S, Cardinality(T))
  BY FS_Subset, FS_CardinalityType DEF Small
<1>6. Agree(S, T)
  <2>1. S \in SUBSET S
    OBVIOUS
  <2> QED
    BY <1>4, <1>5, <2>1
<1> QED
  BY <1>6, SumIsIter

LEMMA SumEmpty == ASSUME NEW f PROVE SumOver(f, {}) = 0
<1>1. SumIter(f, {})[{}] = SumStep(f, SumIter(f, {}), {})
  BY FS_EmptySet, SumIterAt
<1> QED
  BY <1>1, SumIsIter DEF SumStep

LEMMA SumPick ==
    ASSUME NEW f, NEW S, IsFiniteSet(S), S # {}
    PROVE  SumOver(f, S) = f[Pick(S)] + SumOver(f, S \ {Pick(S)})
<1>1. SumIter(f, S)[S] = SumStep(f, SumIter(f, S), S)
  BY SumIterAt
<1>2. SumIter(f, S)[S \ {Pick(S)}] = SumOver(f, S \ {Pick(S)})
  BY SumIterSubset
<1> QED
  BY <1>1, <1>2, SumIsIter DEF SumStep

\* f has integer values on S.
IntOn(f, S) == \A x \in S : f[x] \in Int

LEMMA SumType ==
    ASSUME NEW f, NEW S, IsFiniteSet(S), IntOn(f, S)
    PROVE  SumOver(f, S) \in Int
<1> DEFINE G == {n \in Nat : \A T \in Small(S, n) : SumOver(f, T) \in Int}
<1>1. 0 \in G
  <2>1. ASSUME NEW T \in Small(S, 0) PROVE T = {}
    BY FS_CardinalityType, FS_EmptySet DEF Small
  <2> QED
    BY <2>1, SumEmpty
<1>2. ASSUME NEW n \in Nat, n \in G PROVE n + 1 \in G
  <2> SUFFICES ASSUME NEW T \in Small(S, n + 1) PROVE SumOver(f, T) \in Int
    OBVIOUS
  <2>1. CASE T = {}
    BY <2>1, SumEmpty
  <2>2. CASE T # {}
    <3>1. SumOver(f, T \ {Pick(T)}) \in Int
      BY <1>2, <2>2, SmallRest
    <3>2. f[Pick(T)] \in Int /\ IsFiniteSet(T)
      BY <2>2, PickIn DEF Small, IntOn
    <3> QED
      BY <2>2, <3>1, <3>2, SumPick
  <2> QED
    BY <2>1, <2>2
<1>3. \A n \in Nat : n \in G
  <2>1. G \in SUBSET Nat
    OBVIOUS
  <2> HIDE DEF G
  <2> QED
    BY <1>1, <1>2, <2>1, NatInduct
<1>4. Cardinality(S) \in Nat /\ S \in Small(S, Cardinality(S))
  BY FS_CardinalityType DEF Small
<1> QED
  BY <1>3, <1>4

\* Any element can be taken out first.
LEMMA SumRemove ==
    ASSUME NEW f, NEW S, IsFiniteSet(S), IntOn(f, S), NEW y \in S
    PROVE  SumOver(f, S) = f[y] + SumOver(f, S \ {y})
<1> DEFINE G == {n \in Nat : \A T \in Small(S, n) : \A z \in T : SumOver(f, T) = f[z] + SumOver(f, T \ {z})}
<1>0. ASSUME NEW T \in SUBSET S PROVE IsFiniteSet(T) /\ IntOn(f, T) /\ SumOver(f, T) \in Int
  BY FS_Subset, SumType DEF IntOn
<1>1. 0 \in G
  <2>1. ASSUME NEW T \in Small(S, 0) PROVE T = {}
    BY FS_CardinalityType, FS_EmptySet DEF Small
  <2> QED
    BY <2>1
<1>2. ASSUME NEW n \in Nat, n \in G PROVE n + 1 \in G
  <2> SUFFICES ASSUME NEW T \in Small(S, n + 1), NEW z \in T PROVE SumOver(f, T) = f[z] + SumOver(f, T \ {z})
    OBVIOUS
  <2> DEFINE x == Pick(T)
  <2>1. x \in T /\ T # {} /\ T \in SUBSET S
    BY PickIn DEF Small
  <2>2. SumOver(f, T) = f[x] + SumOver(f, T \ {x})
    BY <1>0, <2>1, SumPick
  <2> HIDE DEF x
  <2>3. CASE z = x
    BY <2>2, <2>3
  <2>4. CASE z # x
    <3>1. T \ {x} \in Small(S, n)
      BY <2>1, SmallRest DEF x
    <3>2. T \ {z} \in Small(S, n)
      <4>1. IsFiniteSet(T) /\ Cardinality(T) <= n + 1 /\ Cardinality(T) \in Nat
        BY FS_CardinalityType DEF Small
      <4>2. IsFiniteSet(T \ {z}) /\ Cardinality(T \ {z}) = Cardinality(T) - 1
        BY <4>1, FS_RemoveElement
      <4> QED
        BY <2>1, <4>1, <4>2 DEF Small
    <3>3. SumOver(f, T \ {x}) = f[z] + SumOver(f, (T \ {x}) \ {z})
      BY <1>2, <2>4, <3>1
    <3>4. SumOver(f, T \ {z}) = f[x] + SumOver(f, (T \ {z}) \ {x})
      BY <1>2, <2>1, <2>4, <3>2
    <3>5. (T \ {x}) \ {z} = (T \ {z}) \ {x} /\ (T \ {x}) \ {z} \in SUBSET S
      BY <2>1
    <3>6. f[x] \in Int /\ f[z] \in Int /\ SumOver(f, (T \ {x}) \ {z}) \in Int
      BY <1>0, <2>1, <3>5 DEF IntOn
    <3>7. SumOver(f, (T \ {z}) \ {x}) = SumOver(f, (T \ {x}) \ {z})
      BY <3>5
    <3> QED
      BY <2>2, <3>3, <3>4, <3>6, <3>7
  <2> QED
    BY <2>3, <2>4
<1>3. \A n \in Nat : n \in G
  <2>1. G \in SUBSET Nat
    OBVIOUS
  <2> HIDE DEF G
  <2> QED
    BY <1>1, <1>2, <2>1, NatInduct
<1>4. Cardinality(S) \in Nat /\ S \in Small(S, Cardinality(S))
  BY FS_CardinalityType DEF Small
<1> QED
  BY <1>3, <1>4

LEMMA SumAdd ==
    ASSUME NEW f, NEW S, IsFiniteSet(S), NEW y, y \notin S, IntOn(f, S \cup {y})
    PROVE  SumOver(f, S \cup {y}) = f[y] + SumOver(f, S)
<1>1. IsFiniteSet(S \cup {y}) /\ (S \cup {y}) \ {y} = S /\ y \in S \cup {y}
  BY FS_AddElement
<1> QED
  BY <1>1, SumRemove

\* The sum depends on the values on S only.
LEMMA SumSame ==
    ASSUME NEW f, NEW g, NEW S, IsFiniteSet(S), IntOn(f, S), \A x \in S : f[x] = g[x]
    PROVE  SumOver(f, S) = SumOver(g, S)
<1> DEFINE G == {n \in Nat : \A T \in Small(S, n) : SumOver(f, T) = SumOver(g, T)}
<1>1. 0 \in G
  <2>1. ASSUME NEW T \in Small(S, 0) PROVE T = {}
    BY FS_CardinalityType, FS_EmptySet DEF Small
  <2> QED
    BY <2>1, SumEmpty
<1>2. ASSUME NEW n \in Nat, n \in G PROVE n + 1 \in G
  <2> SUFFICES ASSUME NEW T \in Small(S, n + 1) PROVE SumOver(f, T) = SumOver(g, T)
    OBVIOUS
  <2>1. CASE T = {}
    BY <2>1, SumEmpty
  <2>2. CASE T # {}
    <3>1. SumOver(f, T \ {Pick(T)}) = SumOver(g, T \ {Pick(T)})
      BY <1>2, <2>2, SmallRest
    <3>2. f[Pick(T)] = g[Pick(T)] /\ IsFiniteSet(T)
      BY <2>2, PickIn DEF Small
    <3> QED
      BY <2>2, <3>1, <3>2, SumPick
  <2> QED
    BY <2>1, <2>2
<1>3. \A n \in Nat : n \in G
  <2>1. G \in SUBSET Nat
    OBVIOUS
  <2> HIDE DEF G
  <2> QED
    BY <1>1, <1>2, <2>1, NatInduct
<1>4. Cardinality(S) \in Nat /\ S \in Small(S, Cardinality(S))
  BY FS_CardinalityType DEF Small
<1> QED
  BY <1>3, <1>4

\* One value changes.
LEMMA SumExcept ==
    ASSUME NEW f, NEW S, IsFiniteSet(S), f \in [S -> Int], NEW x \in S, NEW v \in Int
    PROVE  SumOver([f EXCEPT ![x] = v], S) = SumOver(f, S) + (v - f[x])
<1> DEFINE g == [f EXCEPT ![x] = v]
<1>1. g \in [S -> Int] /\ g[x] = v /\ (\A y \in S \ {x} : f[y] = g[y])
  OBVIOUS
<1>2. IsFiniteSet(S \ {x}) /\ IntOn(f, S \ {x}) /\ IntOn(f, S)
  BY FS_Subset DEF IntOn
<1> HIDE DEF g
<1>3. IntOn(g, S)
  BY <1>1 DEF IntOn
<1>4. SumOver(f, S) = f[x] + SumOver(f, S \ {x}) /\ SumOver(g, S) = g[x] + SumOver(g, S \ {x})
  BY <1>2, <1>3, SumRemove
<1>5. SumOver(f, S \ {x}) = SumOver(g, S \ {x})
  BY <1>1, <1>2, SumSame
<1>6. SumOver(f, S \ {x}) \in Int /\ f[x] \in Int
  BY <1>2, SumType
<1>7. SumOver(g, S) = SumOver(f, S) + (v - f[x])
  BY <1>1, <1>4, <1>5, <1>6
<1> QED
  BY <1>7 DEF g

\* Elements of value zero do not count.
LEMMA SumZeros ==
    ASSUME NEW f, NEW S, IsFiniteSet(S), IntOn(f, S), NEW Z \in SUBSET S, \A x \in Z : f[x] = 0
    PROVE  SumOver(f, S) = SumOver(f, S \ Z)
<1> DEFINE G == {n \in Nat : \A T \in Small(Z, n) : SumOver(f, S) = SumOver(f, S \ T)}
<1>1. 0 \in G
  <2>1. ASSUME NEW T \in Small(Z, 0) PROVE S \ T = S
    BY FS_CardinalityType, FS_EmptySet DEF Small
  <2> QED
    BY <2>1
<1>2. ASSUME NEW n \in Nat, n \in G PROVE n + 1 \in G
  <2> SUFFICES ASSUME NEW T \in Small(Z, n + 1) PROVE SumOver(f, S) = SumOver(f, S \ T)
    OBVIOUS
  <2>1. CASE T = {}
    <3>1. S \ T = S
      BY <2>1
    <3> QED
      BY <3>1
  <2>2. CASE T # {}
    <3> DEFINE x == Pick(T)
               U == T \ {x}
    <3>1. U \in Small(Z, n) /\ x \in T /\ x \in Z
      BY <2>2, PickIn, SmallRest DEF Small
    <3>2. SumOver(f, S) = SumOver(f, S \ U)
      BY <1>2, <3>1
    <3>3. IsFiniteSet(S \ U) /\ IntOn(f, S \ U) /\ x \in S \ U /\ (S \ U) \ {x} = S \ T /\ S \ T \subseteq S
      BY <3>1, FS_Subset DEF IntOn
    <3>4. SumOver(f, S \ U) = f[x] + SumOver(f, (S \ U) \ {x})
      BY <3>3, SumRemove
    <3>5. SumOver(f, S \ T) \in Int
      BY <3>3, FS_Subset, SumType DEF IntOn
    <3>6. SumOver(f, (S \ U) \ {x}) = SumOver(f, S \ T) /\ f[x] = 0
      BY <3>1, <3>3
    <3> QED
      BY <3>2, <3>4, <3>5, <3>6
  <2> QED
    BY <2>1, <2>2
<1>3. \A n \in Nat : n \in G
  <2>1. G \in SUBSET Nat
    OBVIOUS
  <2> HIDE DEF G
  <2> QED
    BY <1>1, <1>2, <2>1, NatInduct
<1>4. IsFiniteSet(Z) /\ Cardinality(Z) \in Nat /\ Z \in Small(Z, Cardinality(Z))
  BY FS_Subset, FS_CardinalityType DEF Small
<1> QED
  BY <1>3, <1>4

\* One element replaces another.
LEMMA SumReplace ==
    ASSUME NEW f, NEW S, IsFiniteSet(S), NEW x \in S, NEW y, y \notin S \ {x},
           IntOn(f, S \cup {y})
    PROVE  /\ IsFiniteSet((S \ {x}) \cup {y})
           /\ SumOver(f, (S \ {x}) \cup {y}) = SumOver(f, S) + (f[y] - f[x])
<1>1. IsFiniteSet(S \ {x}) /\ IntOn(f, S) /\ IntOn(f, S \ {x}) /\ IntOn(f, (S \ {x}) \cup {y})
  BY FS_Subset DEF IntOn
<1>2. SumOver(f, S) = f[x] + SumOver(f, S \ {x})
  BY <1>1, SumRemove
<1>3. SumOver(f, (S \ {x}) \cup {y}) = f[y] + SumOver(f, S \ {x})
  BY <1>1, SumAdd
<1>4. SumOver(f, S \ {x}) \in Int /\ f[x] \in Int /\ f[y] \in Int
  BY <1>1, SumType DEF IntOn
<1> QED
  BY <1>1, <1>2, <1>3, <1>4, FS_AddElement

-----------------------------------------------------------------------------
(* The greatest of two numbers, and of a set that has a greatest one.       *)

LEMMA MaxOf ==
    ASSUME NEW S \in SUBSET Int, NEW x \in S, \A y \in S : y <= x
    PROVE  Max(S) = x
<1>1. x \in S /\ \A y \in S : x >= y
  OBVIOUS
<1>2. Max(S) \in S /\ \A y \in S : Max(S) >= y
  BY <1>1 DEF Max
<1>3. Max(S) >= x /\ x >= Max(S) /\ Max(S) \in Int /\ x \in Int
  BY <1>1, <1>2
<1> QED
  BY <1>3

LEMMA MaxTwo ==
    ASSUME NEW a \in Int, NEW b \in Int
    PROVE  Max({a, b}) = IF a <= b THEN b ELSE a
<1>1. CASE a <= b
  BY <1>1, MaxOf
<1>2. CASE ~(a <= b)
  BY <1>2, MaxOf
<1> QED
  BY <1>1, <1>2

LEMMA MaxInterval == ASSUME NEW n \in Nat PROVE Max(1..n+1) = n + 1
  BY MaxOf

-----------------------------------------------------------------------------
(* A batch of Claude lines: the fold takes the lines one after the other.   *)

Start == [rows |-> rows, roll |-> roll, count |-> count]
FoldStep(st, b, g, s) == IF s = {} THEN st ELSE upsert_one(g[s \ {Max(s)}], b[Max(s)])
FoldIter(st, b) == CHOOSE g : g = [s \in SUBSET DOMAIN b |-> FoldStep(st, b, g, s)]

LEMMA FoldIsIter ==
    ASSUME NEW batch
    PROVE  upsert_usage_events_dedup_aware(batch) = FoldIter(Start, batch)[DOMAIN batch]
  BY DEF upsert_usage_events_dedup_aware, FoldLeft, MapThenFoldSet, FoldStep, FoldIter, Start

LEMMA MaxIn ==
    ASSUME NEW n \in Nat, NEW S \in SUBSET (1..n), S # {}
    PROVE  Max(S) \in S
<1> DEFINE E == {k \in Nat : n - k \in S}
<1>1. PICK y : y \in S
  OBVIOUS
<1>2. n - y \in E
  BY <1>1
<1>3. PICK d \in E : \A j \in E : d <= j
  BY <1>2, LeastExists
<1>4. n - d \in S /\ S \in SUBSET Int
  BY <1>3
<1>5. ASSUME NEW z \in S PROVE z <= n - d
  <2>1. n - z \in E
    OBVIOUS
  <2>2. d \in Nat /\ z \in Int
    OBVIOUS
  <2> HIDE DEF E
  <2>3. d <= n - z
    BY <1>3, <2>1
  <2> QED
    BY <2>2, <2>3
<1> QED
  BY <1>4, <1>5, MaxOf

LEMMA FoldIterAt ==
    ASSUME NEW st, NEW b, NEW m \in Nat, DOMAIN b = 1..m, NEW T \in SUBSET (1..m)
    PROVE  FoldIter(st, b)[T] = FoldStep(st, b, FoldIter(st, b), T)
<1> DEFINE S == 1..m
           G == {n \in Nat : \E g : g = [s \in Small(S, n) |-> FoldStep(st, b, g, s)]}
<1>0. IsFiniteSet(S) /\ Cardinality(S) \in Nat /\ DOMAIN b = S /\ T \in SUBSET S
  BY FS_Interval, FS_CardinalityType
<1>4. ASSUME NEW s \in SUBSET S, s # {} PROVE Max(s) \in s
  BY <1>4, MaxIn
<1> HIDE DEF S
<1>1. 0 \in G
  <2> DEFINE g == [s \in Small(S, 0) |-> st]
  <2>1. ASSUME NEW s \in Small(S, 0) PROVE s = {}
    BY FS_CardinalityType, FS_EmptySet DEF Small
  <2>2. g = [s \in Small(S, 0) |-> FoldStep(st, b, g, s)]
    BY <2>1, Zenon DEF FoldStep
  <2> QED
    BY <2>2
<1>2. ASSUME NEW n \in Nat, n \in G PROVE n + 1 \in G
  <2>1. PICK g : g = [s \in Small(S, n) |-> FoldStep(st, b, g, s)]
    BY <1>2
  <2> DEFINE h == [s \in Small(S, n + 1) |-> FoldStep(st, b, g, s)]
  <2>2. Small(S, n) \subseteq Small(S, n + 1)
    BY FS_CardinalityType DEF Small
  <2>3. ASSUME NEW s \in Small(S, n) PROVE h[s] = g[s]
    <3>1. g[s] = FoldStep(st, b, g, s)
      BY <2>1
    <3>2. h[s] = FoldStep(st, b, g, s)
      BY <2>2
    <3> QED
      BY <3>1, <3>2
  <2> HIDE DEF h
  <2>4. ASSUME NEW s \in Small(S, n + 1) PROVE FoldStep(st, b, g, s) = FoldStep(st, b, h, s)
    <3>1. ASSUME s # {} PROVE s \ {Max(s)} \in Small(S, n)
      <4>1. Max(s) \in s /\ s \in SUBSET S
        BY <1>4, <3>1 DEF Small
      <4>2. IsFiniteSet(s) /\ Cardinality(s) <= n + 1 /\ Cardinality(s) \in Nat
        BY FS_CardinalityType DEF Small
      <4>3. IsFiniteSet(s \ {Max(s)}) /\ Cardinality(s \ {Max(s)}) = Cardinality(s) - 1
        BY <4>1, <4>2, FS_RemoveElement
      <4> QED
        BY <4>1, <4>2, <4>3 DEF Small
    <3>2. s # {} => h[s \ {Max(s)}] = g[s \ {Max(s)}]
      BY <2>3, <3>1
    <3> QED
      BY <3>2 DEF FoldStep
  <2>5. h = [s \in Small(S, n + 1) |-> FoldStep(st, b, h, s)]
    BY <2>4, Zenon DEF h
  <2> QED
    BY <2>5
<1>3. \A n \in Nat : n \in G
  <2>1. G \in SUBSET Nat
    OBVIOUS
  <2> HIDE DEF G
  <2> QED
    BY <1>1, <1>2, <2>1, NatInduct
<1>5. Small(S, Cardinality(S)) = SUBSET S
  BY <1>0, FS_Subset DEF Small
<1>6. \E g : g = [s \in SUBSET DOMAIN b |-> FoldStep(st, b, g, s)]
  BY <1>0, <1>3, <1>5
<1> DEFINE it == FoldIter(st, b)
<1>7. it = [s \in SUBSET DOMAIN b |-> FoldStep(st, b, it, s)]
  BY <1>6 DEF FoldIter
<1> HIDE DEF it
<1>8. it[T] = FoldStep(st, b, it, T)
  BY <1>0, <1>7
<1> QED
  BY <1>8 DEF it

\* The first n lines, and one more.
LEMMA FoldPrefix ==
    ASSUME NEW st, NEW b, NEW m \in Nat, DOMAIN b = 1..m
    PROVE  /\ FoldIter(st, b)[1..0] = st
           /\ \A n \in 0..m-1 : FoldIter(st, b)[1..n+1] = upsert_one(FoldIter(st, b)[1..n], b[n+1])
<1>1. FoldIter(st, b)[1..0] = st
  <2>1. 1..0 = {} /\ 1..0 \in SUBSET (1..m)
    OBVIOUS
  <2> QED
    BY <2>1, FoldIterAt DEF FoldStep
<1>2. ASSUME NEW n \in 0..m-1 PROVE FoldIter(st, b)[1..n+1] = upsert_one(FoldIter(st, b)[1..n], b[n+1])
  <2>1. 1..n+1 \in SUBSET (1..m) /\ 1..n+1 # {} /\ (1..n+1) \ {n+1} = 1..n
    OBVIOUS
  <2>2. Max(1..n+1) = n + 1
    BY MaxInterval
  <2>3. FoldIter(st, b)[1..n+1] = FoldStep(st, b, FoldIter(st, b), 1..n+1)
    BY <2>1, FoldIterAt
  <2>4. (1..n+1) \ {Max(1..n+1)} = 1..n
    BY <2>1, <2>2
  <2> QED
    BY <2>1, <2>2, <2>3, <2>4 DEF FoldStep
<1> QED
  BY <1>1, <1>2

-----------------------------------------------------------------------------
(* Claude Code: what a table holds after the lines that were presented.     *)

TotalOf == [r \in Line |-> r.total]

\* Every message has one row.
OneRow(R, lines) ==
    /\ \A l \in lines : \E r \in R : r.msg = l.msg
    /\ \A r, s \in R : r.msg = s.msg => r = s

\* It has the class and the amount of the best line.
BestRow(R, lines) ==
    /\ \A r \in R : \E l \in lines : l.msg = r.msg /\ l.side = r.side /\ l.total = r.total
    /\ \A r \in R, l \in lines : l.msg = r.msg =>
          (r.side => l.side) /\ (l.side = r.side => l.total <= r.total)

Ledger(st, lines) ==
    /\ st.rows \subseteq Line /\ IsFiniteSet(st.rows)
    /\ st.roll \in [Buckets -> Int] /\ st.count \in [Buckets -> Nat]
    /\ OneRow(st.rows, lines) /\ BestRow(st.rows, lines)
    /\ SumOver(st.roll, Buckets) = SumOver(TotalOf, st.rows)

ClaudeInv == Ledger(Start, seen)

\* What the replacing upsert does to a table with one row per message.
LEMMA UpsertById ==
    ASSUME NEW R \in SUBSET Line, \A r, s \in R : r.msg = s.msg => r = s,
           NEW e \in Line, NEW old \in R, old.msg = e.msg
    PROVE  \E new \in Line :
              /\ upsert_by_id(R, e) = (R \ {old}) \cup {new}
              /\ new.msg = e.msg /\ new.side = e.side /\ new.total = e.total
<1> DEFINE kept == {r \in R : r.msg = e.msg => r.req = e.req}
           same == {r \in kept : Id(r) = Id(e)}
<1>0. old \in Line
  OBVIOUS
<1>1. CASE old.req = e.req
  <2>1. kept = R
    BY <1>1
  <2>2. same = {old}
    BY <1>1, <2>1 DEF Id
  <2> DEFINE new == [old EXCEPT !.side = e.side, !.total = e.total]
  <2>3. new \in Line /\ new.msg = e.msg /\ new.side = e.side /\ new.total = e.total
    BY <1>0 DEF Line
  <2>4. {[r EXCEPT !.side = e.side, !.total = e.total] : r \in {old}} = {new}
    OBVIOUS
  <2>5. upsert_by_id(R, e) = (R \ {old}) \cup {new}
    BY <2>1, <2>2, <2>4, Zenon DEF upsert_by_id
  <2> QED
    BY <2>3, <2>5
<1>2. CASE old.req # e.req
  <2>1. kept = R \ {old}
    BY <1>2
  <2>2. same = {}
    BY <2>1 DEF Id
  <2>3. upsert_by_id(R, e) = (R \ {old}) \cup {e}
    BY <2>1, <2>2 DEF upsert_by_id
  <2> QED
    BY <2>3
<1> QED
  BY <1>1, <1>2

LEMMA UpsertNew ==
    ASSUME NEW R \in SUBSET Line, NEW e \in Line, \A r \in R : r.msg # e.msg
    PROVE  upsert_by_id(R, e) = R \cup {e}
<1> DEFINE kept == {r \in R : r.msg = e.msg => r.req = e.req}
           same == {r \in kept : Id(r) = Id(e)}
<1>1. kept = R /\ same = {}
  BY DEF Id
<1> QED
  BY <1>1 DEF upsert_by_id

\* One line, presented to a table that is right about the lines before it.
LEMMA UpsertKeeps ==
    ASSUME NEW st, NEW lines \in SUBSET Line, Ledger(st, lines), NEW e \in Line
    PROVE  Ledger(upsert_one(st, e), lines \cup {e})
<1> DEFINE R == st.rows
           nst(amount) == [rows  |-> upsert_by_id(st.rows, e),
                           roll  |-> [st.roll EXCEPT ![e.bucket] = @ + amount],
                           count |-> [st.count EXCEPT ![e.bucket] = @ + 1]]
           existing == fetch_existing_for_dedupe(st.rows, e)
<1>0. /\ R \in SUBSET Line /\ IsFiniteSet(R) /\ OneRow(R, lines) /\ BestRow(R, lines)
      /\ st.roll \in [Buckets -> Int] /\ st.count \in [Buckets -> Nat]
      /\ SumOver(st.roll, Buckets) = SumOver(TotalOf, R)
  BY DEF Ledger
<1>1. e.bucket \in Buckets /\ e.total \in Nat /\ e.total \in Int /\ e.side \in BOOLEAN
  BY LedgerAssumption DEF Line, Tokens
<1>2. \A l \in Line : l.total \in Int /\ l.side \in BOOLEAN /\ TotalOf[l] = l.total
  BY LedgerAssumption DEF Line, Tokens, TotalOf
<1>3. ASSUME NEW amount \in Int
      PROVE  /\ nst(amount).roll \in [Buckets -> Int] /\ nst(amount).count \in [Buckets -> Nat]
             /\ SumOver(nst(amount).roll, Buckets) = SumOver(st.roll, Buckets) + amount
  <2>1. nst(amount).roll = [st.roll EXCEPT ![e.bucket] = st.roll[e.bucket] + amount]
    OBVIOUS
  <2>2. st.roll[e.bucket] \in Int /\ IsFiniteSet(Buckets)
    BY <1>0, <1>1, LedgerAssumption
  <2>3. SumOver([st.roll EXCEPT ![e.bucket] = st.roll[e.bucket] + amount], Buckets)
          = SumOver(st.roll, Buckets) + ((st.roll[e.bucket] + amount) - st.roll[e.bucket])
    BY <1>0, <1>1, <2>2, SumExcept
  <2>4. SumOver(st.roll, Buckets) \in Int
    BY <1>0, <2>2, SumType DEF IntOn
  <2>5. nst(amount).roll \in [Buckets -> Int] /\ nst(amount).count \in [Buckets -> Nat]
    BY <1>0, <1>1
  <2> QED
    BY <2>1, <2>2, <2>3, <2>4, <2>5
<1>4. CASE existing = {}
  <2>1. upsert_one(st, e) = nst(e.total)
    BY <1>4 DEF upsert_one
  <2>2. \A r \in R : r.msg # e.msg
    BY <1>4 DEF fetch_existing_for_dedupe
  <2>3. nst(e.total).rows = R \cup {e}
    BY <1>0, <2>2, UpsertNew
  <2>4. e \notin R
    BY <2>2
  <2>5. IsFiniteSet(R \cup {e}) /\ R \cup {e} \subseteq Line
    BY <1>0, FS_AddElement
  <2>6. SumOver(TotalOf, R \cup {e}) = e.total + SumOver(TotalOf, R) /\ SumOver(TotalOf, R) \in Int
    <3>1. IntOn(TotalOf, R) /\ IntOn(TotalOf, R \cup {e}) /\ TotalOf[e] = e.total
      BY <1>0, <1>2 DEF IntOn
    <3> QED
      BY <1>0, <2>4, <3>1, SumAdd, SumType
  <2>7. OneRow(R \cup {e}, lines \cup {e})
    BY <1>0, <2>2 DEF OneRow
  <2>8. \A l \in lines : l.msg # e.msg
    BY <1>0, <2>2 DEF OneRow
  <2>9. BestRow(R \cup {e}, lines \cup {e})
    BY <1>0, <1>1, <2>2, <2>8 DEF BestRow
  <2>10. /\ nst(e.total).roll \in [Buckets -> Int] /\ nst(e.total).count \in [Buckets -> Nat]
         /\ SumOver(nst(e.total).roll, Buckets) = SumOver(st.roll, Buckets) + e.total
    BY <1>1, <1>3
  <2> HIDE DEF nst
  <2>11. SumOver(nst(e.total).roll, Buckets) = SumOver(TotalOf, R \cup {e})
    BY <1>0, <1>1, <2>6, <2>10
  <2> QED
    BY <2>1, <2>3, <2>5, <2>7, <2>9, <2>10, <2>11 DEF Ledger
<1>5. CASE existing # {}
  <2> DEFINE old == CHOOSE r \in existing : TRUE
  <2>1. old \in R /\ old.msg = e.msg
    BY <1>5 DEF fetch_existing_for_dedupe
  <2>2. upsert_one(st, e) = IF new_beats_existing(e, old) THEN nst(compute_delta(old, e)) ELSE st
    BY <1>5 DEF upsert_one
  <2> HIDE DEF old
  <2>3. old \in Line /\ old.total \in Int /\ old.side \in BOOLEAN /\ TotalOf[old] = old.total
    BY <1>0, <1>2, <2>1
  <2>4. \A r \in R : r.msg = e.msg => r = old
    BY <1>0, <2>1 DEF OneRow
  <2>5. CASE new_beats_existing(e, old)
    <3>1. PICK new \in Line : /\ upsert_by_id(R, e) = (R \ {old}) \cup {new}
                              /\ new.msg = e.msg /\ new.side = e.side /\ new.total = e.total
      BY <1>0, <2>1, UpsertById DEF OneRow
    <3> DEFINE R2 == (R \ {old}) \cup {new}
    <3>2. upsert_one(st, e) = nst(e.total - old.total) /\ nst(e.total - old.total).rows = R2
      BY <2>2, <2>5, <3>1 DEF compute_delta
    <3>3. new \notin R \ {old}
      BY <2>4, <3>1
    <3>4. IsFiniteSet(R2) /\ SumOver(TotalOf, R2) = SumOver(TotalOf, R) + (e.total - old.total)
      <4>1. IntOn(TotalOf, R \cup {new}) /\ TotalOf[new] = e.total
        BY <1>0, <1>2, <3>1 DEF IntOn
      <4> QED
        BY <1>0, <2>1, <2>3, <3>3, <4>1, SumReplace
    <3>5. OneRow(R2, lines \cup {e})
      <4>1. \A r \in R \ {old} : r.msg # new.msg
        BY <2>4, <3>1
      <4> QED
        BY <1>0, <2>1, <3>1, <4>1 DEF OneRow
    <3>6. BestRow(R2, lines \cup {e})
      <4>1. ASSUME NEW r \in R2 PROVE \E l \in lines \cup {e} : l.msg = r.msg /\ l.side = r.side /\ l.total = r.total
        BY <1>0, <3>1 DEF BestRow
      <4>2. ASSUME NEW r \in R2, NEW l \in lines \cup {e}, l.msg = r.msg
            PROVE  (r.side => l.side) /\ (l.side = r.side => l.total <= r.total)
        <5>1. CASE r # new
          <6>1. r \in R /\ r # old /\ r.msg # e.msg
            BY <2>4, <5>1
          <6>2. l \in lines
            BY <4>2, <6>1
          <6> QED
            BY <1>0, <4>2, <6>1, <6>2 DEF BestRow
        <5>2. CASE r = new /\ l = e
          BY <1>1, <3>1, <5>2
        <5>3. CASE r = new /\ l \in lines
          <6>1. (old.side => l.side) /\ (l.side = old.side => l.total <= old.total)
            BY <1>0, <2>1, <3>1, <4>2, <5>3 DEF BestRow
          <6>2. l.total \in Int /\ l.side \in BOOLEAN
            BY <1>2, <5>3
          <6>3. \/ old.side /\ ~e.side
                \/ old.side = e.side /\ e.total > old.total
            BY <2>5 DEF new_beats_existing
          <6>4. CASE old.side /\ ~e.side
            <7>1. l.side
              BY <6>1, <6>4
            <7> QED
              BY <3>1, <5>3, <6>4, <7>1, <6>2
          <6>5. CASE old.side = e.side /\ e.total > old.total
            <7>1. r.side = old.side /\ r.total = e.total
              BY <3>1, <5>3, <6>5
            <7>2. l.total <= old.total => l.total <= e.total
              BY <1>1, <2>3, <6>2, <6>5
            <7> QED
              BY <6>1, <7>1, <7>2
          <6> QED
            BY <6>3, <6>4, <6>5
        <5> QED
          BY <5>1, <5>2, <5>3
      <4> QED
        BY <4>1, <4>2 DEF BestRow
    <3>7. R2 \subseteq Line
      BY <1>0, <3>1
    <3>8. e.total - old.total \in Int
      BY <1>1, <2>3
    <3> QED
      BY <1>0, <1>3, <3>2, <3>4, <3>5, <3>6, <3>7, <3>8 DEF Ledger
  <2>6. CASE ~new_beats_existing(e, old)
    <3>1. upsert_one(st, e) = st
      BY <2>2, <2>6
    <3>2. OneRow(R, lines \cup {e})
      BY <1>0, <2>1 DEF OneRow
    <3>3. (old.side => e.side) /\ (e.side = old.side => e.total <= old.total)
      BY <1>1, <2>3, <2>6 DEF new_beats_existing
    <3>4. BestRow(R, lines \cup {e})
      BY <1>0, <2>4, <3>3 DEF BestRow
    <3> QED
      BY <1>0, <3>1, <3>2, <3>4 DEF Ledger
  <2> QED
    BY <2>5, <2>6
<1> QED
  BY <1>4, <1>5

\* A whole batch.
LEMMA BatchKeeps ==
    ASSUME NEW m \in Nat, NEW batch \in [1..m -> Line], NEW lines \in SUBSET Line, Ledger(Start, lines)
    PROVE  Ledger(upsert_usage_events_dedup_aware(batch), lines \cup ToSet(batch))
<1> DEFINE it == FoldIter(Start, batch)
           Upto(n) == lines \cup {batch[i] : i \in 1..n}
           G == {n \in Nat : n <= m => Ledger(it[1..n], Upto(n))}
<1>0. DOMAIN batch = 1..m
  OBVIOUS
<1>1. it[1..0] = Start /\ \A n \in 0..m-1 : it[1..n+1] = upsert_one(it[1..n], batch[n+1])
  BY <1>0, FoldPrefix
<1>2. upsert_usage_events_dedup_aware(batch) = it[1..m]
  BY <1>0, FoldIsIter
<1> HIDE DEF it
<1>3. 0 \in G
  <2>1. Upto(0) = lines
    OBVIOUS
  <2> QED
    BY <1>1, <2>1
<1>4. ASSUME NEW n \in Nat, n \in G PROVE n + 1 \in G
  <2> SUFFICES ASSUME n + 1 <= m PROVE Ledger(it[1..n+1], Upto(n + 1))
    OBVIOUS
  <2>1. Ledger(it[1..n], Upto(n)) /\ n \in 0..m-1 /\ batch[n+1] \in Line /\ Upto(n) \in SUBSET Line
    BY <1>4
  <2>2. Upto(n + 1) = Upto(n) \cup {batch[n+1]}
    OBVIOUS
  <2> HIDE DEF Upto
  <2> QED
    BY <1>1, <2>1, <2>2, UpsertKeeps
<1>5. \A n \in Nat : n \in G
  <2>1. G \in SUBSET Nat
    OBVIOUS
  <2> HIDE DEF G
  <2> QED
    BY <1>3, <1>4, <2>1, NatInduct
<1>6. Upto(m) = lines \cup ToSet(batch)
  BY <1>0 DEF ToSet
<1>7. Ledger(it[1..m], Upto(m))
  BY <1>5
<1> QED
  BY <1>2, <1>6, <1>7, Zenon

-----------------------------------------------------------------------------
(* Counting the lines of a set.                                            *)

Below(S, i) == {j \in S : j <= i}

LEMMA BelowType ==
    ASSUME NEW n \in Nat, NEW S \in SUBSET (1..n)
    PROVE  /\ \A j \in S : j \in Nat /\ 1 <= j /\ j <= n
           /\ IsFiniteSet(S) /\ Cardinality(S) \in Nat /\ Cardinality(S) <= n
<1>1. IsFiniteSet(1..n) /\ Cardinality(1..n) = n
  BY FS_Interval
<1>2. IsFiniteSet(S) /\ Cardinality(S) <= n /\ Cardinality(S) \in Nat
  BY <1>1, FS_Subset, FS_CardinalityType
<1>3. \A j \in S : j \in Nat /\ 1 <= j /\ j <= n
  OBVIOUS
<1> QED
  BY <1>2, <1>3

LEMMA BelowFinite ==
    ASSUME NEW n \in Nat, NEW S \in SUBSET (1..n), NEW i \in Nat
    PROVE  IsFiniteSet(Below(S, i)) /\ Cardinality(Below(S, i)) \in Nat
<1>1. Below(S, i) \subseteq S
  BY DEF Below
<1> QED
  BY <1>1, BelowType, FS_Subset, FS_CardinalityType

LEMMA BelowEnds ==
    ASSUME NEW n \in Nat, NEW S \in SUBSET (1..n)
    PROVE  Below(S, 0) = {} /\ Below(S, n) = S
<1>1. \A j \in S : j \in Nat /\ 1 <= j /\ j <= n
  BY BelowType
<1>2. ASSUME NEW j \in S PROVE ~(j <= 0) /\ j <= n
  BY <1>1
<1>3. Below(S, 0) = {}
  BY <1>2 DEF Below
<1>4. Below(S, n) = S
  BY <1>2 DEF Below
<1> QED
  BY <1>3, <1>4

LEMMA BelowNext ==
    ASSUME NEW n \in Nat, NEW S \in SUBSET (1..n), NEW i \in Nat
    PROVE  Cardinality(Below(S, i + 1)) = Cardinality(Below(S, i)) + (IF i + 1 \in S THEN 1 ELSE 0)
<1>0. \A j \in S : j \in Nat
  BY BelowType
<1>1. IsFiniteSet(Below(S, i)) /\ Cardinality(Below(S, i)) \in Nat
  BY BelowFinite
<1>2. CASE i + 1 \in S
  <2>1. Below(S, i + 1) = Below(S, i) \cup {i + 1} /\ i + 1 \notin Below(S, i)
    <3>1. ASSUME NEW j \in S PROVE j <= i + 1 <=> (j <= i \/ j = i + 1)
      <4>1. j \in Nat
        BY <1>0
      <4> QED
        BY <4>1
    <3>2. ~(i + 1 <= i) /\ i + 1 <= i + 1
      OBVIOUS
    <3> QED
      BY <1>2, <3>1, <3>2 DEF Below
  <2> QED
    BY <1>1, <1>2, <2>1, FS_AddElement
<1>3. CASE i + 1 \notin S
  <2>1. Below(S, i + 1) = Below(S, i)
    <3>1. ASSUME NEW j \in S PROVE j <= i + 1 <=> j <= i
      <4>1. j # i + 1 /\ j \in Nat
        BY <1>0, <1>3
      <4> QED
        BY <4>1
    <3> QED
      BY <3>1 DEF Below
  <2> QED
    BY <1>1, <1>3, <2>1
<1> QED
  BY <1>2, <1>3

\* There is a k-th element.
LEMMA NthExists ==
    ASSUME NEW n \in Nat, NEW S \in SUBSET (1..n), NEW k \in 1..Cardinality(S)
    PROVE  \E i \in S : Cardinality(Below(S, i)) = k
<1> DEFINE C(i) == Cardinality(Below(S, i))
           E == {i \in Nat : C(i) >= k}
<1>0. Cardinality(S) \in Nat /\ k \in Nat /\ k >= 1 /\ k <= Cardinality(S)
  BY BelowType
<1>1. C(0) = 0 /\ C(n) = Cardinality(S)
  BY BelowEnds, FS_EmptySet
<1>2. ASSUME NEW i \in Nat PROVE C(i) \in Nat /\ C(i + 1) = C(i) + (IF i + 1 \in S THEN 1 ELSE 0)
  BY BelowFinite, BelowNext
<1> HIDE DEF C
<1>3. n \in E
  BY <1>0, <1>1
<1>4. PICK i \in E : \A j \in E : i <= j
  BY <1>3, LeastExists
<1>5. i \in Nat /\ C(i) >= k /\ i # 0
  BY <1>0, <1>1, <1>4
<1>6. i - 1 \in Nat /\ (i - 1) + 1 = i /\ ~(i <= i - 1)
  BY <1>5
<1>7. ~(C(i - 1) >= k)
  BY <1>4, <1>6
<1>8. C(i) = C(i - 1) + (IF i \in S THEN 1 ELSE 0) /\ C(i - 1) \in Nat /\ C(i) \in Nat
  BY <1>2, <1>5, <1>6
<1>9. i \in S /\ C(i) = k
  BY <1>0, <1>5, <1>7, <1>8
<1> QED
  BY <1>9 DEF C

\* The last one is the greatest.
LEMMA LastNth ==
    ASSUME NEW n \in Nat, NEW S \in SUBSET (1..n), NEW i \in S, NEW m \in S, \A j \in S : j <= m,
           Cardinality(Below(S, i)) = Cardinality(S)
    PROVE  i = m
<1>1. Below(S, i) \subseteq S /\ IsFiniteSet(S) /\ i \in Nat /\ m \in Nat
  BY BelowType DEF Below
<1>2. Below(S, i) = S
  BY <1>1, FS_Subset
<1>3. m <= i /\ i <= m
  BY <1>2 DEF Below
<1> QED
  BY <1>1, <1>3

\* A later start reaches at least as far.
LEMMA CountSplit ==
    ASSUME NEW n \in Nat, NEW S \in SUBSET (1..n), NEW a \in Nat, NEW b \in Nat, a <= b
    PROVE  /\ Cardinality({i \in S : i > a}) \in Nat /\ Cardinality({i \in S : i > b}) \in Nat
           /\ a + Cardinality({i \in S : i > a}) <= b + Cardinality({i \in S : i > b})
<1> DEFINE A == {i \in S : i > a}
           B == {i \in S : i > b}
<1>0. (\A j \in S : j \in Nat) /\ a + 1 \in Int /\ b \in Int
  BY BelowType
<1>1. IsFiniteSet(S) /\ IsFiniteSet(A) /\ IsFiniteSet(B)
  BY BelowType, FS_Subset
<1>2. Cardinality(A) \in Nat /\ Cardinality(B) \in Nat
  BY <1>1, FS_CardinalityType
<1>3. IsFiniteSet(a+1..b) /\ Cardinality(a+1..b) = b - a
  <2>1. /\ IsFiniteSet(a+1..b)
        /\ Cardinality(a+1..b) = IF a + 1 > b THEN 0 ELSE b - (a + 1) + 1
    BY <1>0, FS_Interval
  <2> QED
    BY <2>1
<1>4. IsFiniteSet(B \cup (a+1..b)) /\ Cardinality(B \cup (a+1..b)) <= Cardinality(B) + (b - a)
  <2>1. /\ IsFiniteSet(B \cup (a+1..b))
        /\ Cardinality(B \cup (a+1..b)) = Cardinality(B) + Cardinality(a+1..b) - Cardinality(B \cap (a+1..b))
    BY <1>1, <1>3, FS_Union
  <2>2. Cardinality(B \cap (a+1..b)) \in Nat
    BY <1>1, FS_Intersection, FS_CardinalityType
  <2> QED
    BY <1>2, <1>3, <2>1, <2>2
<1>5. A \subseteq B \cup (a+1..b)
  <2>1. ASSUME NEW j \in A PROVE j > b \/ j \in a+1..b
    <3>1. j \in Nat /\ j > a
      BY <1>0
    <3> QED
      BY <3>1
  <2> QED
    BY <2>1
<1>6. Cardinality(A) <= Cardinality(B \cup (a+1..b)) /\ Cardinality(B \cup (a+1..b)) \in Nat
  BY <1>4, <1>5, FS_Subset, FS_CardinalityType
<1> HIDE DEF A, B
<1>7. a + Cardinality(A) <= b + Cardinality(B)
  BY <1>2, <1>4, <1>6
<1> QED
  BY <1>2, <1>7 DEF A, B

-----------------------------------------------------------------------------
(* Types.                                                                  *)

\* What keeps the snapshots without a gap.
FormInv ==
    \A i \in DOMAIN queue :
        IsFiniteSet(queue[i].events) /\ queue[i].first <= Len(snaps)

LEMMA FilesType ==
    ASSUME TypeOK
    PROVE  /\ MaxRestarts \in Nat /\ IsFiniteSet(Files) /\ file \in Seq(CodexLine)
           /\ Len(file) \in Nat /\ DOMAIN file = 1..Len(file)
           /\ \A i \in 1..Len(file) : file[i] \in CodexLine /\ file[i].cum \in Nat
<1>1. MaxRestarts \in Nat
  BY LedgerAssumption
<1>2. IsFiniteSet(Files)
  BY <1>1, FS_Interval DEF Files
<1>3. file \in Seq(CodexLine)
  BY DEF TypeOK, file
<1>4. Len(file) \in Nat /\ DOMAIN file = 1..Len(file) /\ \A i \in 1..Len(file) : file[i] \in CodexLine
  BY <1>3
<1>5. \A i \in 1..Len(file) : file[i].cum \in Nat
  BY <1>4 DEF CodexLine
<1> QED
  BY <1>1, <1>2, <1>3, <1>4, <1>5

LEMMA TotalsType ==
    ASSUME TypeOK, NEW lines \in SUBSET (1..Len(file)), lines # {},
           NEW m \in lines, \A j \in lines : j <= m
    PROVE  /\ Totals(lines) \in Seq(Nat) /\ Len(Totals(lines)) = Cardinality(lines)
           /\ Totals(lines) # <<>> /\ Last(Totals(lines)) = file[m].cum
<1> DEFINE N == Cardinality(lines)
           at(k) == CHOOSE i \in lines : Cardinality({j \in lines : j <= i}) = k
<1>0. Len(file) \in Nat /\ IsFiniteSet(lines) /\ N \in Nat
  BY FilesType, BelowType
<1>1. N # 0
  BY <1>0, FS_EmptySet
<1>2. ASSUME NEW k \in 1..N PROVE at(k) \in lines /\ Cardinality(Below(lines, at(k))) = k
  <2>1. \E i \in lines : Cardinality({j \in lines : j <= i}) = k
    BY <1>0, NthExists DEF Below
  <2> QED
    BY <2>1 DEF Below
<1>3. Totals(lines) = [k \in 1..N |-> file[at(k)].cum]
  BY DEF Totals
<1> HIDE DEF at, N
<1>4. ASSUME NEW k \in 1..N PROVE file[at(k)].cum \in Nat
  BY <1>2, FilesType
<1>5. Totals(lines) \in Seq(Nat) /\ Len(Totals(lines)) = N
  BY <1>0, <1>3, <1>4
<1>6. at(N) = m
  <2>1. N \in 1..N
    BY <1>0, <1>1
  <2>2. at(N) \in lines /\ Cardinality(Below(lines, at(N))) = Cardinality(lines)
    BY <1>2, <2>1 DEF N
  <2> QED
    BY <1>0, <2>2, LastNth
<1>7. Last(Totals(lines)) = file[m].cum
  BY <1>0, <1>1, <1>3, <1>5, <1>6 DEF Last
<1> QED
  BY <1>0, <1>1, <1>5, <1>7 DEF N

LEMMA NoTotals == ASSUME TypeOK PROVE Totals({}) = <<>>
<1>1. Cardinality({}) = 0
  BY FS_EmptySet
<1>2. 1..0 = {}
  OBVIOUS
<1> QED
  BY <1>1, <1>2 DEF Totals

\* A set of lines has a last one.
LEMMA LastLine ==
    ASSUME TypeOK, NEW L \in SUBSET (1..Len(file)), L # {}
    PROVE  \E m \in L : \A j \in L : j <= m
<1>0. Len(file) \in Nat
  BY FilesType
<1>1. PICK x \in L : x \in 1..Len(file)
  OBVIOUS
<1> DEFINE E == {k \in Nat : Len(file) - k \in L}
<1>2. Len(file) - x \in E
  <2>1. Len(file) - x \in Nat /\ Len(file) - (Len(file) - x) = x
    BY <1>0, <1>1
  <2> QED
    BY <2>1
<1>3. PICK d \in E : \A k \in E : d <= k
  BY <1>2, LeastExists
<1>4. ASSUME NEW j \in L PROVE j <= Len(file) - d
  <2>1. Len(file) - j \in E /\ d \in Nat /\ j \in Int
    BY <1>0
  <2> HIDE DEF E
  <2>2. d <= Len(file) - j
    BY <1>3, <2>1
  <2> QED
    BY <1>0, <2>1, <2>2
<1> QED
  BY <1>3, <1>4

LEMMA LinesAfterType ==
    ASSUME TypeOK, NEW from \in Nat
    PROVE  /\ LinesAfter(from) \in SUBSET (1..Len(file)) /\ checkpoint_offset(from) \in Nat
           /\ codex_snapshots(LinesAfter(from)) \in SUBSET (1..Len(file))
<1>1. LinesAfter(from) \in SUBSET (1..Len(file)) /\ Len(file) \in Nat
  BY FilesType DEF LinesAfter
<1>2. Cardinality(LinesAfter(from)) \in Nat
  BY <1>1, BelowType
<1>3. codex_snapshots(LinesAfter(from)) \in SUBSET (1..Len(file))
  BY <1>1 DEF codex_snapshots
<1> QED
  BY <1>1, <1>2, <1>3 DEF checkpoint_offset

LEMMA SumNat ==
    ASSUME NEW f, NEW S, IsFiniteSet(S), \A x \in S : f[x] \in Nat
    PROVE  SumOver(f, S) \in Nat
<1> DEFINE G == {n \in Nat : \A T \in Small(S, n) : SumOver(f, T) \in Nat}
<1>1. 0 \in G
  <2>1. ASSUME NEW T \in Small(S, 0) PROVE T = {}
    BY FS_CardinalityType, FS_EmptySet DEF Small
  <2>2. SumOver(f, {}) = 0
    BY SumEmpty
  <2> QED
    BY <2>1, <2>2
<1>2. ASSUME NEW n \in Nat, n \in G PROVE n + 1 \in G
  <2> SUFFICES ASSUME NEW T \in Small(S, n + 1) PROVE SumOver(f, T) \in Nat
    OBVIOUS
  <2>1. CASE T = {}
    BY <2>1, SumEmpty
  <2>2. CASE T # {}
    <3>1. SumOver(f, T \ {Pick(T)}) \in Nat
      BY <1>2, <2>2, SmallRest
    <3>2. f[Pick(T)] \in Nat /\ IsFiniteSet(T)
      BY <2>2, PickIn DEF Small
    <3> QED
      BY <2>2, <3>1, <3>2, SumPick
  <2> QED
    BY <2>1, <2>2
<1>3. \A n \in Nat : n \in G
  <2>1. G \in SUBSET Nat
    OBVIOUS
  <2> HIDE DEF G
  <2> QED
    BY <1>1, <1>2, <2>1, NatInduct
<1>4. Cardinality(S) \in Nat /\ S \in Small(S, Cardinality(S))
  BY FS_CardinalityType DEF Small
<1> QED
  BY <1>3, <1>4

\* The running total a writer continues from.
LEMMA LastTotalType == ASSUME TypeOK PROVE LastTotal(file) \in Nat
<1>1. CASE file = <<>>
  BY <1>1 DEF LastTotal
<1>2. CASE file # <<>>
  <2>1. Len(file) \in 1..Len(file)
    BY <1>2, FilesType
  <2> QED
    BY <1>2, <2>1, FilesType DEF LastTotal, Last
<1> QED
  BY <1>1, <1>2

LEMMA TypeAppends ==
    ASSUME TypeOK, FormInv, NEW line \in CodexLine, CodexAppends(line)
    PROVE  TypeOK' /\ FormInv'
<1>1. files' \in [Files -> Seq(CodexLine)]
  <2>1. Append(files[inc], line) \in Seq(CodexLine)
    BY DEF TypeOK
  <2> QED
    BY <2>1 DEF TypeOK, CodexAppends
<1>2. TypeOK'
  BY <1>1 DEF TypeOK, CodexAppends, claudeVars
<1>3. FormInv'
  BY DEF FormInv, CodexAppends
<1> QED
  BY <1>2, <1>3

LEMMA WritesLine ==
    ASSUME TypeOK, NEW amount \in Amounts, NEW explicit \in BOOLEAN
    PROVE  [kind |-> "total", cum |-> LastTotal(file) + amount,
            delta |-> IF explicit THEN amount ELSE -1] \in CodexLine
<1>1. amount \in Nat /\ LastTotal(file) \in Nat
  BY LastTotalType, LedgerAssumption
<1> QED
  BY <1>1 DEF CodexLine

LEMMA OtherLine ==
    ASSUME TypeOK, NEW kind \in {"other", "empty"}
    PROVE  [kind |-> kind, cum |-> LastTotal(file), delta |-> -1] \in CodexLine
  BY LastTotalType DEF CodexLine

LEMMA TypeRestarts ==
    ASSUME TypeOK, FormInv, CodexRestarts
    PROVE  TypeOK' /\ FormInv'
<1>1. inc' \in Files
  BY FilesType DEF TypeOK, CodexRestarts, Files
<1>2. TypeOK'
  BY <1>1 DEF TypeOK, CodexRestarts, claudeVars
<1>3. FormInv'
  BY DEF FormInv, CodexRestarts
<1> QED
  BY <1>2, <1>3

LEMMA DeltaType ==
    ASSUME NEW line \in CodexLine, NEW previous \in Nat
    PROVE  codex_snapshot_delta(line, previous) \in Nat
<1>1. line.cum \in Nat /\ line.delta \in Nat \cup {-1}
  BY DEF CodexLine
<1>2. Max({line.cum - previous, 0}) = IF line.cum - previous <= 0 THEN 0 ELSE line.cum - previous
  BY <1>1, MaxTwo
<1> QED
  BY <1>1, <1>2 DEF codex_snapshot_delta

LEMMA LastOfType == ASSUME NEW cums \in Seq(Nat) PROVE LastOf(cums) \in Nat
<1>1. CASE cums = <<>>
  BY <1>1 DEF LastOf
<1>2. CASE cums # <<>>
  <2>1. Len(cums) \in 1..Len(cums)
    BY <1>2
  <2> QED
    BY <1>2, <2>1 DEF LastOf, Last
<1> QED
  BY <1>1, <1>2

LEMMA LatestType == ASSUME TypeOK PROVE get_latest_codex_snapshot \in Nat
  BY LastOfType DEF TypeOK, get_latest_codex_snapshot

LEMMA EventsType ==
    ASSUME TypeOK, NEW lines \in SUBSET (1..Len(file)), NEW reset \in BOOLEAN
    PROVE  /\ build_codex_delta_events(lines, reset) \in SUBSET Event
           /\ IsFiniteSet(build_codex_delta_events(lines, reset))
<1> DEFINE Baseline(i) == IF \E j \in lines : j < i THEN file[i - 1].cum
                          ELSE IF reset THEN 0 ELSE get_latest_codex_snapshot
           ev(i) == <<inc, i, codex_snapshot_delta(file[i], Baseline(i))>>
<1>0. Len(file) \in Nat
  BY FilesType
<1>1. ASSUME NEW i \in lines PROVE Baseline(i) \in Nat
  <2>1. CASE \E j \in lines : j < i
    <3>1. i - 1 \in 1..Len(file)
      BY <1>0, <2>1
    <3>2. file[i - 1].cum \in Nat
      BY <3>1, FilesType
    <3> QED
      BY <2>1, <3>2
  <2>2. CASE ~\E j \in lines : j < i
    BY <2>2, LatestType
  <2> QED
    BY <2>1, <2>2
<1> HIDE DEF Baseline
<1>2. ASSUME NEW i \in lines PROVE ev(i) \in Event
  <2>1. file[i] \in CodexLine /\ i \in Nat
    BY <1>0, FilesType
  <2>2. codex_snapshot_delta(file[i], Baseline(i)) \in Nat
    BY <1>1, <2>1, DeltaType
  <2> QED
    BY <2>1, <2>2 DEF Event, TypeOK
<1> HIDE DEF ev
<1> DEFINE told == {i \in lines : ~explicit_zero_component_codex_delta(file[i])}
<1>3. build_codex_delta_events(lines, reset) = {ev(i) : i \in told}
  BY DEF build_codex_delta_events, ev, Baseline
<1>4. IsFiniteSet(told) /\ told \subseteq lines
  BY <1>0, BelowType, FS_Subset
<1> HIDE DEF told
<1>5. IsFiniteSet({ev(i) : i \in told})
  <2> DEFINE f == [i \in told |-> ev(i)]
  <2>1. f \in Surjection(told, {ev(i) : i \in told})
    BY DEF Surjection
  <2> QED
    BY <1>4, <2>1, FS_Surjection
<1> QED
  BY <1>2, <1>3, <1>4, <1>5

\* What a read sends.
ReadReset == ckpt.inc # inc
ReadFrom == IF ReadReset THEN 0 ELSE ckpt.off
ReadLines == LinesAfter(ReadFrom)
ReadSnaps == codex_snapshots(ReadLines)
ReadBatch == [inc |-> inc, reset |-> ReadReset, off |-> checkpoint_offset(ReadFrom),
              events |-> build_codex_delta_events(ReadSnaps, ReadReset),
              first |-> next_codex_ordinal(ReadReset), cums |-> Totals(ReadSnaps)]

LEMMA ReadSends ==
    ASSUME CodexRead
    PROVE  /\ queue' = Append(queue, ReadBatch)
           /\ UNCHANGED <<agent, claudeVars, files, inc, ckpt, snaps, events, stored, totals, stale>>
  BY DEF CodexRead, ReadReset, ReadFrom, ReadLines, ReadSnaps, ReadBatch

LEMMA ReadType ==
    ASSUME TypeOK
    PROVE  /\ ReadFrom \in Nat /\ ReadBatch \in Batch /\ IsFiniteSet(ReadBatch.events)
           /\ ReadBatch.first \in 0..Len(snaps)
<1>1. ReadFrom \in Nat /\ ReadReset \in BOOLEAN /\ inc \in Files
  BY DEF TypeOK, ReadFrom, ReadReset
<1>2. ReadSnaps \in SUBSET (1..Len(file)) /\ checkpoint_offset(ReadFrom) \in Nat
  BY <1>1, LinesAfterType DEF ReadLines, ReadSnaps
<1>3. Totals(ReadSnaps) \in Seq(Nat)
  <2>1. CASE ReadSnaps = {}
    <3>1. Totals(ReadSnaps) = <<>>
      BY <2>1, NoTotals
    <3> QED
      BY <3>1
  <2>2. CASE ReadSnaps # {}
    BY <1>2, <2>2, LastLine, TotalsType
  <2> QED
    BY <2>1, <2>2
<1>4. build_codex_delta_events(ReadSnaps, ReadReset) \in SUBSET Event
      /\ IsFiniteSet(build_codex_delta_events(ReadSnaps, ReadReset))
  BY <1>1, <1>2, EventsType
<1>5. next_codex_ordinal(ReadReset) \in 0..Len(snaps)
  BY DEF TypeOK, next_codex_ordinal
<1>6. ReadBatch \in Batch
  BY <1>1, <1>2, <1>3, <1>4, <1>5 DEF ReadBatch, Batch
<1> QED
  BY <1>1, <1>4, <1>5, <1>6 DEF ReadBatch

LEMMA TypeRead ==
    ASSUME TypeOK, FormInv, CodexRead
    PROVE  TypeOK' /\ FormInv'
<1>1. queue' = Append(queue, ReadBatch)
  BY ReadSends
<1>2. /\ ReadBatch \in Batch /\ IsFiniteSet(ReadBatch.events)
      /\ ReadBatch.first \in 0..Len(snaps)
  BY <1>1, ReadType
<1>3. queue \in Seq(Batch)
  BY DEF TypeOK
<1> DEFINE B == ReadBatch
<1>4. UNCHANGED <<agent, claudeVars, files, inc, ckpt, snaps, events, stored, totals, stale>>
  BY ReadSends
<1> HIDE DEF B
<1>5. queue' \in Seq(Batch) /\ Len(queue') = Len(queue) + 1
      /\ \A i \in DOMAIN queue' : queue'[i] = B \/ (i \in DOMAIN queue /\ queue'[i] = queue[i])
  BY <1>1, <1>2, <1>3 DEF B
<1>6. TypeOK'
  BY <1>4, <1>5 DEF TypeOK, claudeVars
<1>7. snaps' = snaps /\ Len(snaps) \in Nat
  BY <1>4 DEF TypeOK
<1>8. FormInv'
  BY <1>2, <1>5, <1>7 DEF FormInv, B
<1> QED
  BY <1>6, <1>8

LEMMA MaxNat ==
    ASSUME NEW a \in Nat, NEW b \in Nat
    PROVE  Max({a, b}) = (IF a <= b THEN b ELSE a) /\ Max({a, b}) \in Nat
<1>1. a \in Int /\ b \in Int
  OBVIOUS
<1>2. Max({a, b}) = IF a <= b THEN b ELSE a
  BY <1>1, MaxTwo
<1> QED
  BY <1>2

\* The batches behind the head of the queue.
LEMMA TailOf ==
    ASSUME TypeOK, queue # <<>>
    PROVE  /\ Head(queue) = queue[1] /\ 1 \in DOMAIN queue /\ queue[1] \in Batch
           /\ Tail(queue) \in Seq(Batch)
           /\ \A i \in DOMAIN Tail(queue) : i + 1 \in DOMAIN queue /\ Tail(queue)[i] = queue[i + 1]
<1>1. queue \in Seq(Batch)
  BY DEF TypeOK
<1> QED
  BY <1>1

LEMMA TypeDropped ==
    ASSUME TypeOK, FormInv, CodexDropped
    PROVE  TypeOK' /\ FormInv'
<1>1. /\ queue' \in Seq(Batch)
      /\ \A i \in DOMAIN queue' : i + 1 \in DOMAIN queue /\ queue'[i] = queue[i + 1]
  BY TailOf DEF CodexDropped
<1>2. TypeOK'
  BY <1>1 DEF TypeOK, CodexDropped, claudeVars
<1>3. snaps' = snaps
  BY DEF CodexDropped
<1>4. FormInv'
  BY <1>1, <1>3 DEF FormInv
<1> QED
  BY <1>2, <1>4

\* The snapshots after the batch at the head was inserted.
LEMMA InsertType ==
    ASSUME TypeOK, NEW b \in Batch, b.first <= Len(snaps)
    PROVE  /\ insert_snapshots(b) \in Seq(Nat)
           /\ Len(insert_snapshots(b)) = IF Len(snaps) <= b.first + Len(b.cums)
                                         THEN b.first + Len(b.cums) ELSE Len(snaps)
           /\ \A k \in 1..Len(insert_snapshots(b)) : insert_snapshots(b)[k] =
                 IF k \in b.first+1..b.first+Len(b.cums) THEN b.cums[k - b.first] ELSE snaps[k]
<1> DEFINE N == Max({Len(snaps), b.first + Len(b.cums)})
           at(k) == IF k \in b.first+1..b.first+Len(b.cums) THEN b.cums[k - b.first] ELSE snaps[k]
<1>1. /\ snaps \in Seq(Nat) /\ b.cums \in Seq(Nat) /\ b.first \in Nat
      /\ Len(snaps) \in Nat /\ Len(b.cums) \in Nat
  BY DEF TypeOK, Batch
<1>2. N = (IF Len(snaps) <= b.first + Len(b.cums) THEN b.first + Len(b.cums) ELSE Len(snaps)) /\ N \in Nat
  <2>1. b.first + Len(b.cums) \in Nat
    BY <1>1
  <2> QED
    BY <1>1, <2>1, MaxNat
<1>3. ASSUME NEW k \in 1..N PROVE at(k) \in Nat
  <2>1. CASE k \in b.first+1..b.first+Len(b.cums)
    <3>1. k - b.first \in 1..Len(b.cums)
      BY <1>1, <2>1
    <3>2. b.cums[k - b.first] \in Nat
      BY <1>1, <3>1
    <3> QED
      BY <2>1, <3>2
  <2>2. CASE k \notin b.first+1..b.first+Len(b.cums)
    <3>1. k \in 1..Len(snaps)
      BY <1>1, <1>2, <2>2
    <3> QED
      BY <1>1, <2>2, <3>1
  <2> QED
    BY <2>1, <2>2
<1>4. insert_snapshots(b) = [k \in 1..N |-> at(k)]
  BY DEF insert_snapshots
<1> HIDE DEF N, at
<1>5. [k \in 1..N |-> at(k)] \in Seq(Nat) /\ Len([k \in 1..N |-> at(k)]) = N
  BY <1>2, <1>3
<1>6. insert_snapshots(b) \in Seq(Nat) /\ Len(insert_snapshots(b)) = N
  BY <1>4, <1>5
<1>7. \A k \in 1..N : insert_snapshots(b)[k] = at(k)
  BY <1>4
<1> QED
  BY <1>2, <1>6, <1>7 DEF at

\* What is inserted for the batch at the head.
New == queue[1].events \ events
Worth == [e \in New |-> e[3]]

LEMMA CommitDoes ==
    ASSUME TypeOK, CodexCommit
    PROVE  /\ queue # <<>> /\ queue' = Tail(queue)
           /\ events' = events \cup New /\ stored' = stored + SumOver(Worth, New)
           /\ snaps' = insert_snapshots(queue[1])
           /\ ckpt' = [inc |-> queue[1].inc, off |-> queue[1].off]
           /\ totals' = [totals EXCEPT ![queue[1].inc] = Max({totals[queue[1].inc], LastOf(queue[1].cums)})]
           /\ stale' = (stale \/ (/\ queue[1].reset \/ queue[1].cums # <<>>
                                 /\ Len(snaps) > queue[1].first + Len(queue[1].cums)))
           /\ UNCHANGED <<agent, claudeVars, files, inc>>
<1>1. queue # <<>>
  BY DEF CodexCommit
<1>2. Head(queue) = queue[1]
  BY <1>1, TailOf
<1> QED
  BY <1>2 DEF CodexCommit, New, Worth

LEMMA NewType ==
    ASSUME TypeOK, FormInv, queue # <<>>
    PROVE  /\ New \in SUBSET Event /\ IsFiniteSet(New)
           /\ \A e \in New : Worth[e] \in Nat
           /\ SumOver(Worth, New) \in Nat /\ IntOn(Worth, New)
<1>1. 1 \in DOMAIN queue /\ queue[1] \in Batch
  BY TailOf
<1>2. New \in SUBSET Event /\ IsFiniteSet(New)
  BY <1>1, FS_Subset DEF New, Batch, FormInv
<1>3. \A e \in New : Worth[e] \in Nat
  BY <1>2 DEF Worth, Event
<1>4. SumOver(Worth, New) \in Nat
  BY <1>2, <1>3, SumNat
<1> QED
  BY <1>2, <1>3, <1>4 DEF IntOn

LEMMA TypeCommit ==
    ASSUME TypeOK, FormInv, CodexCommit
    PROVE  TypeOK' /\ FormInv'
<1>0. queue # <<>> /\ queue' = Tail(queue)
  BY CommitDoes
<1> DEFINE b == queue[1]
<1>1. /\ b \in Batch /\ b.first <= Len(snaps) /\ b.cums \in Seq(Nat)
      /\ b.inc \in Files /\ b.off \in Nat
  BY <1>0, TailOf DEF FormInv, Batch
<1>2. /\ queue' \in Seq(Batch)
      /\ \A i \in DOMAIN queue' : i + 1 \in DOMAIN queue /\ queue'[i] = queue[i + 1]
  BY <1>0, TailOf
<1> HIDE DEF b
<1>3. snaps' \in Seq(Nat) /\ Len(snaps') >= Len(snaps)
  <2>1. snaps' = insert_snapshots(b)
    BY CommitDoes DEF b
  <2>2. Len(snaps) \in Nat /\ Len(b.cums) \in Nat /\ b.first \in Nat
    BY <1>1 DEF TypeOK, Batch
  <2> QED
    BY <1>1, <2>1, <2>2, InsertType
<1>4. totals' \in [Files -> Nat]
  <2>1. LastOf(b.cums) \in Nat
    BY <1>1, LastOfType
  <2>2. Max({totals[b.inc], LastOf(b.cums)}) \in Nat
    <3>1. totals[b.inc] \in Nat
      BY <1>1 DEF TypeOK
    <3> QED
      BY <2>1, <3>1, MaxNat
  <2>3. totals' = [totals EXCEPT ![b.inc] = Max({totals[b.inc], LastOf(b.cums)})]
    BY CommitDoes DEF b
  <2> QED
    BY <2>2, <2>3 DEF TypeOK
<1>5. stored' \in Nat /\ events' \subseteq Event
  <2>1. New \in SUBSET Event /\ SumOver(Worth, New) \in Nat
    BY <1>0, NewType
  <2>2. events' = events \cup New /\ stored' = stored + SumOver(Worth, New)
    BY CommitDoes
  <2>3. stored \in Nat /\ events \subseteq Event
    BY DEF TypeOK
  <2> QED
    BY <2>1, <2>2, <2>3
<1>6. ckpt' \in [inc : Files, off : Nat]
  BY <1>1, CommitDoes DEF b
<1>7. stale' \in BOOLEAN
  BY CommitDoes DEF TypeOK
<1>8. UNCHANGED <<agent, claudeVars, files, inc>>
  BY CommitDoes
<1>9. TypeOK'
  BY <1>2, <1>3, <1>4, <1>5, <1>6, <1>7, <1>8 DEF TypeOK, claudeVars
<1>10. FormInv'
  <2> SUFFICES ASSUME NEW i \in DOMAIN queue'
               PROVE  IsFiniteSet(queue'[i].events) /\ queue'[i].first <= Len(snaps')
    BY DEF FormInv
  <2>1. i + 1 \in DOMAIN queue /\ queue'[i] = queue[i + 1]
    BY <1>2
  <2>2. queue[i + 1].first \in Nat /\ Len(snaps) \in Nat /\ Len(snaps') \in Nat
    <3>1. queue \in Seq(Batch) /\ snaps \in Seq(Nat)
      BY DEF TypeOK
    <3>2. queue[i + 1] \in Batch
      BY <2>1, <3>1
    <3> QED
      BY <1>3, <3>1, <3>2 DEF Batch
  <2> QED
    BY <1>3, <2>1, <2>2 DEF FormInv
<1> QED
  BY <1>9, <1>10

\* A Claude batch.
LEMMA ClaudeKeeps ==
    ASSUME TypeOK, FormInv, ClaudeInv, NEW n \in 1..MaxBatch, NEW batch \in [1..n -> Line], ClaudeBatch(batch)
    PROVE  TypeOK' /\ FormInv' /\ ClaudeInv'
<1> DEFINE st == upsert_usage_events_dedup_aware(batch)
<1>0. n \in Nat /\ seen \in SUBSET Line
  BY LedgerAssumption DEF TypeOK
<1>1. Ledger(st, seen \cup ToSet(batch))
  BY <1>0, BatchKeeps DEF ClaudeInv
<1>2. /\ rows' = st.rows /\ roll' = st.roll /\ count' = st.count
      /\ seen' = seen \cup ToSet(batch) /\ batches' = batches + 1
      /\ UNCHANGED <<agent, codexVars>>
  BY DEF ClaudeBatch
<1> HIDE DEF st
<1>3. /\ Start'.rows = st.rows /\ Start'.roll = st.roll /\ Start'.count = st.count
  BY <1>2 DEF Start
<1>4. ClaudeInv'
  BY <1>1, <1>2, <1>3 DEF ClaudeInv, Ledger
<1>5. ToSet(batch) \subseteq Line
  BY DEF ToSet
<1>6. TypeOK'
  BY <1>0, <1>1, <1>2, <1>5 DEF TypeOK, Ledger, codexVars
<1>7. FormInv'
  BY <1>2 DEF FormInv, codexVars
<1> QED
  BY <1>4, <1>6, <1>7

LEMMA ClaudeUntouched == ASSUME ClaudeInv, UNCHANGED claudeVars PROVE ClaudeInv'
  BY DEF ClaudeInv, claudeVars, Start

LEMMA InitTypes == Init => TypeOK /\ FormInv /\ ClaudeInv
<1> SUFFICES ASSUME Init PROVE TypeOK /\ FormInv /\ ClaudeInv
  OBVIOUS
<1>1. 0 \in Files
  BY LedgerAssumption DEF Files
<1>2. TypeOK
  BY <1>1 DEF Init, TypeOK
<1>3. FormInv
  BY DEF Init, FormInv
<1>4. SumOver(roll, Buckets) = SumOver(TotalOf, rows)
  <2>1. IntOn(roll, Buckets) /\ \A x \in Buckets : roll[x] = 0
    BY DEF Init, IntOn
  <2>2. IsFiniteSet(Buckets) /\ Buckets \in SUBSET Buckets /\ Buckets \ Buckets = {}
    BY LedgerAssumption
  <2>3. SumOver(roll, Buckets) = SumOver(roll, {})
    BY <2>1, <2>2, SumZeros
  <2> QED
    BY <2>3, SumEmpty DEF Init
<1>5. IsFiniteSet({})
  BY FS_EmptySet
<1>6. OneRow({}, {}) /\ BestRow({}, {})
  BY DEF OneRow, BestRow
<1>7. ClaudeInv
  BY <1>4, <1>5, <1>6 DEF ClaudeInv, Ledger, Start, Init
<1> QED
  BY <1>2, <1>3, <1>7

Types == TypeOK /\ FormInv /\ ClaudeInv

LEMMA StepTypes == Types /\ [Next]_vars => Types'
<1> SUFFICES ASSUME TypeOK, FormInv, ClaudeInv, [Next]_vars PROVE TypeOK' /\ FormInv' /\ ClaudeInv'
  BY DEF Types
<1>1. ASSUME NEW n \in 1..MaxBatch, NEW batch \in [1..n -> Line], ClaudeBatch(batch)
      PROVE  TypeOK' /\ FormInv' /\ ClaudeInv'
  BY <1>1, ClaudeKeeps
<1>2. ASSUME NEW amount \in Amounts, NEW explicit \in BOOLEAN, CodexWrites(amount, explicit)
      PROVE  TypeOK' /\ FormInv' /\ ClaudeInv'
  <2>1. TypeOK' /\ FormInv'
    BY <1>2, WritesLine, TypeAppends DEF CodexWrites
  <2>2. UNCHANGED claudeVars
    BY <1>2 DEF CodexWrites, CodexAppends
  <2> QED
    BY <2>1, <2>2, ClaudeUntouched
<1>3. ASSUME NEW kind \in {"other", "empty"}, CodexWritesOther(kind)
      PROVE  TypeOK' /\ FormInv' /\ ClaudeInv'
  <2>1. TypeOK' /\ FormInv'
    BY <1>3, OtherLine, TypeAppends DEF CodexWritesOther
  <2>2. UNCHANGED claudeVars
    BY <1>3 DEF CodexWritesOther, CodexAppends
  <2> QED
    BY <2>1, <2>2, ClaudeUntouched
<1>4. CASE CodexRestarts
  BY <1>4, TypeRestarts, ClaudeUntouched DEF CodexRestarts
<1>5. CASE CodexRead
  BY <1>5, TypeRead, ClaudeUntouched DEF CodexRead
<1>6. CASE CodexCommit
  BY <1>6, TypeCommit, ClaudeUntouched DEF CodexCommit
<1>7. CASE CodexDropped
  BY <1>7, TypeDropped, ClaudeUntouched DEF CodexDropped
<1>8. CASE UNCHANGED vars
  <2>1. UNCHANGED claudeVars /\ UNCHANGED codexVars /\ UNCHANGED agent
    BY <1>8 DEF vars
  <2>2. TypeOK' /\ FormInv'
    BY <2>1 DEF TypeOK, FormInv, claudeVars, codexVars
  <2> QED
    BY <2>1, <2>2, ClaudeUntouched
<1> QED
  BY <1>1, <1>2, <1>3, <1>4, <1>5, <1>6, <1>7, <1>8 DEF Next

LEMMA TypesHold == Spec => []Types
<1>1. Init => Types
  BY InitTypes DEF Types
<1> QED
  BY <1>1, StepTypes, PTL DEF Spec

\* The variables stay in their types: no amount stored and no snapshot is
\* negative, and the snapshots of a session have no gap (insert_snapshots).
THEOREM TypeCorrect == Spec => []TypeOK
<1>1. Types => TypeOK
  BY DEF Types
<1> QED
  BY <1>1, TypesHold, PTL

LEMMA BestLine == Types => BestLineWins
<1> SUFFICES ASSUME TypeOK, ClaudeInv PROVE BestLineWins
  BY DEF Types
<1>0. rows \subseteq Line /\ seen \subseteq Line /\ OneRow(rows, seen) /\ BestRow(rows, seen)
  BY DEF TypeOK, ClaudeInv, Ledger, Start
<1> SUFFICES ASSUME NEW m \in {l.msg : l \in seen}
             PROVE  LET mine == {l \in seen : l.msg = m}
                        kept == {r \in rows : r.msg = m}
                        best == {l \in mine : l.side => \A y \in mine : y.side}
                    IN  /\ Cardinality(kept) = 1
                        /\ \A r \in kept : /\ \E l \in best : r.side = l.side
                                           /\ r.total = Max({l.total : l \in best})
  BY DEF BestLineWins
<1> DEFINE mine == {l \in seen : l.msg = m}
           kept == {r \in rows : r.msg = m}
           best == {l \in mine : l.side => \A y \in mine : y.side}
<1>1. PICK r \in rows : r.msg = m
  <2>1. PICK x \in seen : x.msg = m
    OBVIOUS
  <2> QED
    BY <1>0, <2>1 DEF OneRow
<1>2. kept = {r}
  BY <1>0, <1>1 DEF OneRow
<1>3. Cardinality(kept) = 1
  BY <1>2, FS_Singleton
<1>4. PICK w \in seen : w.msg = r.msg /\ w.side = r.side /\ w.total = r.total
  BY <1>0 DEF BestRow
<1>5. \A l \in mine : (r.side => l.side) /\ (l.side = r.side => l.total <= r.total)
  BY <1>0, <1>1 DEF BestRow
<1>6. w \in best
  BY <1>1, <1>4, <1>5
<1>7. ASSUME NEW l \in best PROVE l.side = r.side
  <2>1. l \in mine /\ w \in mine /\ l.side \in BOOLEAN /\ r.side \in BOOLEAN
    BY <1>0, <1>1, <1>4 DEF Line
  <2>2. r.side => l.side
    BY <1>5, <2>1
  <2>3. l.side => w.side
    BY <2>1
  <2> QED
    BY <1>4, <2>1, <2>2, <2>3
<1>8. Max({l.total : l \in best}) = r.total
  <2> DEFINE amounts == {l.total : l \in best}
  <2>1. amounts \in SUBSET Int
    <3>1. ASSUME NEW l \in best PROVE l.total \in Int
      <4>1. l \in Line
        BY <1>0
      <4> QED
        BY <4>1 DEF Line, Tokens
    <3> QED
      BY <3>1
  <2>2. r.total \in amounts
    BY <1>4, <1>6
  <2>3. \A a \in amounts : a <= r.total
    BY <1>5, <1>7
  <2> HIDE DEF amounts
  <2>4. Max(amounts) = r.total
    BY <2>1, <2>2, <2>3, MaxOf
  <2> QED
    BY <2>4 DEF amounts
<1>9. \E l \in best : r.side = l.side
  BY <1>4, <1>6
<1> QED
  BY <1>2, <1>3, <1>8, <1>9

\* Whatever the order and the batches in which the lines of a message arrive,
\* one row is left for it, of the best class and with the most tokens of that
\* class (new_beats_existing, upsert_by_id).
THEOREM OneBestRow == Spec => []BestLineWins
  BY BestLine, TypesHold, PTL

LEMMA TokensSum == Types => TokensFollowRows
<1> SUFFICES ASSUME TypeOK, ClaudeInv PROVE TokensFollowRows
  BY DEF Types
<1>1. rows \subseteq Line /\ IsFiniteSet(rows) /\ SumOver(roll, Buckets) = SumOver(TotalOf, rows)
  BY DEF TypeOK, ClaudeInv, Ledger, Start
<1> DEFINE f == [r \in rows |-> r.total]
<1>2. \A r \in rows : TotalOf[r] = f[r] /\ TotalOf[r] \in Int
  BY <1>1, LedgerAssumption DEF TotalOf, Line, Tokens
<1>3. IntOn(TotalOf, rows)
  BY <1>2 DEF IntOn
<1> HIDE DEF f
<1>4. SumOver(TotalOf, rows) = SumOver(f, rows)
  BY <1>1, <1>2, <1>3, SumSame
<1> QED
  BY <1>1, <1>4 DEF TokensFollowRows, f

\* The rollups end at the totals of the rows, whatever rows were displaced on
\* the way (compute_delta).
THEOREM RollupsFollow == Spec => []TokensFollowRows
  BY TokensSum, TypesHold, PTL

-----------------------------------------------------------------------------
(* Codex: the running totals of a file f.                                   *)

\* The total after i lines, and what line i adds to it.
Cum(f, i) == IF i = 0 THEN 0 ELSE f[i].cum
Amount(f, i) == Cum(f, i) - Cum(f, i - 1)

\* The lines that add to the total.
Written(f) == {i \in DOMAIN f : f[i].kind = "total" /\ Cum(f, i - 1) < Cum(f, i)}

\* A total of the file, as far as it is written.
IsTotal(f, c) == c = 0 \/ \E i \in Written(f) : Cum(f, i) = c

GoodFile(f) ==
    \A i \in DOMAIN f :
        /\ Cum(f, i - 1) <= Cum(f, i)
        /\ IF f[i].kind # "total" THEN Cum(f, i) = Cum(f, i - 1)
           ELSE f[i].delta \in {-1, Amount(f, i)}

LEMMA CumType ==
    ASSUME NEW f \in Seq(CodexLine)
    PROVE  Len(f) \in Nat /\ \A i \in 0..Len(f) : Cum(f, i) \in Nat
<1>1. Len(f) \in Nat /\ \A i \in 1..Len(f) : f[i] \in CodexLine
  OBVIOUS
<1>2. \A i \in 1..Len(f) : f[i].cum \in Nat
  BY <1>1 DEF CodexLine
<1>3. ASSUME NEW i \in 0..Len(f) PROVE Cum(f, i) \in Nat
  <2>1. CASE i = 0
    BY <2>1 DEF Cum
  <2>2. CASE i # 0
    BY <1>1, <1>2, <2>2 DEF Cum
  <2> QED
    BY <2>1, <2>2
<1> QED
  BY <1>1, <1>3

LEMMA WrittenType ==
    ASSUME NEW f \in Seq(CodexLine)
    PROVE  /\ Written(f) \in SUBSET (1..Len(f))
           /\ \A i \in Written(f) : /\ i \in Nat /\ 1 <= i /\ i <= Len(f)
                                    /\ i \in 0..Len(f) /\ i - 1 \in 0..Len(f)
                                    /\ Cum(f, i) \in Nat /\ Cum(f, i - 1) \in Nat
<1>0. Len(f) \in Nat /\ DOMAIN f = 1..Len(f)
  OBVIOUS
<1>1. Written(f) \in SUBSET (1..Len(f))
  BY <1>0 DEF Written
<1>2. ASSUME NEW i \in Written(f)
      PROVE  i \in Nat /\ 1 <= i /\ i <= Len(f) /\ i \in 0..Len(f) /\ i - 1 \in 0..Len(f)
  <2>1. i \in 1..Len(f)
    BY <1>1
  <2> QED
    BY <1>0, <2>1
<1> QED
  BY <1>1, <1>2, CumType

LEMMA CumStep ==
    ASSUME NEW f \in Seq(CodexLine), GoodFile(f), NEW i \in Nat, i + 1 <= Len(f)
    PROVE  /\ Cum(f, i) \in Nat /\ Cum(f, i + 1) \in Nat
           /\ IF i + 1 \in Written(f) THEN Cum(f, i) < Cum(f, i + 1) ELSE Cum(f, i + 1) = Cum(f, i)
<1>1. Len(f) \in Nat /\ DOMAIN f = 1..Len(f)
  OBVIOUS
<1>2. i \in 0..Len(f) /\ i + 1 \in 0..Len(f) /\ i + 1 \in DOMAIN f /\ (i + 1) - 1 = i
  BY <1>1
<1>3. Cum(f, i) \in Nat /\ Cum(f, i + 1) \in Nat
  BY <1>2, CumType
<1>4. Cum(f, i) <= Cum(f, i + 1) /\ (f[i + 1].kind # "total" => Cum(f, i + 1) = Cum(f, i))
  BY <1>2 DEF GoodFile
<1> QED
  BY <1>2, <1>3, <1>4 DEF Written

\* The totals grow.
LEMMA CumMono ==
    ASSUME NEW f \in Seq(CodexLine), GoodFile(f),
           NEW i \in 0..Len(f), NEW j \in 0..Len(f), i <= j
    PROVE  Cum(f, i) <= Cum(f, j)
<1> DEFINE G == {d \in Nat : i + d <= Len(f) => Cum(f, i) <= Cum(f, i + d)}
<1>0. Len(f) \in Nat /\ i \in Nat /\ j \in Nat /\ Cum(f, i) \in Nat
  BY CumType
<1>1. 0 \in G
  BY <1>0
<1>2. ASSUME NEW d \in Nat, d \in G PROVE d + 1 \in G
  <2> SUFFICES ASSUME i + (d + 1) <= Len(f) PROVE Cum(f, i) <= Cum(f, i + (d + 1))
    OBVIOUS
  <2>1. i + d \in Nat /\ (i + d) + 1 = i + (d + 1) /\ (i + d) + 1 <= Len(f) /\ i + d <= Len(f)
    BY <1>0
  <2>2. Cum(f, i) <= Cum(f, i + d)
    BY <1>2, <2>1
  <2>3. /\ Cum(f, i + d) \in Nat /\ Cum(f, i + (d + 1)) \in Nat
        /\ Cum(f, i + d) <= Cum(f, i + (d + 1))
    BY <2>1, CumStep
  <2> QED
    BY <1>0, <2>2, <2>3
<1>3. \A d \in Nat : d \in G
  <2>1. G \in SUBSET Nat
    OBVIOUS
  <2> HIDE DEF G
  <2> QED
    BY <1>1, <1>2, <2>1, NatInduct
<1>4. j - i \in Nat /\ i + (j - i) = j /\ j <= Len(f)
  BY <1>0
<1>5. j - i \in G
  BY <1>3, <1>4
<1> QED
  BY <1>4, <1>5

\* A line that adds to the total is above the ones before it.
LEMMA CumOrder ==
    ASSUME NEW f \in Seq(CodexLine), GoodFile(f), NEW i \in 0..Len(f), NEW j \in Written(f)
    PROVE  j <= i <=> Cum(f, j) <= Cum(f, i)
<1>0. /\ Len(f) \in Nat /\ j \in Nat /\ j >= 1 /\ j \in 0..Len(f) /\ j - 1 \in 0..Len(f)
      /\ Cum(f, j) \in Nat /\ Cum(f, j - 1) \in Nat /\ Cum(f, i) \in Nat /\ i \in Nat
  BY CumType, WrittenType
<1>1. CASE j <= i
  BY <1>0, <1>1, CumMono
<1>2. CASE ~(j <= i)
  <2>1. i <= j - 1 /\ j - 1 \in Nat /\ (j - 1) + 1 = j /\ j <= Len(f)
    BY <1>0, <1>2
  <2>2. Cum(f, i) <= Cum(f, j - 1)
    BY <1>0, <2>1, CumMono
  <2>3. Cum(f, j - 1) < Cum(f, j)
    BY <2>1, CumStep
  <2> QED
    BY <1>0, <1>2, <2>2, <2>3
<1> QED
  BY <1>1, <1>2

\* A bound of the lines that add to it bounds the total.
LEMMA CumBound ==
    ASSUME NEW f \in Seq(CodexLine), GoodFile(f), NEW m \in 0..Len(f), NEW t \in Nat,
           \A i \in Written(f) : i <= m => Cum(f, i) <= t
    PROVE  Cum(f, m) <= t
<1> DEFINE G == {n \in Nat : n <= m => Cum(f, n) <= t}
<1>0. Len(f) \in Nat /\ m \in Nat /\ m <= Len(f)
  BY CumType
<1>1. 0 \in G
  BY DEF Cum
<1>2. ASSUME NEW n \in Nat, n \in G PROVE n + 1 \in G
  <2> SUFFICES ASSUME n + 1 <= m PROVE Cum(f, n + 1) <= t
    OBVIOUS
  <2>1. n + 1 <= Len(f) /\ n <= m
    BY <1>0
  <2>2. Cum(f, n) <= t
    BY <1>2, <2>1
  <2>3. IF n + 1 \in Written(f) THEN Cum(f, n) < Cum(f, n + 1) ELSE Cum(f, n + 1) = Cum(f, n)
    BY <2>1, CumStep
  <2> QED
    BY <2>2, <2>3
<1>3. \A n \in Nat : n \in G
  <2>1. G \in SUBSET Nat
    OBVIOUS
  <2> HIDE DEF G
  <2> QED
    BY <1>1, <1>2, <2>1, NatInduct
<1> QED
  BY <1>0, <1>3

LEMMA CumIsTotal ==
    ASSUME NEW f \in Seq(CodexLine), GoodFile(f), NEW m \in 0..Len(f)
    PROVE  IsTotal(f, Cum(f, m))
<1> DEFINE G == {n \in Nat : n <= Len(f) => IsTotal(f, Cum(f, n))}
<1>0. Len(f) \in Nat /\ m \in Nat /\ m <= Len(f)
  BY CumType
<1>1. 0 \in G
  BY DEF Cum, IsTotal
<1>2. ASSUME NEW n \in Nat, n \in G PROVE n + 1 \in G
  <2> SUFFICES ASSUME n + 1 <= Len(f) PROVE IsTotal(f, Cum(f, n + 1))
    OBVIOUS
  <2>1. IsTotal(f, Cum(f, n))
    BY <1>0, <1>2
  <2>2. n + 1 \notin Written(f) => Cum(f, n + 1) = Cum(f, n)
    BY CumStep
  <2> QED
    BY <2>1, <2>2 DEF IsTotal
<1>3. \A n \in Nat : n \in G
  <2>1. G \in SUBSET Nat
    OBVIOUS
  <2> HIDE DEF G
  <2> QED
    BY <1>1, <1>2, <2>1, NatInduct
<1> QED
  BY <1>0, <1>3

\* What it adds.
LEMMA AmountOf ==
    ASSUME NEW f \in Seq(CodexLine), NEW i \in Written(f)
    PROVE  Amount(f, i) \in Nat /\ Amount(f, i) # 0
<1>1. Cum(f, i) \in Nat /\ Cum(f, i - 1) \in Nat
  BY WrittenType
<1>2. Cum(f, i - 1) < Cum(f, i)
  BY DEF Written
<1> QED
  BY <1>1, <1>2 DEF Amount

LEMMA TotalAt ==
    ASSUME NEW f \in Seq(CodexLine), NEW c, IsTotal(f, c)
    PROVE  c \in Nat /\ \E n \in 0..Len(f) : Cum(f, n) = c /\ (n = 0 \/ n \in Written(f))
<1>1. CASE c = 0
  BY <1>1, CumType DEF Cum
<1>2. CASE c # 0
  BY <1>2, WrittenType DEF IsTotal
<1> QED
  BY <1>1, <1>2

\* No total lies between a line and the one before it.
LEMMA TotalBefore ==
    ASSUME NEW f \in Seq(CodexLine), GoodFile(f), NEW c, IsTotal(f, c),
           NEW i \in Written(f), c < Cum(f, i)
    PROVE  c <= Cum(f, i - 1)
<1>0. i - 1 \in 0..Len(f) /\ i \in 0..Len(f) /\ Cum(f, i - 1) \in Nat /\ Cum(f, i) \in Nat /\ i \in Nat
  BY WrittenType
<1>1. PICK n \in 0..Len(f) : Cum(f, n) = c
  BY TotalAt
<1>2. ~(i <= n)
  <2>1. ~(Cum(f, i) <= Cum(f, n))
    BY <1>0, <1>1, TotalAt
  <2> QED
    BY <2>1, CumOrder
<1>3. n <= i - 1
  BY <1>0, <1>2
<1> QED
  BY <1>0, <1>1, <1>3, CumMono

\* The event of a line with the amount the agent spent on it.
Exact(k, f, i) == <<k, i, Amount(f, i)>>

\* Those of the first n lines that are above a total t.
Above(k, f, t, n) == {Exact(k, f, i) : i \in {j \in Written(f) : j <= n /\ t < Cum(f, j)}}

LEMMA AboveNext ==
    ASSUME NEW f \in Seq(CodexLine), NEW k, NEW t, NEW n \in Nat
    PROVE  /\ Above(k, f, t, 0) = {}
           /\ Exact(k, f, n + 1) \notin Above(k, f, t, n)
           /\ n + 1 \in Written(f) /\ t < Cum(f, n + 1) =>
                 Above(k, f, t, n + 1) = Above(k, f, t, n) \cup {Exact(k, f, n + 1)}
           /\ ~(n + 1 \in Written(f) /\ t < Cum(f, n + 1)) =>
                 Above(k, f, t, n + 1) = Above(k, f, t, n)
<1> DEFINE J(m) == {j \in Written(f) : j <= m /\ t < Cum(f, j)}
<1>0. \A j \in Written(f) : j \in Nat /\ 1 <= j
  BY WrittenType
<1>1. ASSUME NEW j \in Written(f) PROVE ~(j <= 0) /\ (j <= n + 1 <=> (j <= n \/ j = n + 1))
  <2>1. j \in Nat /\ 1 <= j
    BY <1>0
  <2> QED
    BY <2>1
<1>2. ~(n + 1 <= n) /\ n + 1 <= n + 1
  OBVIOUS
<1>3. J(0) = {}
  BY <1>1
<1>4. n + 1 \notin J(n)
  BY <1>2
<1>5. J(n + 1) = IF n + 1 \in Written(f) /\ t < Cum(f, n + 1) THEN J(n) \cup {n + 1} ELSE J(n)
  BY <1>1, <1>2
<1>6. \A m : Above(k, f, t, m) = {Exact(k, f, i) : i \in J(m)}
  BY DEF Above
<1>7. \A i, j : Exact(k, f, i) = Exact(k, f, j) => i = j
  BY DEF Exact
<1> HIDE DEF J
<1>8. Above(k, f, t, 0) = {}
  BY <1>3, <1>6
<1>9. Exact(k, f, n + 1) \notin Above(k, f, t, n)
  BY <1>4, <1>6, <1>7
<1>10. ASSUME n + 1 \in Written(f) /\ t < Cum(f, n + 1)
       PROVE  Above(k, f, t, n + 1) = Above(k, f, t, n) \cup {Exact(k, f, n + 1)}
  <2>1. J(n + 1) = J(n) \cup {n + 1}
    BY <1>5, <1>10
  <2> QED
    BY <1>6, <2>1
<1>11. ASSUME ~(n + 1 \in Written(f) /\ t < Cum(f, n + 1))
       PROVE  Above(k, f, t, n + 1) = Above(k, f, t, n)
  <2>1. J(n + 1) = J(n)
    BY <1>5, <1>11
  <2> QED
    BY <1>6, <2>1
<1> QED
  BY <1>8, <1>9, <1>10, <1>11

\* The amounts above a total that was reached add up to what is missing.
LEMMA Telescope ==
    ASSUME NEW f \in Seq(CodexLine), GoodFile(f), NEW t, IsTotal(f, t), NEW k, NEW g,
           NEW m \in 0..Len(f), t <= Cum(f, m),
           \A i \in Written(f) : i <= m /\ t < Cum(f, i) => g[Exact(k, f, i)] = Amount(f, i)
    PROVE  IsFiniteSet(Above(k, f, t, m)) /\ SumOver(g, Above(k, f, t, m)) = Cum(f, m) - t
<1> DEFINE A(n) == Above(k, f, t, n)
           G == {n \in Nat : n <= m =>
                    /\ IsFiniteSet(A(n)) /\ IntOn(g, A(n))
                    /\ SumOver(g, A(n)) = IF t < Cum(f, n) THEN Cum(f, n) - t ELSE 0}
<1>0. Len(f) \in Nat /\ m \in Nat /\ m <= Len(f) /\ t \in Nat
  BY CumType, TotalAt
<1>1. 0 \in G
  <2>1. A(0) = {} /\ Cum(f, 0) = 0
    BY AboveNext DEF Cum
  <2>2. IsFiniteSet({}) /\ IntOn(g, {}) /\ SumOver(g, {}) = 0 /\ ~(t < 0)
    BY <1>0, FS_EmptySet, SumEmpty DEF IntOn
  <2> HIDE DEF A
  <2> QED
    BY <2>1, <2>2
<1>2. ASSUME NEW n \in Nat, n \in G PROVE n + 1 \in G
  <2> SUFFICES ASSUME n + 1 <= m
               PROVE  /\ IsFiniteSet(A(n + 1)) /\ IntOn(g, A(n + 1))
                      /\ SumOver(g, A(n + 1)) = IF t < Cum(f, n + 1) THEN Cum(f, n + 1) - t ELSE 0
    OBVIOUS
  <2>1. n <= m /\ n + 1 <= Len(f) /\ (n + 1) - 1 = n
    BY <1>0
  <2>2. /\ IsFiniteSet(A(n)) /\ IntOn(g, A(n))
        /\ SumOver(g, A(n)) = IF t < Cum(f, n) THEN Cum(f, n) - t ELSE 0
    BY <1>2, <2>1
  <2>3. /\ Cum(f, n) \in Nat /\ Cum(f, n + 1) \in Nat
        /\ IF n + 1 \in Written(f) THEN Cum(f, n) < Cum(f, n + 1) ELSE Cum(f, n + 1) = Cum(f, n)
    BY <2>1, CumStep
  <2>4. CASE n + 1 \in Written(f) /\ t < Cum(f, n + 1)
    <3> DEFINE e == Exact(k, f, n + 1)
    <3>1. A(n + 1) = A(n) \cup {e} /\ e \notin A(n)
      BY <2>4, AboveNext
    <3>2. g[e] = Cum(f, n + 1) - Cum(f, n)
      BY <2>1, <2>4 DEF Amount
    <3>3. t <= Cum(f, n)
      BY <2>1, <2>4, TotalBefore
    <3> HIDE DEF A, e
    <3>3a. g[e] \in Int
      BY <2>3, <3>2
    <3>4. IntOn(g, A(n) \cup {e}) /\ IsFiniteSet(A(n) \cup {e})
      BY <2>2, <3>3a, FS_AddElement DEF IntOn
    <3>5. SumOver(g, A(n) \cup {e}) = g[e] + SumOver(g, A(n))
      BY <2>2, <3>1, <3>4, SumAdd
    <3>6. g[e] + SumOver(g, A(n)) = Cum(f, n + 1) - t
      <4>1. SumOver(g, A(n)) = Cum(f, n) - t
        BY <1>0, <2>2, <2>3, <3>3
      <4> QED
        BY <1>0, <2>3, <3>2, <4>1
    <3> QED
      BY <2>4, <3>1, <3>4, <3>5, <3>6
  <2>5. CASE ~(n + 1 \in Written(f) /\ t < Cum(f, n + 1))
    <3>1. A(n + 1) = A(n)
      BY <2>5, AboveNext
    <3> HIDE DEF A
    <3>2. (IF t < Cum(f, n) THEN Cum(f, n) - t ELSE 0) = IF t < Cum(f, n + 1) THEN Cum(f, n + 1) - t ELSE 0
      BY <1>0, <2>3, <2>5
    <3> QED
      BY <2>2, <3>1, <3>2
  <2> QED
    BY <2>4, <2>5
<1>3. \A n \in Nat : n \in G
  <2>1. G \in SUBSET Nat
    OBVIOUS
  <2> HIDE DEF G
  <2> QED
    BY <1>1, <1>2, <2>1, NatInduct
<1>4. IsFiniteSet(A(m)) /\ SumOver(g, A(m)) = IF t < Cum(f, m) THEN Cum(f, m) - t ELSE 0
  BY <1>0, <1>3
<1>5. Cum(f, m) \in Nat
  BY CumType
<1> HIDE DEF A
<1>6. IsFiniteSet(A(m)) /\ SumOver(g, A(m)) = Cum(f, m) - t
  BY <1>0, <1>4, <1>5
<1> QED
  BY <1>6 DEF A

-----------------------------------------------------------------------------
(* Codex: what is stored, the checkpoint and the batches in the writer.     *)

\* A row that is worth something is of a line that is there, with its amount.
Genuine(f, e) == e[3] # 0 => e[2] \in Written(f) /\ e[3] = Amount(f, e[2])

\* The amounts of a file are stored up to a total t, and no others.
Booked(k, f, ev, t) ==
    /\ IsTotal(f, t)
    /\ \A i \in Written(f) : Exact(k, f, i) \in ev <=> Cum(f, i) <= t

StoreInv ==
    /\ \A e \in events : Genuine(files[e[1]], e)
    /\ \A k \in Files : Booked(k, files[k], events, totals[k])
    /\ \A k \in Files : k > ckpt.inc => totals[k] = 0
    /\ stored = SumOver(totals, Files)

\* The lines before a checkpoint are stored.
Resumes(f, o, t) ==
    /\ o <= Len(f)
    /\ \A i \in Written(f) : i <= o => Cum(f, i) <= t

\* The snapshot stored last is the total stored of the file of the checkpoint.
CkptInv ==
    /\ ckpt.inc <= inc
    /\ get_latest_codex_snapshot = totals[ckpt.inc]
    /\ Resumes(files[ckpt.inc], ckpt.off, totals[ckpt.inc])

\* The last total of a batch.
Top(b) == LastOf(b.cums)

\* A batch is about the file of the checkpoint or a later one, and its
\* snapshots follow those stored, or start over.
Placed(ck, n, b) ==
    /\ b.inc \in ck.inc..n
    /\ IF b.reset THEN b.first = 0 ELSE b.inc = ck.inc

\* Once it is committed, the file is stored up to its last total, or is
\* stored further already if it has none.
Covers(f, ev, t, ck, b) ==
    /\ IsTotal(f, Top(b)) /\ (b.cums # <<>> /\ b.inc = ck.inc => t <= Top(b))
    /\ \A e \in b.events : e[1] = b.inc /\ Genuine(f, e) /\ (e[3] # 0 => Cum(f, e[2]) <= Top(b))
    /\ \A i \in Written(f) :
          Cum(f, i) <= Top(b) => Exact(b.inc, f, i) \in ev \cup b.events
    /\ b.off <= Len(f)
    /\ \A i \in Written(f) : i <= b.off => Cum(f, i) <= t \/ Cum(f, i) <= Top(b)

BatchInv(b) ==
    /\ Placed(ckpt, inc, b)
    /\ Covers(files[b.inc], events, totals[b.inc], ckpt, b)

\* Later batches are of the same file or a later one, and their totals are
\* not behind.
Follows(b, d) ==
    /\ b.inc <= d.inc
    /\ b.inc = d.inc /\ d.cums # <<>> => Top(b) <= Top(d)

QueueInv ==
    /\ \A i \in DOMAIN queue : BatchInv(queue[i])
    /\ \A i, j \in DOMAIN queue : i < j => Follows(queue[i], queue[j])

FileInv == \A k \in Files : GoodFile(files[k])

CodexInv == FileInv /\ (~stale => StoreInv /\ CkptInv /\ QueueInv)

-----------------------------------------------------------------------------
(* A file grows at its end.                                                 *)

Grows(f, g) ==
    /\ Len(f) <= Len(g)
    /\ \A i \in Written(f) : i \in Written(g) /\ Cum(g, i) = Cum(f, i) /\ Amount(g, i) = Amount(f, i)
    /\ \A i \in Written(g) : i \in Written(f) \/ (i > Len(f) /\ \A c : IsTotal(f, c) => c < Cum(g, i))

LEMMA GrowsSelf == ASSUME NEW f \in Seq(CodexLine) PROVE Grows(f, f)
<1>1. Len(f) \in Nat
  OBVIOUS
<1> QED
  BY <1>1 DEF Grows

\* What the agent appends.
LEMMA GrowsAppend ==
    ASSUME NEW f \in Seq(CodexLine), GoodFile(f), NEW line \in CodexLine,
           Cum(f, Len(f)) <= line.cum,
           IF line.kind # "total" THEN line.cum = Cum(f, Len(f))
           ELSE line.delta \in {-1, line.cum - Cum(f, Len(f))}
    PROVE  GoodFile(Append(f, line)) /\ Grows(f, Append(f, line))
<1> DEFINE g == Append(f, line)
           n == Len(f)
<1>1. /\ n \in Nat /\ g \in Seq(CodexLine) /\ Len(g) = n + 1 /\ g[n + 1] = line
      /\ DOMAIN f = 1..n /\ DOMAIN g = 1..n+1 /\ \A i \in 1..n : g[i] = f[i]
  OBVIOUS
<1> HIDE DEF g, n
<1>2. \A i \in 0..n : Cum(g, i) = Cum(f, i)
  BY <1>1 DEF Cum
<1>3. Cum(g, n + 1) = line.cum /\ (n + 1) - 1 = n
  BY <1>1 DEF Cum
<1>4. \A i \in 1..n : i \in 0..n /\ i - 1 \in 0..n
  BY <1>1
<1>5. \A i \in 1..n : Amount(g, i) = Amount(f, i)
  BY <1>2, <1>4 DEF Amount
<1>6. n \in 0..n /\ Cum(g, n) = Cum(f, n) /\ Amount(g, n + 1) = line.cum - Cum(f, n)
  BY <1>1, <1>2, <1>3 DEF Amount
<1>7. GoodFile(g)
  <2> SUFFICES ASSUME NEW i \in DOMAIN g
               PROVE  /\ Cum(g, i - 1) <= Cum(g, i)
                      /\ IF g[i].kind # "total" THEN Cum(g, i) = Cum(g, i - 1)
                         ELSE g[i].delta \in {-1, Amount(g, i)}
    BY DEF GoodFile
  <2>1. CASE i \in 1..n
    <3>1. g[i] = f[i] /\ Cum(g, i) = Cum(f, i) /\ Cum(g, i - 1) = Cum(f, i - 1) /\ Amount(g, i) = Amount(f, i)
      BY <1>1, <1>2, <1>4, <1>5, <2>1
    <3> QED
      BY <1>1, <2>1, <3>1 DEF GoodFile
  <2>2. CASE i = n + 1
    BY <1>1, <1>3, <1>6, <2>2 DEF n
  <2> QED
    BY <1>1, <2>1, <2>2
<1>8. Written(f) \subseteq 1..n /\ Written(f) \subseteq Written(g)
  BY <1>1, <1>2, <1>4 DEF Written
<1>9. ASSUME NEW i \in Written(g)
      PROVE  i \in Written(f) \/ (i > n /\ \A c : IsTotal(f, c) => c < Cum(g, i))
  <2>1. CASE i \in 1..n
    BY <1>1, <1>2, <1>4, <2>1 DEF Written
  <2>2. CASE i = n + 1
    <3>1. line.cum > Cum(f, n) /\ Cum(f, n) \in Nat /\ line.cum \in Nat
      BY <1>1, <1>3, <1>6, <2>2, CumType DEF Written, n, CodexLine
    <3>2. ASSUME NEW c, IsTotal(f, c) PROVE c < Cum(g, i)
      <4>1. PICK j \in 0..n : Cum(f, j) = c
        BY <3>2, TotalAt DEF n
      <4>2. j <= n
        BY <1>1
      <4>3. Cum(f, j) <= Cum(f, n) /\ Cum(f, j) \in Nat
        BY <1>6, <4>2, CumMono, CumType DEF n
      <4> QED
        BY <1>3, <2>2, <3>1, <4>1, <4>3
    <3> QED
      BY <1>1, <2>2, <3>2
  <2> QED
    BY <1>1, <2>1, <2>2 DEF Written
<1>10. Grows(f, g)
  <2>1. n <= Len(g)
    BY <1>1
  <2>2. \A i \in Written(f) : i \in Written(g) /\ Cum(g, i) = Cum(f, i) /\ Amount(g, i) = Amount(f, i)
    BY <1>2, <1>4, <1>5, <1>8
  <2> QED
    BY <1>9, <2>1, <2>2 DEF Grows, n
<1> QED
  BY <1>7, <1>10 DEF g

LEMMA GrowsTotal ==
    ASSUME NEW f, NEW g, Grows(f, g), NEW c, IsTotal(f, c)
    PROVE  IsTotal(g, c)
  BY DEF Grows, IsTotal

LEMMA GrowsGenuine ==
    ASSUME NEW f, NEW g, Grows(f, g), NEW e, Genuine(f, e)
    PROVE  Genuine(g, e) /\ (e[3] # 0 => Cum(g, e[2]) = Cum(f, e[2]))
  BY DEF Grows, Genuine

LEMMA GrowsBooked ==
    ASSUME NEW f \in Seq(CodexLine), NEW g \in Seq(CodexLine), Grows(f, g), NEW k, NEW ev, NEW t,
           Booked(k, f, ev, t), \A e \in ev : e[1] = k => Genuine(f, e)
    PROVE  Booked(k, g, ev, t)
<1>1. IsTotal(f, t) /\ IsTotal(g, t) /\ t \in Nat
  BY GrowsTotal, TotalAt DEF Booked
<1>2. ASSUME NEW i \in Written(g) PROVE Exact(k, g, i) \in ev <=> Cum(g, i) <= t
  <2>1. CASE i \in Written(f)
    <3>1. Exact(k, g, i) = Exact(k, f, i) /\ Cum(g, i) = Cum(f, i)
      BY <2>1 DEF Grows, Exact
    <3> QED
      BY <2>1, <3>1 DEF Booked
  <2>2. CASE i \notin Written(f)
    <3>1. t < Cum(g, i) /\ Cum(g, i) \in Nat
      BY <1>1, <2>2, WrittenType DEF Grows
    <3>2. Exact(k, g, i) \notin ev
      BY <2>2, AmountOf DEF Exact, Genuine
    <3> QED
      BY <1>1, <3>1, <3>2
  <2> QED
    BY <2>1, <2>2
<1> QED
  BY <1>1, <1>2 DEF Booked

LEMMA GrowsResumes ==
    ASSUME NEW f \in Seq(CodexLine), NEW g \in Seq(CodexLine), Grows(f, g), NEW o \in Nat, NEW t, Resumes(f, o, t)
    PROVE  Resumes(g, o, t)
<1>1. o <= Len(f) /\ Len(f) <= Len(g) /\ Len(f) \in Nat /\ Len(g) \in Nat
  BY DEF Resumes, Grows
<1>2. ASSUME NEW i \in Written(g), i <= o PROVE Cum(g, i) <= t
  <2>1. i \in Nat
    BY WrittenType
  <2>2. i \in Written(f)
    BY <1>1, <1>2, <2>1 DEF Grows
  <2> QED
    BY <1>2, <2>2 DEF Grows, Resumes
<1> QED
  BY <1>1, <1>2 DEF Resumes

LEMMA GrowsCovers ==
    ASSUME NEW f \in Seq(CodexLine), NEW g \in Seq(CodexLine), Grows(f, g), NEW ev, NEW t, NEW ck,
           NEW b \in Batch, Covers(f, ev, t, ck, b)
    PROVE  Covers(g, ev, t, ck, b)
<1> DEFINE L == Top(b)
<1>1. IsTotal(f, L) /\ IsTotal(g, L) /\ L \in Nat
  BY GrowsTotal, TotalAt DEF Covers
<1>2. \A e \in b.events : e[1] = b.inc /\ Genuine(g, e) /\ (e[3] # 0 => Cum(g, e[2]) <= L)
  BY GrowsGenuine DEF Covers
<1>3. ASSUME NEW i \in Written(g), Cum(g, i) <= L PROVE Exact(b.inc, g, i) \in ev \cup b.events
  <2>1. Cum(g, i) \in Nat
    BY WrittenType
  <2>2. i \in Written(f)
    BY <1>1, <1>3, <2>1 DEF Grows
  <2>3. Exact(b.inc, g, i) = Exact(b.inc, f, i) /\ Cum(g, i) = Cum(f, i)
    BY <2>2 DEF Grows, Exact
  <2> QED
    BY <1>3, <2>2, <2>3 DEF Covers
<1>4. b.off \in Nat /\ b.off <= Len(f) /\ Len(f) <= Len(g) /\ Len(f) \in Nat /\ Len(g) \in Nat
  BY DEF Covers, Grows, Batch
<1>5. ASSUME NEW i \in Written(g), i <= b.off PROVE Cum(g, i) <= t \/ Cum(g, i) <= L
  <2>1. i \in Nat
    BY WrittenType
  <2>2. i \in Written(f)
    BY <1>4, <1>5, <2>1 DEF Grows
  <2> QED
    BY <1>5, <2>2 DEF Grows, Covers
<1>6. b.cums # <<>> /\ b.inc = ck.inc => t <= L
  BY DEF Covers
<1>7. b.off <= Len(g)
  BY <1>4
<1> QED
  BY <1>1, <1>2, <1>3, <1>5, <1>6, <1>7 DEF Covers

\* The agent writes, or starts a new file: what is stored and what is in the
\* writer stays right.
LEMMA GrowsInv ==
    ASSUME TypeOK, TypeOK', CodexInv, FileInv', \A k \in Files : Grows(files[k], files'[k]), inc <= inc',
           UNCHANGED <<ckpt, queue, snaps, events, stored, totals, stale>>
    PROVE  CodexInv'
<1> SUFFICES ASSUME ~stale PROVE StoreInv' /\ CkptInv' /\ QueueInv'
  BY DEF CodexInv
<1>1. StoreInv /\ CkptInv /\ QueueInv
  BY DEF CodexInv
<1>2. \A k \in Files : files[k] \in Seq(CodexLine) /\ files'[k] \in Seq(CodexLine)
  BY DEF TypeOK
<1>3. \A e \in events : e[1] \in Files
  BY DEF TypeOK, Event
<1>4. StoreInv'
  <2>1. \A e \in events : Genuine(files'[e[1]], e)
    BY <1>1, <1>3, GrowsGenuine DEF StoreInv
  <2>2. ASSUME NEW k \in Files PROVE Booked(k, files'[k], events, totals[k])
    <3>1. Booked(k, files[k], events, totals[k]) /\ \A e \in events : e[1] = k => Genuine(files[k], e)
      BY <1>1 DEF StoreInv
    <3> QED
      BY <1>2, <3>1, GrowsBooked
  <2>3. (\A k \in Files : k > ckpt.inc => totals[k] = 0) /\ stored = SumOver(totals, Files)
    BY <1>1 DEF StoreInv
  <2> QED
    BY <2>1, <2>2, <2>3 DEF StoreInv
<1>5. CkptInv'
  <2>1. ckpt.inc \in Files /\ ckpt.off \in Nat /\ inc \in Nat /\ inc' \in Nat /\ ckpt.inc \in Nat
    BY DEF TypeOK, Files
  <2>2. Resumes(files'[ckpt.inc], ckpt.off, totals[ckpt.inc])
    BY <1>1, <1>2, <2>1, GrowsResumes DEF CkptInv
  <2>3. ckpt.inc <= inc'
    BY <1>1, <2>1 DEF CkptInv
  <2>4. get_latest_codex_snapshot' = get_latest_codex_snapshot
    BY DEF get_latest_codex_snapshot
  <2> QED
    BY <1>1, <2>2, <2>3, <2>4 DEF CkptInv
<1>6. QueueInv'
  <2>1. ASSUME NEW i \in DOMAIN queue PROVE BatchInv(queue[i])'
    <3> DEFINE b == queue[i]
    <3>1. b \in Batch /\ b.inc \in Files /\ ckpt \in [inc : Files, off : Nat]
      <4>1. queue \in Seq(Batch) /\ ckpt \in [inc : Files, off : Nat]
        BY DEF TypeOK
      <4>2. b \in Batch
        BY <4>1
      <4> QED
        BY <4>1, <4>2 DEF Batch
    <3>2. Placed(ckpt, inc, b) /\ Covers(files[b.inc], events, totals[b.inc], ckpt, b)
      BY <1>1 DEF QueueInv, BatchInv
    <3> HIDE DEF b
    <3>3. Covers(files'[b.inc], events, totals[b.inc], ckpt, b)
      BY <1>2, <3>1, <3>2, GrowsCovers
    <3>4. Placed(ckpt, inc', b)
      <4>1. ckpt.inc \in Nat /\ inc \in Nat /\ inc' \in Nat /\ b.inc \in Nat
        BY <3>1 DEF TypeOK, Files
      <4> QED
        BY <3>2, <4>1 DEF Placed
    <3> QED
      BY <3>3, <3>4 DEF BatchInv, b
  <2>2. \A i, j \in DOMAIN queue : i < j => Follows(queue[i], queue[j])
    BY <1>1 DEF QueueInv
  <2> QED
    BY <2>1, <2>2 DEF QueueInv
<1> QED
  BY <1>4, <1>5, <1>6

LEMMA CodexAppend ==
    ASSUME TypeOK, TypeOK', CodexInv, NEW line \in CodexLine, CodexAppends(line),
           LastTotal(file) <= line.cum,
           IF line.kind # "total" THEN line.cum = LastTotal(file)
           ELSE line.delta \in {-1, line.cum - LastTotal(file)}
    PROVE  CodexInv'
<1>1. file \in Seq(CodexLine) /\ inc \in Files /\ \A k \in Files : files[k] \in Seq(CodexLine)
  BY DEF TypeOK, file
<1>2. LastTotal(file) = Cum(file, Len(file))
  BY <1>1 DEF LastTotal, Cum, Last
<1>3. GoodFile(file)
  BY <1>1 DEF CodexInv, FileInv, file
<1>4. GoodFile(Append(file, line)) /\ Grows(file, Append(file, line))
  BY <1>1, <1>2, <1>3, GrowsAppend
<1>5. files'[inc] = Append(file, line) /\ \A k \in Files : k # inc => files'[k] = files[k]
  BY DEF CodexAppends, TypeOK, file
<1>6. ASSUME NEW k \in Files PROVE Grows(files[k], files'[k]) /\ GoodFile(files'[k])
  <2>1. CASE k = inc
    BY <1>4, <1>5, <2>1 DEF file
  <2>2. CASE k # inc
    BY <1>1, <1>5, <2>2, GrowsSelf DEF CodexInv, FileInv
  <2> QED
    BY <2>1, <2>2
<1>7. FileInv'
  BY <1>6 DEF FileInv
<1>8. inc <= inc' /\ UNCHANGED <<ckpt, queue, snaps, events, stored, totals, stale>>
  BY <1>1 DEF CodexAppends, Files
<1> QED
  BY <1>6, <1>7, <1>8, GrowsInv

LEMMA CodexSameFiles ==
    ASSUME TypeOK, TypeOK', CodexInv, inc <= inc',
           UNCHANGED <<files, ckpt, queue, snaps, events, stored, totals, stale>>
    PROVE  CodexInv'
<1>1. \A k \in Files : Grows(files[k], files'[k])
  BY GrowsSelf DEF TypeOK
<1>2. FileInv'
  BY DEF CodexInv, FileInv
<1> QED
  BY <1>1, <1>2, GrowsInv

LEMMA CodexDrop ==
    ASSUME TypeOK, CodexInv, CodexDropped
    PROVE  CodexInv'
<1>1. FileInv' /\ stale' = stale
  BY DEF CodexInv, FileInv, CodexDropped
<1> SUFFICES ASSUME ~stale PROVE StoreInv' /\ CkptInv' /\ QueueInv'
  BY <1>1 DEF CodexInv
<1>2. StoreInv /\ CkptInv /\ QueueInv
  BY DEF CodexInv
<1>3. StoreInv' /\ CkptInv'
  BY <1>2 DEF StoreInv, CkptInv, CodexDropped, get_latest_codex_snapshot
<1>4. \A i \in DOMAIN queue' : i \in Nat /\ i + 1 \in DOMAIN queue /\ queue'[i] = queue[i + 1]
  <2>1. queue' = Tail(queue) /\ queue \in Seq(Batch) /\ queue # <<>>
    BY DEF CodexDropped, TypeOK
  <2> QED
    BY <2>1
<1>5. ASSUME NEW i \in DOMAIN queue' PROVE BatchInv(queue[i])'
  <2> DEFINE b == queue[i + 1]
  <2>1. queue'[i] = b
    BY <1>4
  <2>2. Placed(ckpt, inc, b) /\ Covers(files[b.inc], events, totals[b.inc], ckpt, b)
    BY <1>2, <1>4 DEF QueueInv, BatchInv
  <2>3. ckpt' = ckpt /\ inc' = inc /\ files' = files /\ events' = events /\ totals' = totals
    BY DEF CodexDropped
  <2> HIDE DEF b
  <2> QED
    BY <2>1, <2>2, <2>3 DEF BatchInv
<1>6. ASSUME NEW i \in DOMAIN queue', NEW j \in DOMAIN queue', i < j PROVE Follows(queue'[i], queue'[j])
  <2>1. i + 1 < j + 1
    BY <1>4, <1>6
  <2> QED
    BY <1>2, <1>4, <2>1 DEF QueueInv
<1>7. QueueInv'
  BY <1>5, <1>6 DEF QueueInv
<1> QED
  BY <1>3, <1>7

-----------------------------------------------------------------------------
(* A read.                                                                 *)

\* A read starts where the file is stored up to its total.
LEMMA ReadStart ==
    ASSUME TypeOK, FileInv, StoreInv, CkptInv
    PROVE  /\ file \in Seq(CodexLine) /\ GoodFile(file) /\ inc \in Files
           /\ ReadFrom \in Nat /\ totals[inc] \in Nat
           /\ Booked(inc, file, events, totals[inc]) /\ Resumes(file, ReadFrom, totals[inc])
           /\ (IF ReadReset THEN 0 ELSE get_latest_codex_snapshot) = totals[inc]
<1>1. /\ inc \in Files /\ inc \in Nat /\ file \in Seq(CodexLine) /\ totals[inc] \in Nat /\ files \in [Files -> Seq(CodexLine)]
      /\ ckpt.inc \in Files /\ ckpt.inc \in Nat /\ ckpt.off \in Nat
  <2>1. /\ inc \in Files /\ totals \in [Files -> Nat] /\ files \in [Files -> Seq(CodexLine)]
        /\ ckpt \in [inc : Files, off : Nat]
    BY DEF TypeOK
  <2>2. \A k \in Files : k \in Nat
    BY DEF Files
  <2>3. file \in Seq(CodexLine) /\ totals[inc] \in Nat
    BY <2>1 DEF file
  <2> QED
    BY <2>1, <2>2, <2>3
<1>2. GoodFile(file) /\ Booked(inc, file, events, totals[inc])
  BY <1>1 DEF FileInv, StoreInv, file
<1>3. CASE ckpt.inc = inc
  <2>1. ~ReadReset /\ ReadFrom = ckpt.off
    BY <1>3 DEF ReadReset, ReadFrom
  <2>2. Resumes(file, ckpt.off, totals[inc]) /\ get_latest_codex_snapshot = totals[inc]
    BY <1>3 DEF CkptInv, file
  <2> QED
    BY <1>1, <1>2, <2>1, <2>2
<1>4. CASE ckpt.inc # inc
  <2>1. ReadReset /\ ReadFrom = 0
    BY <1>4 DEF ReadReset, ReadFrom
  <2>2. inc > ckpt.inc
    BY <1>1, <1>4 DEF CkptInv
  <2>3. totals[inc] = 0
    BY <1>1, <2>2 DEF StoreInv
  <2>4. Resumes(file, 0, 0)
    <3>1. Len(file) \in Nat /\ \A i \in Written(file) : i \in Nat /\ 1 <= i
      BY <1>1, WrittenType
    <3>2. \A i \in Written(file) : ~(i <= 0)
      BY <3>1
    <3> QED
      BY <3>1, <3>2 DEF Resumes
  <2> QED
    BY <1>1, <1>2, <2>1, <2>3, <2>4
<1> QED
  BY <1>3, <1>4

\* The totals a read gets: those that add to it and those that do not.
LEMMA SnapsAre ==
    ASSUME TypeOK, ReadFrom \in Nat
    PROVE  /\ ReadSnaps = {i \in 1..Len(file) : file[i].kind = "total" /\ i > ReadFrom}
           /\ \A i \in Written(file) : i > ReadFrom => i \in ReadSnaps
<1>1. Len(file) \in Nat /\ DOMAIN file = 1..Len(file)
  BY FilesType
<1>2. ASSUME NEW i PROVE i \in ReadFrom+1..Len(file) <=> (i \in 1..Len(file) /\ i > ReadFrom)
  BY <1>1
<1>3. ReadSnaps = {i \in 1..Len(file) : file[i].kind = "total" /\ i > ReadFrom}
  BY <1>1, <1>2 DEF ReadSnaps, ReadLines, codex_snapshots, LinesAfter
<1> QED
  BY <1>1, <1>3 DEF Written

\* What the line before gives, or the total stored: the amount of the line,
\* or nothing for a line that is stored.
LEMMA DeltaOf ==
    ASSUME NEW f \in Seq(CodexLine), GoodFile(f), NEW i \in 1..Len(f), f[i].kind = "total", NEW p \in Nat
    PROVE  /\ Amount(f, i) \in Nat /\ Cum(f, i - 1) \in Nat /\ Cum(f, i) \in Nat
           /\ f[i].delta \in {-1, Amount(f, i)}
           /\ p = Cum(f, i - 1) => codex_snapshot_delta(f[i], p) = Amount(f, i)
           /\ Cum(f, i) <= p => codex_snapshot_delta(f[i], p) \in {0, Amount(f, i)}
<1>1. /\ i \in Nat /\ 1 <= i /\ i \in 0..Len(f) /\ i - 1 \in 0..Len(f) /\ i \in DOMAIN f
  <2>1. Len(f) \in Nat /\ DOMAIN f = 1..Len(f)
    OBVIOUS
  <2> QED
    BY <2>1
<1>2. Cum(f, i) \in Nat /\ Cum(f, i - 1) \in Nat
  BY <1>1, CumType
<1>3. Cum(f, i - 1) <= Cum(f, i) /\ f[i].delta \in {-1, Amount(f, i)}
  BY <1>1 DEF GoodFile
<1>4. f[i].cum = Cum(f, i)
  BY <1>1 DEF Cum
<1>5. Amount(f, i) = Cum(f, i) - Cum(f, i - 1) /\ Amount(f, i) \in Nat
  BY <1>2, <1>3 DEF Amount
<1>6. Cum(f, i) - p \in Int
  BY <1>2
<1>7. Max({Cum(f, i) - p, 0}) = IF Cum(f, i) - p <= 0 THEN 0 ELSE Cum(f, i) - p
  BY <1>6, MaxTwo
<1>8. CASE f[i].delta = -1
  <2>1. codex_snapshot_delta(f[i], p) = Max({Cum(f, i) - p, 0})
    BY <1>4, <1>8 DEF codex_snapshot_delta
  <2> QED
    BY <1>2, <1>3, <1>5, <1>7, <2>1
<1>9. CASE f[i].delta = Amount(f, i)
  <2>1. codex_snapshot_delta(f[i], p) = Amount(f, i)
    BY <1>5, <1>9 DEF codex_snapshot_delta
  <2> QED
    BY <1>2, <1>3, <1>5, <2>1
<1> QED
  BY <1>3, <1>8, <1>9

\* The first total after a start: the total stored is the one before it, or
\* it is stored.
LEMMA FirstLine ==
    ASSUME NEW f \in Seq(CodexLine), GoodFile(f), NEW o \in Nat, NEW t, IsTotal(f, t), Resumes(f, o, t),
           NEW i \in 1..Len(f), \A j \in Written(f) : j < i => j <= o
    PROVE  Cum(f, i) <= t \/ t = Cum(f, i - 1)
<1> SUFFICES ASSUME ~(Cum(f, i) <= t) PROVE t = Cum(f, i - 1)
  OBVIOUS
<1>1. /\ i \in Nat /\ 1 <= i /\ i - 1 \in 0..Len(f) /\ i \in 0..Len(f)
      /\ Cum(f, i) \in Nat /\ Cum(f, i - 1) \in Nat /\ t \in Nat
  <2>1. Len(f) \in Nat
    OBVIOUS
  <2>2. i \in Nat /\ 1 <= i /\ i - 1 \in 0..Len(f) /\ i \in 0..Len(f)
    BY <2>1
  <2> QED
    BY <2>2, CumType, TotalAt
<1>2. ASSUME NEW j \in Written(f), j <= i - 1 PROVE Cum(f, j) <= t
  <2>1. j \in Nat
    BY WrittenType
  <2>2. j < i
    BY <1>1, <1>2, <2>1
  <2> QED
    BY <2>2 DEF Resumes
<1>3. Cum(f, i - 1) <= t
  BY <1>1, <1>2, CumBound
<1>4. i \in Written(f)
  <2>1. i - 1 \in Nat /\ (i - 1) + 1 = i /\ i <= Len(f)
    BY <1>1
  <2>2. i \notin Written(f) => Cum(f, i) = Cum(f, i - 1)
    BY <2>1, CumStep
  <2> QED
    BY <1>3, <2>2
<1>5. t <= Cum(f, i - 1)
  BY <1>1, <1>4, TotalBefore
<1> QED
  BY <1>1, <1>3, <1>5

\* The events of a read.
LEMMA ReadEvents ==
    ASSUME TypeOK, FileInv, StoreInv, CkptInv
    PROVE  /\ \A e \in ReadBatch.events :
                 e[1] = inc /\ e[2] \in ReadSnaps /\ e[3] \in {0, Amount(file, e[2])}
           /\ \A i \in Written(file) : i \in ReadSnaps =>
                 Cum(file, i) <= totals[inc] \/ Exact(inc, file, i) \in ReadBatch.events
<1> DEFINE f == file
           t == totals[inc]
           base(i) == IF \E j \in ReadSnaps : j < i THEN file[i - 1].cum
                      ELSE IF ReadReset THEN 0 ELSE get_latest_codex_snapshot
           d(i) == codex_snapshot_delta(file[i], base(i))
           told == {i \in ReadSnaps : ~explicit_zero_component_codex_delta(file[i])}
<1>0. /\ f \in Seq(CodexLine) /\ GoodFile(f) /\ ReadFrom \in Nat /\ t \in Nat
      /\ IsTotal(f, t) /\ Resumes(f, ReadFrom, t)
      /\ (IF ReadReset THEN 0 ELSE get_latest_codex_snapshot) = t
  BY ReadStart DEF Booked
<1>1. /\ \A i \in ReadSnaps : i \in 1..Len(f) /\ f[i].kind = "total"
      /\ \A i \in Written(f) : i > ReadFrom => i \in ReadSnaps
  BY <1>0, SnapsAre
<1>2. ReadBatch.events = {<<inc, i, d(i)>> : i \in told}
  BY DEF ReadBatch, build_codex_delta_events
<1>3. ASSUME NEW i \in ReadSnaps
      PROVE  d(i) \in {0, Amount(f, i)} /\ (Cum(f, i) <= t \/ d(i) = Amount(f, i))
  <2>0. i \in 1..Len(f) /\ f[i].kind = "total"
    BY <1>1
  <2>1. i \in Nat /\ 1 <= i /\ Cum(f, i - 1) \in Nat /\ Cum(f, i) \in Nat
    BY <1>0, <2>0, DeltaOf
  <2>2. CASE \E j \in ReadSnaps : j < i
    <3>1. i - 1 # 0
      <4>1. PICK j \in ReadSnaps : j < i
        BY <2>2
      <4>2. j \in Nat /\ 1 <= j
        BY <1>0, <1>1
      <4> QED
        BY <2>1, <4>1, <4>2
    <3>2. base(i) = Cum(f, i - 1)
      BY <2>2, <3>1 DEF Cum
    <3> HIDE DEF base, f
    <3>3. codex_snapshot_delta(f[i], base(i)) = Amount(f, i)
      BY <1>0, <2>0, <2>1, <3>2, DeltaOf
    <3> QED
      BY <3>3 DEF f
  <2>3. CASE ~\E j \in ReadSnaps : j < i
    <3>1. base(i) = t
      BY <1>0, <2>3
    <3>2. ASSUME NEW j \in Written(f), j < i PROVE j <= ReadFrom
      <4>1. j \in Nat /\ ~(j > ReadFrom)
        BY <1>0, <1>1, <2>3, <3>2, WrittenType
      <4> QED
        BY <1>0, <4>1
    <3> HIDE DEF base, f, t
    <3>3. Cum(f, i) <= t \/ t = Cum(f, i - 1)
      BY <1>0, <2>0, <3>2, FirstLine
    <3>4. /\ t = Cum(f, i - 1) => codex_snapshot_delta(f[i], t) = Amount(f, i)
          /\ Cum(f, i) <= t => codex_snapshot_delta(f[i], t) \in {0, Amount(f, i)}
      BY <1>0, <2>0, DeltaOf
    <3> QED
      BY <3>1, <3>3, <3>4 DEF f
  <2> QED
    BY <2>2, <2>3
<1>4. ASSUME NEW i \in Written(f), i \in ReadSnaps PROVE i \in told
  <2>1. f[i].delta \in {-1, Amount(f, i)}
    BY <1>0, <1>1, <1>4, DeltaOf
  <2>2. Amount(f, i) # 0
    BY <1>0, AmountOf
  <2> QED
    BY <1>4, <2>1, <2>2 DEF explicit_zero_component_codex_delta
<1> HIDE DEF d, f, t
<1>5. \A e \in ReadBatch.events : e[1] = inc /\ e[2] \in ReadSnaps /\ e[3] \in {0, Amount(f, e[2])}
  BY <1>2, <1>3
<1>6. ASSUME NEW i \in Written(f), i \in ReadSnaps PROVE Cum(f, i) <= t \/ Exact(inc, f, i) \in ReadBatch.events
  <2>1. <<inc, i, d(i)>> \in ReadBatch.events
    BY <1>2, <1>4, <1>6
  <2> QED
    BY <1>3, <1>6, <2>1 DEF Exact
<1> QED
  BY <1>5, <1>6 DEF f, t

\* The offset of a read is not behind the end of the file.
LEMMA ReadOffset ==
    ASSUME TypeOK, NEW from \in Nat, from <= Len(file)
    PROVE  checkpoint_offset(from) <= Len(file)
<1> DEFINE n == Len(file)
           S == {i \in 1..n : file[i].kind # "empty"}
<1>1. n \in Nat /\ S \in SUBSET (1..n)
  BY FilesType
<1>2. LinesAfter(from) = {i \in S : i > from}
  <2>1. ASSUME NEW i PROVE i \in from+1..n <=> (i \in 1..n /\ i > from)
    BY <1>1
  <2> QED
    BY <2>1 DEF LinesAfter
<1>3. {i \in S : i > n} = {}
  <2>1. \A i \in 1..n : ~(i > n)
    BY <1>1
  <2> QED
    BY <2>1
<1> HIDE DEF n, S
<1>4. from + Cardinality({i \in S : i > from}) <= n + Cardinality({i \in S : i > n})
  BY <1>1, CountSplit DEF n
<1>5. Cardinality({i \in S : i > n}) = 0
  BY <1>3, FS_EmptySet
<1> QED
  BY <1>1, <1>2, <1>4, <1>5 DEF checkpoint_offset, n

\* The last total of a read is above every total of the file.
LEMMA ReadLast ==
    ASSUME TypeOK, FileInv, StoreInv, CkptInv, ReadSnaps # {}
    PROVE  /\ ReadBatch.cums # <<>> /\ IsTotal(file, Top(ReadBatch))
           /\ \A i \in Written(file) : Cum(file, i) <= Top(ReadBatch)
           /\ \A c : IsTotal(file, c) => c <= Top(ReadBatch)
<1>0. file \in Seq(CodexLine) /\ GoodFile(file) /\ ReadFrom \in Nat /\ Len(file) \in Nat
  BY ReadStart
<1>1. /\ ReadSnaps = {i \in 1..Len(file) : file[i].kind = "total" /\ i > ReadFrom}
      /\ \A i \in Written(file) : i > ReadFrom => i \in ReadSnaps
  BY <1>0, SnapsAre
<1>2. ReadSnaps \in SUBSET (1..Len(file))
  BY <1>1
<1>3. PICK m \in ReadSnaps : \A j \in ReadSnaps : j <= m
  BY <1>2, LastLine
<1>4. m > ReadFrom /\ m \in Nat /\ 1 <= m /\ m \in 0..Len(file)
  BY <1>0, <1>1
<1>5. Cum(file, m) \in Nat
  BY <1>0, <1>4, CumType
<1>6. ReadBatch.cums # <<>> /\ Top(ReadBatch) = Cum(file, m)
  <2>1. Totals(ReadSnaps) # <<>> /\ Last(Totals(ReadSnaps)) = file[m].cum
    BY <1>2, <1>3, TotalsType
  <2> QED
    BY <1>4, <2>1 DEF ReadBatch, Cum, Top, LastOf
<1>7. ASSUME NEW i \in Written(file) PROVE Cum(file, i) <= Cum(file, m)
  <2>1. i \in Nat
    BY <1>0, WrittenType
  <2>2. i <= m
    <3>1. CASE i > ReadFrom
      BY <1>1, <1>3, <3>1
    <3>2. CASE ~(i > ReadFrom)
      BY <1>0, <1>4, <2>1, <3>2
    <3> QED
      BY <3>1, <3>2
  <2> QED
    BY <1>0, <1>4, <2>2, CumOrder
<1>8. ASSUME NEW c, IsTotal(file, c) PROVE c <= Cum(file, m)
  BY <1>5, <1>7, <1>8 DEF IsTotal
<1>9. IsTotal(file, Cum(file, m))
  BY <1>0, <1>4, CumIsTotal
<1> QED
  BY <1>6, <1>7, <1>8, <1>9

\* A read without a total: all of the file is stored.
LEMMA ReadNone ==
    ASSUME TypeOK, FileInv, StoreInv, CkptInv, ReadSnaps = {}
    PROVE  /\ ReadBatch.cums = <<>> /\ Top(ReadBatch) = 0 /\ ReadBatch.events = {}
           /\ \A i \in Written(file) : 0 < Cum(file, i) /\ Cum(file, i) <= totals[inc]
<1>0. /\ file \in Seq(CodexLine) /\ GoodFile(file) /\ ReadFrom \in Nat /\ totals[inc] \in Nat
      /\ Resumes(file, ReadFrom, totals[inc])
  BY ReadStart
<1>1. ReadBatch.cums = <<>> /\ Top(ReadBatch) = 0
  BY NoTotals DEF ReadBatch, Top, LastOf
<1>2. ReadBatch.events = {}
  BY ReadEvents
<1>3. ASSUME NEW i \in Written(file) PROVE 0 < Cum(file, i) /\ Cum(file, i) <= totals[inc]
  <2>1. /\ i \in Nat /\ 1 <= i /\ i <= Len(file) /\ i - 1 \in Nat /\ (i - 1) + 1 = i
        /\ Cum(file, i) \in Nat /\ Cum(file, i - 1) \in Nat
    BY <1>0, WrittenType
  <2>2. Cum(file, i - 1) < Cum(file, i)
    BY <1>0, <2>1, CumStep
  <2>3. ~(i > ReadFrom)
    BY <1>0, SnapsAre
  <2>4. i <= ReadFrom
    BY <1>0, <2>1, <2>3
  <2> QED
    BY <1>0, <2>1, <2>2, <2>4 DEF Resumes
<1> QED
  BY <1>1, <1>2, <1>3

LEMMA ReadInv ==
    ASSUME TypeOK, FileInv, StoreInv, CkptInv
    PROVE  BatchInv(ReadBatch)
<1> DEFINE b == ReadBatch
           f == file
           t == totals[inc]
<1>0. /\ f \in Seq(CodexLine) /\ GoodFile(f) /\ inc \in Files /\ ReadFrom \in Nat
      /\ t \in Nat /\ Booked(inc, f, events, t) /\ Resumes(f, ReadFrom, t)
  BY ReadStart
<1>1. /\ b.inc = inc /\ b.reset = ReadReset /\ b.first = next_codex_ordinal(ReadReset)
      /\ b.off = checkpoint_offset(ReadFrom)
  BY DEF ReadBatch
<1>2. Placed(ckpt, inc, b)
  <2>1. ckpt.inc <= inc /\ inc \in Nat /\ ckpt.inc \in Nat
    BY DEF CkptInv, TypeOK, Files
  <2>2. IF ReadReset THEN next_codex_ordinal(ReadReset) = 0 ELSE inc = ckpt.inc
    BY DEF next_codex_ordinal, ReadReset
  <2> HIDE DEF b
  <2> QED
    BY <1>1, <2>1, <2>2 DEF Placed
<1>3. b.off <= Len(f)
  BY <1>0, <1>1, ReadOffset DEF Resumes
<1>4. Covers(f, events, t, ckpt, b)
  <2>1. CASE ReadSnaps = {}
    <3>1. /\ b.cums = <<>> /\ Top(b) = 0 /\ b.events = {}
          /\ \A i \in Written(f) : 0 < Cum(f, i) /\ Cum(f, i) <= t /\ Cum(f, i) \in Nat
      BY <1>0, <2>1, ReadNone, WrittenType
    <3>2. \A i \in Written(f) : ~(Cum(f, i) <= 0)
      BY <3>1
    <3>3. IsTotal(f, 0)
      BY DEF IsTotal
    <3> HIDE DEF b, f, t
    <3> QED
      BY <1>3, <3>1, <3>2, <3>3 DEF Covers
  <2>2. CASE ReadSnaps # {}
    <3>1. /\ IsTotal(f, Top(b)) /\ \A i \in Written(f) : Cum(f, i) <= Top(b)
          /\ \A c : IsTotal(f, c) => c <= Top(b)
      BY <2>2, ReadLast
    <3>2. IsTotal(f, Top(b)) /\ t <= Top(b)
      BY <1>0, <3>1 DEF Booked
    <3>3. \A e \in b.events : e[1] = inc /\ e[2] \in ReadSnaps /\ e[3] \in {0, Amount(f, e[2])}
      BY ReadEvents
    <3>4. /\ \A i \in ReadSnaps : i \in 1..Len(f) /\ f[i].kind = "total"
          /\ \A i \in Written(f) : i > ReadFrom => i \in ReadSnaps
      BY <1>0, SnapsAre
    <3>5. ASSUME NEW e \in b.events
          PROVE  e[1] = b.inc /\ Genuine(f, e) /\ (e[3] # 0 => Cum(f, e[2]) <= Top(b))
      <4>1. CASE e[3] = 0
        BY <1>1, <3>3, <4>1 DEF Genuine
      <4>2. CASE e[3] # 0
        <5>1. e[2] \in ReadSnaps /\ e[3] = Amount(f, e[2]) /\ e[1] = b.inc
          BY <1>1, <3>3, <4>2
        <5>2. e[2] \in Written(f)
          <6>1. e[2] \in 1..Len(f) /\ f[e[2]].kind = "total" /\ DOMAIN f = 1..Len(f)
            BY <1>0, <3>4, <5>1
          <6>2. Amount(f, e[2]) \in Nat /\ Cum(f, e[2] - 1) \in Nat /\ Cum(f, e[2]) \in Nat
            BY <1>0, <6>1, DeltaOf
          <6>3. Cum(f, e[2] - 1) < Cum(f, e[2])
            BY <4>2, <5>1, <6>2 DEF Amount
          <6> QED
            BY <6>1, <6>3 DEF Written
        <5> QED
          BY <3>1, <5>1, <5>2 DEF Genuine
      <4> QED
        BY <4>1, <4>2
    <3>6. ASSUME NEW i \in Written(f) PROVE Exact(b.inc, f, i) \in events \cup b.events
      <4>1. CASE i \in ReadSnaps
        <5>1. Cum(f, i) <= t \/ Exact(inc, f, i) \in b.events
          BY <4>1, ReadEvents
        <5> QED
          BY <1>0, <1>1, <5>1 DEF Booked
      <4>2. CASE i \notin ReadSnaps
        <5>1. i \in Nat /\ ~(i > ReadFrom)
          BY <1>0, <3>4, <4>2, WrittenType
        <5>2. i <= ReadFrom
          BY <1>0, <5>1
        <5>3. Cum(f, i) <= t
          BY <1>0, <5>2 DEF Resumes
        <5> QED
          BY <1>0, <1>1, <5>3 DEF Booked
      <4> QED
        BY <4>1, <4>2
    <3> HIDE DEF b, f, t
    <3> QED
      BY <1>3, <3>1, <3>2, <3>5, <3>6 DEF Covers
  <2> QED
    BY <2>1, <2>2
<1> QED
  BY <1>1, <1>2, <1>4 DEF BatchInv, file

\* A batch that is in the writer is not ahead of a read now.
LEMMA ReadFollows ==
    ASSUME TypeOK, FileInv, StoreInv, CkptInv, NEW b \in Batch, BatchInv(b)
    PROVE  Follows(b, ReadBatch)
<1>1. ReadBatch.inc = inc
  BY DEF ReadBatch
<1>2. b.inc <= inc
  BY DEF BatchInv, Placed, TypeOK, Files, Batch
<1>3. ASSUME b.inc = inc, ReadBatch.cums # <<>> PROVE Top(b) <= Top(ReadBatch)
  <2>1. IsTotal(file, Top(b))
    BY <1>3 DEF BatchInv, Covers, file
  <2>2. ReadSnaps # {}
    BY <1>3, ReadNone
  <2> QED
    BY <2>1, <2>2, ReadLast
<1> QED
  BY <1>1, <1>2, <1>3 DEF Follows

LEMMA CodexReads ==
    ASSUME TypeOK, CodexInv, CodexRead
    PROVE  CodexInv'
<1>1. /\ queue' = Append(queue, ReadBatch)
      /\ UNCHANGED <<agent, claudeVars, files, inc, ckpt, snaps, events, stored, totals, stale>>
  BY ReadSends
<1>2. FileInv' /\ stale' = stale
  BY <1>1 DEF CodexInv, FileInv
<1> SUFFICES ASSUME ~stale PROVE StoreInv' /\ CkptInv' /\ QueueInv'
  BY <1>2 DEF CodexInv
<1>3. FileInv /\ StoreInv /\ CkptInv /\ QueueInv
  BY DEF CodexInv
<1>4. StoreInv' /\ CkptInv'
  BY <1>1, <1>3 DEF StoreInv, CkptInv, get_latest_codex_snapshot
<1> DEFINE B == ReadBatch
           n == Len(queue)
<1>5. BatchInv(B) /\ \A b \in Batch : BatchInv(b) => Follows(b, B)
  BY <1>3, ReadInv, ReadFollows
<1> HIDE DEF B
<1>6. /\ n \in Nat /\ DOMAIN queue = 1..n /\ DOMAIN queue' = 1..n+1 /\ queue'[n + 1] = B
      /\ \A i \in 1..n : queue'[i] = queue[i] /\ queue[i] \in Batch
  <2>1. queue \in Seq(Batch) /\ queue' = Append(queue, B)
    BY <1>1 DEF TypeOK, B
  <2> QED
    BY <2>1
<1> HIDE DEF n
<1>7. ASSUME NEW i \in DOMAIN queue' PROVE BatchInv(queue[i])'
  <2> DEFINE b == queue'[i]
  <2>1. CASE i \in 1..n
    <3>1. BatchInv(queue[i]) /\ queue'[i] = queue[i]
      BY <1>3, <1>6, <2>1 DEF QueueInv
    <3> QED
      BY <1>1, <3>1 DEF BatchInv
  <2>2. CASE i = n + 1
    BY <1>1, <1>5, <1>6, <2>2 DEF BatchInv
  <2> QED
    BY <1>6, <2>1, <2>2
<1>8. ASSUME NEW i \in DOMAIN queue', NEW j \in DOMAIN queue', i < j PROVE Follows(queue'[i], queue'[j])
  <2>1. i \in 1..n /\ (j \in 1..n \/ j = n + 1)
    BY <1>6, <1>8
  <2>2. queue'[i] = queue[i] /\ queue[i] \in Batch /\ BatchInv(queue[i])
    BY <1>3, <1>6, <2>1 DEF QueueInv
  <2>3. CASE j \in 1..n
    BY <1>3, <1>6, <1>8, <2>1, <2>2, <2>3 DEF QueueInv
  <2>4. CASE j = n + 1
    BY <1>5, <1>6, <2>2, <2>4
  <2> QED
    BY <2>1, <2>3, <2>4
<1>9. QueueInv'
  BY <1>7, <1>8 DEF QueueInv
<1> QED
  BY <1>4, <1>9

-----------------------------------------------------------------------------
(* A commit.                                                               *)

LEMMA SumNonZero ==
    ASSUME NEW g, NEW S, IsFiniteSet(S), IntOn(g, S)
    PROVE  SumOver(g, S) = SumOver(g, {x \in S : g[x] # 0})
<1> DEFINE Z == {x \in S : g[x] = 0}
<1>1. Z \in SUBSET S /\ (\A x \in Z : g[x] = 0) /\ S \ Z = {x \in S : g[x] # 0}
  OBVIOUS
<1> HIDE DEF Z
<1>2. SumOver(g, S) = SumOver(g, S \ Z)
  BY <1>1, SumZeros
<1> QED
  BY <1>1, <1>2

\* The rows that are new when a batch takes file k from total t to total c.
NewRows(k, f, t, c, ev, S) ==
    /\ IsTotal(f, t) /\ IsTotal(f, c) /\ t <= c
    /\ \A e \in S : e = <<k, e[2], e[3]>> /\ Genuine(f, e) /\ (e[3] # 0 => Cum(f, e[2]) <= c) /\ e \notin ev
    /\ \A i \in Written(f) : Exact(k, f, i) \in ev <=> Cum(f, i) <= t
    /\ \A i \in Written(f) : Cum(f, i) <= c => Exact(k, f, i) \in ev \cup S

\* They are worth what c exceeds t.
LEMMA NewSum ==
    ASSUME NEW f \in Seq(CodexLine), GoodFile(f), NEW k, NEW t, NEW c, NEW ev, NEW S,
           NewRows(k, f, t, c, ev, S),
           IsFiniteSet(S), NEW g, IntOn(g, S), \A e \in S : g[e] = e[3]
    PROVE  SumOver(g, S) = c - t
<1>0. /\ IsTotal(f, t) /\ IsTotal(f, c) /\ t <= c
      /\ \A e \in S : e = <<k, e[2], e[3]>> /\ Genuine(f, e) /\ (e[3] # 0 => Cum(f, e[2]) <= c) /\ e \notin ev
      /\ \A i \in Written(f) : Exact(k, f, i) \in ev <=> Cum(f, i) <= t
      /\ \A i \in Written(f) : Cum(f, i) <= c => Exact(k, f, i) \in ev \cup S
  BY DEF NewRows
<1>1. PICK m \in 0..Len(f) : Cum(f, m) = c
  BY <1>0, TotalAt
<1> DEFINE N == {e \in S : g[e] # 0}
           A == Above(k, f, t, m)
<1>2. \A i \in Written(f) : i <= m <=> Cum(f, i) <= c
  BY <1>1, CumOrder
<1>3. t \in Nat /\ \A i \in Written(f) : Cum(f, i) \in Nat
  BY <1>0, TotalAt, WrittenType
<1>4. ASSUME NEW i \in Written(f), i <= m, t < Cum(f, i)
      PROVE  Exact(k, f, i) \in S /\ Amount(f, i) # 0 /\ g[Exact(k, f, i)] = Amount(f, i)
  <2>1. Cum(f, i) <= c /\ ~(Cum(f, i) <= t)
    BY <1>2, <1>3, <1>4
  <2>2. Exact(k, f, i) \in S
    BY <1>0, <2>1
  <2>3. Exact(k, f, i)[3] = Amount(f, i)
    BY DEF Exact
  <2>4. Amount(f, i) # 0
    <3>1. i \in Nat /\ 1 <= i /\ i <= Len(f) /\ i - 1 \in Nat /\ (i - 1) + 1 = i /\ Cum(f, i - 1) \in Nat /\ Cum(f, i) \in Nat
      BY WrittenType
    <3>2. Cum(f, i - 1) < Cum(f, i)
      BY <3>1, CumStep
    <3> QED
      BY <3>1, <3>2 DEF Amount
  <2> QED
    BY <2>2, <2>3, <2>4
<1>5. A \subseteq N
  <2>1. ASSUME NEW i \in Written(f), i <= m, t < Cum(f, i) PROVE Exact(k, f, i) \in N
    <3>1. Exact(k, f, i)[3] = Amount(f, i)
      BY DEF Exact
    <3> QED
      BY <1>4, <2>1, <3>1
  <2> QED
    BY <2>1 DEF Above
<1>6. N \subseteq A
  <2>1. ASSUME NEW e \in N PROVE e \in A
    <3>1. /\ e = <<k, e[2], e[3]>> /\ e[2] \in Written(f) /\ e[3] = Amount(f, e[2])
          /\ Cum(f, e[2]) <= c /\ e \notin ev
      BY <1>0 DEF Genuine
    <3>2. e = Exact(k, f, e[2])
      BY <3>1 DEF Exact
    <3>3. t < Cum(f, e[2]) /\ e[2] <= m
      BY <1>0, <1>2, <1>3, <3>1, <3>2
    <3> QED
      BY <3>1, <3>2, <3>3 DEF Above
  <2> QED
    BY <2>1
<1>7. N = A
  BY <1>5, <1>6
<1>8. SumOver(g, S) = SumOver(g, N)
  BY SumNonZero
<1>9. SumOver(g, A) = Cum(f, m) - t
  BY <1>0, <1>1, <1>4, Telescope
<1> HIDE DEF N, A
<1> QED
  BY <1>1, <1>7, <1>8, <1>9

\* The batch at the head of the queue, and the total after it.
LEMMA CommitHead ==
    ASSUME TypeOK, FormInv, FileInv, StoreInv, CkptInv, QueueInv, CodexCommit
    PROVE  LET b == queue[1]
               f == files[b.inc]
               t == totals[b.inc]
               c == totals'[b.inc]
           IN  /\ b \in Batch /\ b.inc \in Files /\ BatchInv(b)
               /\ f \in Seq(CodexLine) /\ GoodFile(f) /\ c \in Nat /\ t \in Nat /\ Top(b) \in Nat
               /\ c = (IF t <= Top(b) THEN Top(b) ELSE t) /\ IsTotal(f, c)
               /\ totals' = [totals EXCEPT ![b.inc] = c]
               /\ b.inc = ckpt.inc \/ (b.inc > ckpt.inc /\ t = 0)
<1> DEFINE b == queue[1]
           f == files[b.inc]
           t == totals[b.inc]
           c == totals'[b.inc]
<1>1. queue # <<>> /\ 1 \in DOMAIN queue /\ b \in Batch
  BY TailOf, CommitDoes
<1>2. b.inc \in Files /\ b.inc \in Nat /\ BatchInv(b) /\ ckpt.inc \in Nat
  <2>1. BatchInv(b)
    BY <1>1 DEF QueueInv
  <2>2. b.inc \in Files /\ ckpt.inc \in Files
    BY <1>1 DEF Batch, TypeOK
  <2> QED
    BY <2>1, <2>2 DEF Files
<1>3. f \in Seq(CodexLine) /\ GoodFile(f) /\ t \in Nat
  BY <1>2 DEF FileInv, TypeOK
<1>4. IsTotal(f, Top(b)) /\ Top(b) \in Nat
  <2>1. IsTotal(f, Top(b))
    BY <1>2 DEF BatchInv, Covers
  <2> QED
    BY <1>3, <2>1, TotalAt
<1>5. totals' = [totals EXCEPT ![b.inc] = Max({t, Top(b)})]
  BY CommitDoes DEF Top
<1>6. c = Max({t, Top(b)}) /\ totals' = [totals EXCEPT ![b.inc] = c]
  BY <1>2, <1>5 DEF TypeOK
<1>7. IsTotal(f, t)
  BY <1>2 DEF StoreInv, Booked
<1>8. b.inc = ckpt.inc \/ (b.inc > ckpt.inc /\ t = 0)
  <2>1. CASE b.inc # ckpt.inc
    <3>1. b.inc > ckpt.inc
      BY <1>2, <2>1 DEF BatchInv, Placed
    <3> QED
      BY <1>2, <3>1 DEF StoreInv
  <2> QED
    BY <2>1
<1> HIDE DEF b, c, t, f
<1>9. c = (IF t <= Top(b) THEN Top(b) ELSE t) /\ c \in Nat
  BY <1>3, <1>4, <1>6, MaxNat
<1>10. IsTotal(f, c)
  BY <1>4, <1>7, <1>9
<1> QED
  BY <1>1, <1>2, <1>3, <1>4, <1>6, <1>8, <1>9, <1>10 DEF b, c, t, f

LEMMA CommitStored ==
    ASSUME TypeOK, FormInv, FileInv, StoreInv, CkptInv, QueueInv, CodexCommit
    PROVE  stored' = SumOver(totals', Files)
<1> DEFINE b == queue[1]
           f == files[b.inc]
           c == totals'[b.inc]
           t == totals[b.inc]
<1>0. /\ b \in Batch /\ b.inc \in Files /\ BatchInv(b) /\ f \in Seq(CodexLine) /\ GoodFile(f)
      /\ c \in Nat /\ t \in Nat /\ totals' = [totals EXCEPT ![b.inc] = c] /\ IsTotal(f, c)
      /\ Top(b) \in Nat /\ c = (IF t <= Top(b) THEN Top(b) ELSE t)
  BY CommitHead
<1>1. /\ b \in Batch /\ b.inc \in Files /\ BatchInv(b) /\ f \in Seq(CodexLine) /\ GoodFile(f)
      /\ c \in Nat /\ t \in Nat /\ t <= c /\ Top(b) <= c /\ totals' = [totals EXCEPT ![b.inc] = c]
  <2> HIDE DEF b, f, c, t
  <2> QED
    BY <1>0
<1>2. queue # <<>> /\ stored' = stored + SumOver(Worth, New) /\ stored \in Nat
  BY CommitDoes DEF TypeOK
<1>3. New \in SUBSET Event /\ IsFiniteSet(New) /\ IntOn(Worth, New) /\ \A e \in New : Worth[e] = e[3]
  BY <1>2, NewType DEF Worth
<1>4. Booked(b.inc, f, events, t)
  BY <1>1 DEF StoreInv
<1>5. Covers(f, events, t, ckpt, b)
  BY <1>1 DEF BatchInv
<1>6. \A e \in New : e \in b.events /\ e \notin events /\ e = <<e[1], e[2], e[3]>>
  BY <1>3 DEF New, Event
<1>7. ASSUME NEW e \in New
      PROVE  /\ e = <<b.inc, e[2], e[3]>> /\ Genuine(f, e) /\ e \notin events
             /\ e[3] # 0 => Cum(f, e[2]) <= c
  <2>1. /\ e = <<b.inc, e[2], e[3]>> /\ Genuine(f, e) /\ e \notin events
        /\ e[3] # 0 => Cum(f, e[2]) <= Top(b)
    BY <1>5, <1>6 DEF Covers
  <2>2. e[3] # 0 => Cum(f, e[2]) \in Nat
    BY <1>1, <2>1, WrittenType DEF Genuine
  <2> HIDE DEF b, f, c
  <2> QED
    BY <1>0, <1>1, <2>1, <2>2
<1>8. ASSUME NEW i \in Written(f), Cum(f, i) <= c PROVE Exact(b.inc, f, i) \in events \cup New
  <2>1. Cum(f, i) <= t \/ Cum(f, i) <= Top(b)
    <3> HIDE DEF b, f, c, t
    <3> QED
      BY <1>0, <1>8
  <2>2. CASE Cum(f, i) <= t
    BY <1>4, <2>2 DEF Booked
  <2>3. CASE Cum(f, i) <= Top(b)
    BY <1>5, <2>3 DEF Covers, New
  <2> QED
    BY <2>1, <2>2, <2>3
<1>9. IsTotal(f, t) /\ IsTotal(f, c) /\ \A i \in Written(f) : Exact(b.inc, f, i) \in events <=> Cum(f, i) <= t
  BY <1>0, <1>4 DEF Booked
<1> DEFINE k == b.inc
<1> HIDE DEF f, c, t, k
<1>10. SumOver(Worth, New) = c - t
  <2>1. NewRows(k, f, t, c, events, New)
    BY <1>1, <1>7, <1>8, <1>9 DEF NewRows, k
  <2> QED
    BY <1>1, <1>3, <2>1, NewSum
<1>11. SumOver(totals', Files) = SumOver(totals, Files) + (c - t)
  <2>1. IsFiniteSet(Files) /\ totals \in [Files -> Int] /\ k \in Files /\ c \in Int
    <3>1. IsFiniteSet(Files) /\ k \in Files /\ c \in Nat
      BY <1>1, FilesType DEF k
    <3>2. totals \in [Files -> Nat]
      BY DEF TypeOK
    <3> QED
      BY <3>1, <3>2
  <2>2. SumOver([totals EXCEPT ![k] = c], Files) = SumOver(totals, Files) + (c - totals[k])
    BY <2>1, SumExcept
  <2> QED
    BY <1>1, <2>2 DEF k, t
<1>12. stored = SumOver(totals, Files)
  BY DEF StoreInv
<1> QED
  BY <1>2, <1>10, <1>11, <1>12

LEMMA CommitStore ==
    ASSUME TypeOK, FormInv, FileInv, StoreInv, CkptInv, QueueInv, CodexCommit
    PROVE  StoreInv'
<1> DEFINE b == queue[1]
           f == files[b.inc]
           c == totals'[b.inc]
           t == totals[b.inc]
<1>0. /\ b \in Batch /\ b.inc \in Files /\ BatchInv(b) /\ f \in Seq(CodexLine) /\ GoodFile(f)
      /\ c \in Nat /\ t \in Nat /\ totals' = [totals EXCEPT ![b.inc] = c] /\ IsTotal(f, c)
      /\ Top(b) \in Nat /\ c = (IF t <= Top(b) THEN Top(b) ELSE t)
  BY CommitHead
<1>1. /\ b \in Batch /\ b.inc \in Files /\ BatchInv(b) /\ f \in Seq(CodexLine) /\ GoodFile(f)
      /\ c \in Nat /\ t \in Nat /\ t <= c /\ Top(b) <= c /\ totals' = [totals EXCEPT ![b.inc] = c]
  <2> HIDE DEF b, f, c, t
  <2> QED
    BY <1>0
<1>2. /\ events' = events \cup New /\ files' = files /\ ckpt' = [inc |-> b.inc, off |-> b.off]
  BY CommitDoes
<1>3. Covers(f, events, t, ckpt, b) /\ b.inc \in ckpt.inc..inc
  BY <1>1 DEF BatchInv, Placed
<1>4. ASSUME NEW e \in New PROVE e[1] = b.inc /\ Genuine(f, e) /\ (e[3] # 0 => Cum(f, e[2]) <= c)
  <2>1. e[1] = b.inc /\ Genuine(f, e) /\ (e[3] # 0 => Cum(f, e[2]) <= Top(b))
    BY <1>3 DEF Covers, New
  <2>2. e[3] # 0 => Cum(f, e[2]) \in Nat
    BY <1>1, <2>1, WrittenType DEF Genuine
  <2> HIDE DEF b, f, c
  <2> QED
    BY <1>0, <1>1, <2>1, <2>2
<1>5. \A e \in events' : Genuine(files'[e[1]], e)
  <2>1. ASSUME NEW e \in New PROVE Genuine(files[e[1]], e)
    BY <1>4
  <2>2. \A e \in events : Genuine(files[e[1]], e)
    BY DEF StoreInv
  <2> QED
    BY <1>2, <2>1, <2>2
<1>6. ASSUME NEW k \in Files PROVE Booked(k, files'[k], events', totals'[k])
  <2>0. Booked(k, files[k], events, totals[k])
    BY DEF StoreInv
  <2>1. CASE k = b.inc
    <3>1. totals'[k] = c
      BY <1>1, <2>1 DEF TypeOK
    <3>2. ASSUME NEW i \in Written(f) PROVE Exact(k, f, i) \in events' <=> Cum(f, i) <= c
      <4>1. CASE Exact(k, f, i) \in events
        <5>1. Cum(f, i) <= t /\ Cum(f, i) \in Nat
          BY <1>1, <2>0, <2>1, <4>1, WrittenType DEF Booked
        <5> HIDE DEF c, t
        <5>2. Cum(f, i) <= c
          BY <1>1, <2>1, <5>1
        <5> QED
          BY <1>2, <4>1, <5>2
      <4>2. CASE Exact(k, f, i) \notin events
        <5>1. ASSUME Cum(f, i) <= c PROVE Exact(k, f, i) \in New
          <6>1. ~(Cum(f, i) <= t)
            BY <2>0, <2>1, <4>2 DEF Booked
          <6>2. Cum(f, i) <= Top(b)
            <7> HIDE DEF b, f, c, t
            <7> QED
              BY <1>0, <5>1, <6>1
          <6> QED
            BY <1>3, <2>1, <4>2, <6>2 DEF Covers, New
        <5>2. Exact(k, f, i) \in New => Cum(f, i) <= c
          BY <1>1, <1>4, AmountOf DEF Exact
        <5> QED
          BY <1>2, <4>2, <5>1, <5>2
      <4> QED
        BY <4>1, <4>2
    <3>3. IsTotal(f, c)
      BY <1>0
    <3> QED
      BY <1>2, <2>1, <3>1, <3>2, <3>3 DEF Booked
  <2>2. CASE k # b.inc
    <3>1. totals'[k] = totals[k]
      BY <1>1, <2>2 DEF TypeOK
    <3>2. \A i : Exact(k, files[k], i) \in events' <=> Exact(k, files[k], i) \in events
      BY <1>2, <1>4, <2>2 DEF Exact
    <3> QED
      BY <1>2, <2>0, <3>1, <3>2 DEF Booked
  <2> QED
    BY <2>1, <2>2
<1>7. ASSUME NEW k \in Files, k > b.inc PROVE totals'[k] = 0
  <2>1. k \in Nat /\ b.inc \in Nat /\ ckpt.inc \in Nat
    BY <1>1 DEF TypeOK, Files
  <2>2. k > ckpt.inc /\ k # b.inc
    BY <1>3, <1>7, <2>1
  <2>3. totals[k] = 0
    BY <2>2 DEF StoreInv
  <2> QED
    BY <1>1, <2>2, <2>3 DEF TypeOK
<1>8. stored' = SumOver(totals', Files)
  BY CommitStored
<1> HIDE DEF b
<1> QED
  BY <1>2, <1>5, <1>6, <1>7, <1>8 DEF StoreInv

\* The last snapshot after a commit: that of the batch, unless it has none.
LEMMA CommitLatest ==
    ASSUME TypeOK, NEW b \in Batch, b.first <= Len(snaps),
           b.cums # <<>> => Len(snaps) <= b.first + Len(b.cums)
    PROVE  LastOf(insert_snapshots(b)) = IF b.cums = <<>> THEN get_latest_codex_snapshot ELSE Top(b)
<1> DEFINE s == insert_snapshots(b)
           n == b.first + Len(b.cums)
<1>1. /\ s \in Seq(Nat) /\ Len(s) = IF Len(snaps) <= n THEN n ELSE Len(snaps)
      /\ \A k \in 1..Len(s) : s[k] = IF k \in b.first+1..n THEN b.cums[k - b.first] ELSE snaps[k]
  BY InsertType
<1>2. /\ b.first \in Nat /\ b.cums \in Seq(Nat) /\ Len(b.cums) \in Nat /\ snaps \in Seq(Nat) /\ Len(snaps) \in Nat
  <2>1. b.first \in Nat /\ b.cums \in Seq(Nat) /\ snaps \in Seq(Nat)
    BY DEF Batch, TypeOK
  <2> QED
    BY <2>1
<1> HIDE DEF s
<1>3. CASE b.cums = <<>>
  <2>1. Len(b.cums) = 0
    BY <1>3
  <2>2. n = b.first /\ Len(s) = Len(snaps)
    BY <1>1, <1>2, <2>1
  <2>3. \A k \in 1..Len(s) : k \notin b.first+1..n
    BY <1>2, <2>2
  <2>4. \A k \in 1..Len(snaps) : s[k] = snaps[k]
    BY <1>1, <2>2, <2>3
  <2>5. LastOf(s) = LastOf(snaps)
    <3>1. CASE Len(snaps) = 0
      <4>1. s = <<>> /\ snaps = <<>>
        BY <1>1, <1>2, <2>2, <3>1
      <4> QED
        BY <4>1
    <3>2. CASE Len(snaps) # 0
      <4>1. s # <<>> /\ snaps # <<>> /\ Len(snaps) \in 1..Len(snaps)
        BY <1>1, <1>2, <2>2, <3>2
      <4>2. s[Len(s)] = snaps[Len(snaps)]
        BY <2>2, <2>4, <4>1
      <4> QED
        BY <4>1, <4>2 DEF LastOf, Last
    <3> QED
      BY <3>1, <3>2
  <2> QED
    BY <1>3, <2>5 DEF get_latest_codex_snapshot, s
<1>4. CASE b.cums # <<>>
  <2>1. Len(b.cums) # 0 /\ Len(snaps) <= n
    BY <1>2, <1>4
  <2>2. Len(s) = n /\ n \in 1..n /\ n \in b.first+1..n /\ n - b.first = Len(b.cums)
    BY <1>1, <1>2, <2>1
  <2> HIDE DEF n
  <2>3. s[Len(s)] = b.cums[Len(b.cums)] /\ s # <<>>
    BY <1>1, <2>2
  <2> QED
    BY <1>4, <2>3 DEF LastOf, Last, Top, s
<1> QED
  BY <1>3, <1>4

\* It is the total stored of the file of the batch.
LEMMA CommitCkpt ==
    ASSUME TypeOK, FormInv, FileInv, StoreInv, CkptInv, QueueInv, CodexCommit, ~stale'
    PROVE  CkptInv'
<1> DEFINE b == queue[1]
           f == files[b.inc]
           t == totals[b.inc]
           c == totals'[b.inc]
<1>1. /\ b \in Batch /\ b.inc \in Files /\ BatchInv(b) /\ f \in Seq(CodexLine)
      /\ c \in Nat /\ t \in Nat /\ Top(b) \in Nat /\ c = (IF t <= Top(b) THEN Top(b) ELSE t)
      /\ b.inc = ckpt.inc \/ (b.inc > ckpt.inc /\ t = 0)
  BY CommitHead
<1>2. /\ files' = files /\ inc' = inc /\ ckpt' = [inc |-> b.inc, off |-> b.off] /\ queue # <<>>
      /\ snaps' = insert_snapshots(b)
      /\ ~((b.reset \/ b.cums # <<>>) /\ Len(snaps) > b.first + Len(b.cums))
  BY CommitDoes
<1>3. /\ b.first \in Nat /\ b.cums \in Seq(Nat) /\ Len(b.cums) \in Nat /\ Len(snaps) \in Nat
      /\ b.inc \in Nat /\ ckpt.inc \in Nat /\ inc \in Nat /\ b.reset \in BOOLEAN /\ snaps \in Seq(Nat)
  <2>1. b.first \in Nat /\ b.cums \in Seq(Nat) /\ b.reset \in BOOLEAN
    BY <1>1 DEF Batch
  <2>2. snaps \in Seq(Nat) /\ ckpt.inc \in Files /\ inc \in Files
    BY DEF TypeOK
  <2> QED
    BY <1>1, <2>1, <2>2 DEF Files
<1>4. b.first <= Len(snaps)
  BY <1>2, TailOf DEF FormInv
<1>5. Placed(ckpt, inc, b) /\ Covers(f, events, t, ckpt, b)
  BY <1>1 DEF BatchInv
<1> HIDE DEF b, f, t, c
<1>6. b.cums # <<>> => Len(snaps) <= b.first + Len(b.cums)
  BY <1>2, <1>3
<1>7. LastOf(snaps') = IF b.cums = <<>> THEN get_latest_codex_snapshot ELSE Top(b)
  BY <1>1, <1>2, <1>4, <1>6, CommitLatest
<1>8. LastOf(snaps') = c
  <2>1. CASE b.cums # <<>>
    <3>1. t <= Top(b)
      BY <1>1, <1>5, <2>1 DEF Covers
    <3> QED
      BY <1>1, <1>7, <2>1, <3>1
  <2>2. CASE b.cums = <<>>
    <3>1. Top(b) = 0
      BY <2>2 DEF Top, LastOf
    <3>2. c = t
      BY <1>1, <3>1
    <3>3. get_latest_codex_snapshot = t
      <4>1. CASE b.inc = ckpt.inc
        BY <4>1 DEF CkptInv, t
      <4>2. CASE b.inc # ckpt.inc
        <5>1. b.reset /\ b.first = 0 /\ Len(b.cums) = 0
          BY <1>5, <2>2, <4>2 DEF Placed
        <5>2. snaps = <<>>
          BY <1>2, <1>3, <5>1
        <5> QED
          BY <1>1, <4>2, <5>2 DEF get_latest_codex_snapshot, LastOf
      <4> QED
        BY <4>1, <4>2
    <3> QED
      BY <1>7, <2>2, <3>2, <3>3
  <2> QED
    BY <2>1, <2>2
<1>9. Resumes(f, b.off, c)
  <2>1. ASSUME NEW i \in Written(f), i <= b.off PROVE Cum(f, i) <= c
    <3>1. Cum(f, i) \in Nat /\ (Cum(f, i) <= t \/ Cum(f, i) <= Top(b))
      BY <1>1, <1>5, <2>1, WrittenType DEF Covers
    <3> QED
      BY <1>1, <3>1
  <2> QED
    BY <1>5, <2>1 DEF Resumes, Covers
<1>10. b.inc <= inc
  BY <1>3, <1>5 DEF Placed
<1> QED
  BY <1>2, <1>8, <1>9, <1>10 DEF CkptInv, get_latest_codex_snapshot, f, c

LEMMA CommitQueue ==
    ASSUME TypeOK, FormInv, FileInv, StoreInv, CkptInv, QueueInv, CodexCommit
    PROVE  QueueInv'
<1> DEFINE b == queue[1]
           t == totals[b.inc]
           c == totals'[b.inc]
<1>1. /\ b \in Batch /\ b.inc \in Files /\ BatchInv(b) /\ totals' = [totals EXCEPT ![b.inc] = c]
      /\ c \in Nat /\ t \in Nat /\ Top(b) \in Nat /\ c = (IF t <= Top(b) THEN Top(b) ELSE t)
      /\ b.inc = ckpt.inc \/ (b.inc > ckpt.inc /\ t = 0)
  BY CommitHead
<1>2. /\ files' = files /\ inc' = inc /\ ckpt' = [inc |-> b.inc, off |-> b.off]
      /\ events' = events \cup New /\ queue # <<>> /\ queue' = Tail(queue)
  BY CommitDoes
<1>3. \A i \in DOMAIN queue' : i \in Nat /\ 1 <= i /\ i + 1 \in DOMAIN queue /\ queue'[i] = queue[i + 1]
  <2>1. queue \in Seq(Batch)
    BY DEF TypeOK
  <2> QED
    BY <1>2, <2>1
<1>4. 1 \in DOMAIN queue
  BY <1>2, TailOf
<1>5. ASSUME NEW i \in DOMAIN queue' PROVE BatchInv(queue[i])'
  <2> DEFINE d == queue[i + 1]
             f == files[d.inc]
             u == totals[d.inc]
             v == totals'[d.inc]
             ck == [inc |-> b.inc, off |-> b.off]
  <2>0. queue'[i] = d
    BY <1>3
  <2>1. BatchInv(d) /\ Follows(b, d)
    <3>1. 1 < i + 1 /\ i + 1 \in DOMAIN queue
      BY <1>3
    <3> QED
      BY <1>4, <3>1 DEF QueueInv
  <2>2. d \in Batch /\ d.inc \in Files /\ f \in Seq(CodexLine) /\ u \in Nat
    <3>1. queue \in Seq(Batch) /\ files \in [Files -> Seq(CodexLine)] /\ totals \in [Files -> Nat]
      BY DEF TypeOK
    <3>2. d \in Batch
      BY <1>3, <3>1
    <3>3. d.inc \in Files
      BY <3>2 DEF Batch
    <3> QED
      BY <3>1, <3>2, <3>3
  <2>3. d.inc \in Nat /\ b.inc \in Nat /\ ckpt.inc \in Nat /\ inc \in Nat
    <3>1. ckpt.inc \in Files /\ inc \in Files
      BY DEF TypeOK
    <3> QED
      BY <1>1, <2>2, <3>1 DEF Files
  <2>4. Placed(ckpt, inc, b) /\ Placed(ckpt, inc, d) /\ Covers(f, events, u, ckpt, d)
    BY <1>1, <2>1 DEF BatchInv
  <2>5. b.inc <= d.inc /\ (b.inc = d.inc /\ d.cums # <<>> => Top(b) <= Top(d))
    BY <2>1 DEF Follows
  <2>6. (d.inc = b.inc => v = c /\ u = t) /\ (d.inc # b.inc => v = u)
    BY <1>1, <2>2 DEF TypeOK
  <2>7. Top(d) \in Nat
    <3>1. IsTotal(f, Top(d))
      BY <2>4 DEF Covers
    <3> QED
      BY <2>2, <3>1, TotalAt
  <2> HIDE DEF b, d, f, t, c, u, v
  <2>8. u <= v /\ v \in Nat
    BY <1>1, <2>2, <2>6
  <2>9. Placed(ck, inc, d)
    BY <2>3, <2>4, <2>5 DEF Placed
  <2>10. ASSUME d.cums # <<>>, d.inc = ck.inc PROVE v <= Top(d)
    <3>1. d.inc = b.inc /\ Top(b) <= Top(d) /\ v = c /\ u = t
      BY <2>5, <2>6, <2>10
    <3>2. t <= Top(d)
      <4>1. CASE b.inc = ckpt.inc
        BY <2>4, <2>10, <3>1, <4>1 DEF Covers
      <4>2. CASE t = 0
        BY <2>7, <4>2
      <4> QED
        BY <1>1, <4>1, <4>2
    <3> QED
      BY <1>1, <3>1, <3>2
  <2>11. ASSUME NEW j \in Written(f), j <= d.off PROVE Cum(f, j) <= v \/ Cum(f, j) <= Top(d)
    <3>1. Cum(f, j) \in Nat /\ (Cum(f, j) <= u \/ Cum(f, j) <= Top(d))
      BY <2>2, <2>4, <2>11, WrittenType DEF Covers
    <3> QED
      BY <2>2, <2>8, <3>1
  <2>12. Covers(f, events', v, ck, d)
    BY <1>2, <2>4, <2>10, <2>11 DEF Covers
  <2> QED
    BY <1>2, <2>0, <2>9, <2>12 DEF BatchInv, f, v
<1>6. ASSUME NEW i \in DOMAIN queue', NEW j \in DOMAIN queue', i < j PROVE Follows(queue'[i], queue'[j])
  <2>1. i + 1 < j + 1
    BY <1>3, <1>6
  <2> QED
    BY <1>3, <2>1 DEF QueueInv
<1> QED
  BY <1>5, <1>6 DEF QueueInv

LEMMA CodexCommits ==
    ASSUME TypeOK, FormInv, CodexInv, CodexCommit
    PROVE  CodexInv'
<1>1. files' = files /\ (stale => stale')
  BY CommitDoes
<1>2. FileInv'
  BY <1>1 DEF CodexInv, FileInv
<1>3. ASSUME ~stale' PROVE StoreInv' /\ CkptInv' /\ QueueInv'
  <2>1. FileInv /\ StoreInv /\ CkptInv /\ QueueInv
    BY <1>1, <1>3 DEF CodexInv
  <2> QED
    BY <1>3, <2>1, CommitStore, CommitCkpt, CommitQueue
<1> QED
  BY <1>2, <1>3 DEF CodexInv

LEMMA InitCodex == Init => CodexInv
<1> SUFFICES ASSUME Init PROVE CodexInv
  OBVIOUS
<1>0. TypeOK
  BY InitTypes
<1>1. 0 \in Files /\ IsFiniteSet(Files)
  BY <1>0, FilesType DEF Init, TypeOK
<1>2. \A k \in Files : files[k] = <<>> /\ totals[k] = 0
  BY DEF Init
<1>3. GoodFile(<<>>) /\ Written(<<>>) = {}
  BY DEF GoodFile, Written
<1>4. FileInv
  BY <1>2, <1>3 DEF FileInv
<1>5. stored = SumOver(totals, Files)
  <2>1. IntOn(totals, Files) /\ \A k \in Files : totals[k] = 0
    BY <1>2 DEF IntOn
  <2>2. {k \in Files : totals[k] # 0} = {}
    BY <2>1
  <2>3. SumOver(totals, Files) = SumOver(totals, {})
    BY <1>1, <2>1, <2>2, SumNonZero
  <2> QED
    BY <2>3, SumEmpty DEF Init
<1>6. StoreInv
  <2>1. \A k \in Files : Booked(k, files[k], events, totals[k])
    BY <1>2, <1>3 DEF Booked, IsTotal
  <2>2. events = {}
    BY DEF Init
  <2> QED
    BY <1>2, <1>5, <2>1, <2>2 DEF StoreInv
<1>7. CkptInv
  <2>1. ckpt.inc = 0 /\ ckpt.off = 0 /\ inc = 0 /\ snaps = <<>>
    BY DEF Init
  <2>2. Resumes(<<>>, 0, 0)
    BY <1>3 DEF Resumes
  <2> QED
    BY <1>1, <1>2, <2>1, <2>2 DEF CkptInv, get_latest_codex_snapshot, LastOf
<1>8. QueueInv
  BY DEF Init, QueueInv
<1> QED
  BY <1>4, <1>6, <1>7, <1>8 DEF CodexInv

LEMMA StepCodex == Types /\ Types' /\ CodexInv /\ [Next]_vars => CodexInv'
<1> SUFFICES ASSUME TypeOK, TypeOK', FormInv, CodexInv, [Next]_vars PROVE CodexInv'
  BY DEF Types
<1>0. inc \in Nat
  BY DEF TypeOK, Files
<1>1. ASSUME NEW n \in 1..MaxBatch, NEW batch \in [1..n -> Line], ClaudeBatch(batch) PROVE CodexInv'
  BY <1>0, <1>1, CodexSameFiles DEF ClaudeBatch, codexVars
<1>2. ASSUME NEW amount \in Amounts, NEW explicit \in BOOLEAN, CodexWrites(amount, explicit) PROVE CodexInv'
  <2> DEFINE l == LastTotal(file)
             line == [kind |-> "total", cum |-> l + amount, delta |-> IF explicit THEN amount ELSE -1]
  <2>1. line \in CodexLine /\ CodexAppends(line)
    BY <1>2, WritesLine DEF CodexWrites
  <2>2. amount \in Nat /\ l \in Nat
    BY LedgerAssumption, LastTotalType
  <2> HIDE DEF l
  <2>3. line.kind = "total" /\ line.cum = l + amount /\ line.delta \in {-1, amount}
    OBVIOUS
  <2> HIDE DEF line
  <2>4. l <= line.cum /\ line.cum - l = amount
    BY <2>2, <2>3
  <2> QED
    BY <2>1, <2>3, <2>4, CodexAppend DEF l
<1>3. ASSUME NEW kind \in {"other", "empty"}, CodexWritesOther(kind) PROVE CodexInv'
  <2> DEFINE line == [kind |-> kind, cum |-> LastTotal(file), delta |-> -1]
  <2>1. line \in CodexLine /\ CodexAppends(line) /\ line.kind # "total" /\ line.cum = LastTotal(file)
    BY <1>3, OtherLine DEF CodexWritesOther
  <2> HIDE DEF line
  <2>2. LastTotal(file) \in Nat
    BY LastTotalType
  <2>3. LastTotal(file) <= line.cum
    BY <2>1, <2>2
  <2> QED
    BY <2>1, <2>3, CodexAppend
<1>4. CASE CodexRestarts
  BY <1>0, <1>4, CodexSameFiles DEF CodexRestarts
<1>5. CASE CodexRead
  BY <1>5, CodexReads
<1>6. CASE CodexCommit
  BY <1>6, CodexCommits
<1>7. CASE CodexDropped
  BY <1>7, CodexDrop
<1>8. CASE UNCHANGED vars
  BY <1>0, <1>8, CodexSameFiles DEF vars, codexVars
<1> QED
  BY <1>1, <1>2, <1>3, <1>4, <1>5, <1>6, <1>7, <1>8 DEF Next

LEMMA CodexHolds == Spec => []CodexInv
<1> QED
  BY InitCodex, StepCodex, TypesHold, PTL DEF Spec

\* The amounts stored for the Codex file add up to the highest totals
\* committed of it, although checkpoints lag and lines are read again, batches
\* wait in the writer or are dropped, and the file starts over, as long as no
\* batch leaves snapshots above its own behind: the snapshot stored last is
\* then the total stored, whatever the ordinals and the checkpoint are
\* (build_codex_delta_events, get_latest_codex_snapshot, insert_snapshots).
THEOREM CodexStoredOnce == Spec => []CodexTotalStored
<1>1. CodexInv => CodexTotalStored
  BY DEF CodexInv, StoreInv, CodexTotalStored
<1> QED
  BY <1>1, CodexHolds, PTL
=============================================================================
