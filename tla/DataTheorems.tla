---------------------------- MODULE DataTheorems ----------------------------
(***************************************************************************)
(* Facts about finite sets, sums, orders, recursive functions of numbers   *)
(* and sequences that the proofs about counts, about lists and about what  *)
(* is read of a request cite.  The induction theorems of the library take  *)
(* a predicate as a parameter; here a predicate is the family of the sets, *)
(* or the set of the numbers, that have it, and induction is that the      *)
(* least set without it has it.  A sum is of a function: SumFunctionOnSet. *)
(***************************************************************************)
EXTENDS Integers, SequencesExt, Functions, FiniteSetTheorems, SequenceTheorems, TLAPS

-----------------------------------------------------------------------------
(* Induction. *)

\* A family of finite sets has a least one.
LEMMA LeastSet ==
  ASSUME NEW F, F # {}, \A T \in F : IsFiniteSet(T)
  PROVE  \E T \in F : \A U \in F : U \subseteq T => U = T
<1> DEFINE S == UNION F
<1>1. F \subseteq FiniteSubsetsOf(S)
  BY DEF FiniteSubsetsOf
<1>2. IsWellFoundedOn(StrictSubsetOrdering(S), FiniteSubsetsOf(S))
  BY FS_StrictSubsetOrderingWellFounded
<1>3. \E x \in F : \A y \in F : ~(<<y, x>> \in StrictSubsetOrdering(S))
  BY <1>1, <1>2, WFMin
<1> QED BY <1>3 DEF StrictSubsetOrdering

\* What holds of the empty set and, with a set, of the set and one element
\* more, holds of every finite set.
LEMMA SetInduction ==
  ASSUME NEW S, IsFiniteSet(S), NEW F, {} \in F,
         \A T \in SUBSET S : \A x \in S \ T : T \in F => T \cup {x} \in F
  PROVE  S \in F
<1> DEFINE G == {T \in SUBSET S : T \notin F}
<1>1. SUFFICES ASSUME G # {} PROVE FALSE
  OBVIOUS
<1>2. \A T \in G : IsFiniteSet(T)
  BY FS_Subset
<1>3. PICK T \in G : \A U \in G : U \subseteq T => U = T
  <2> HIDE DEF G
  <2> QED BY <1>1, <1>2, LeastSet
<1>4. PICK x : x \in T
  BY <1>3
<1>5. T \ {x} \in F /\ x \in S \ (T \ {x}) /\ (T \ {x}) \cup {x} = T
  BY <1>3, <1>4
<1> QED BY <1>3, <1>5

LEMMA LeastNat ==
  ASSUME NEW T \in SUBSET Nat, T # {}
  PROVE  \E n \in T : \A m \in T : n <= m
<1> DEFINE F == {1..n : n \in T}
<1>1. F # {} /\ \A U \in F : IsFiniteSet(U)
  <2>1. \A n \in T : IsFiniteSet(1..n)
    BY FS_Interval
  <2> QED BY <2>1
<1>2. PICK U \in F : \A V \in F : V \subseteq U => V = U
  <2> HIDE DEF F
  <2> QED BY <1>1, LeastSet
<1>3. PICK n \in T : U = 1..n
  BY <1>2
<1>4. ASSUME NEW m \in T, m < n PROVE FALSE
  <2>1. m \in Nat /\ n \in Nat
    OBVIOUS
  <2>2. 1..m \subseteq 1..n /\ n \in 1..n /\ n \notin 1..m
    BY <1>4, <2>1
  <2> QED BY <1>2, <1>3, <2>2
<1> QED BY <1>4

\* Induction over numbers.
LEMMA NumberInduction ==
  ASSUME NEW T, 0 \in T, \A n \in Nat : n \in T => n + 1 \in T
  PROVE  Nat \subseteq T
<1> DEFINE G == Nat \ T
<1>1. SUFFICES ASSUME G # {} PROVE FALSE
  OBVIOUS
<1>2. PICK n \in G : \A m \in G : n <= m
  <2> HIDE DEF G
  <2>1. G \in SUBSET Nat
    BY DEF G
  <2> QED BY <1>1, <2>1, LeastNat
<1>3. n # 0 /\ n - 1 \in Nat /\ (n - 1) + 1 = n /\ ~(n <= n - 1)
  BY <1>2
<1>4. n - 1 \in T
  BY <1>2, <1>3
<1> QED BY <1>2, <1>3, <1>4

-----------------------------------------------------------------------------
(* Sums. *)

\* The function whose value at a set is the sum over it, as the fold has it.
Pick(s) == CHOOSE x \in s : TRUE
SumsOn(it, f, SS) == it = [s \in SS |-> IF s = {} THEN 0 ELSE f[Pick(s)] + it[s \ {Pick(s)}]]

LEMMA SumIsFold ==
  ASSUME NEW f, NEW S
  PROVE  SumFunctionOnSet(f, S) = (CHOOSE it : SumsOn(it, f, SUBSET S))[S]
BY DEF SumFunctionOnSet, FoldFunctionOnSet, MapThenFoldSet, SumsOn, Pick

LEMMA PickIn ==
  ASSUME NEW s, s # {}
  PROVE  Pick(s) \in s
BY DEF Pick

LEMMA SumsExist ==
  ASSUME NEW f, NEW S, IsFiniteSet(S)
  PROVE  \E it : SumsOn(it, f, SUBSET S)
<1> DEFINE Upto(n) == {T \in SUBSET S : Cardinality(T) <= n}
           T == {n \in Nat : \E it : SumsOn(it, f, Upto(n))}
<1>0. \A s \in SUBSET S : /\ IsFiniteSet(s) /\ Cardinality(s) \in Nat
                          /\ s = {} <=> Cardinality(s) = 0
                          /\ Cardinality(s) <= Cardinality(S)
  BY FS_Subset, FS_CardinalityType, FS_EmptySet
<1>1. 0 \in T
  <2>1. Upto(0) = {{}}
    BY <1>0
  <2>2. SumsOn([s \in {{}} |-> 0], f, {{}})
    BY DEF SumsOn
  <2> QED BY <2>1, <2>2
<1>2. \A n \in Nat : n \in T => n + 1 \in T
  <2> SUFFICES ASSUME NEW n \in Nat, n \in T PROVE n + 1 \in T
    OBVIOUS
  <2>1. PICK it : SumsOn(it, f, Upto(n))
    OBVIOUS
  <2> DEFINE jt == [s \in Upto(n + 1) |-> IF s = {} THEN 0 ELSE f[Pick(s)] + it[s \ {Pick(s)}]]
  <2>2. \A s \in Upto(n) : s \in Upto(n + 1) /\ jt[s] = it[s]
    <3> SUFFICES ASSUME NEW s \in Upto(n) PROVE s \in Upto(n + 1) /\ jt[s] = it[s]
      OBVIOUS
    <3>1. s \in Upto(n + 1)
      BY <1>0
    <3>2. it[s] = IF s = {} THEN 0 ELSE f[Pick(s)] + it[s \ {Pick(s)}]
      BY <2>1 DEF SumsOn
    <3> QED BY <3>1, <3>2
  <2>3. \A s \in Upto(n + 1) : s # {} => s \ {Pick(s)} \in Upto(n)
    <3> SUFFICES ASSUME NEW s \in Upto(n + 1), s # {} PROVE s \ {Pick(s)} \in Upto(n)
      OBVIOUS
    <3>1. Cardinality(s \ {Pick(s)}) = Cardinality(s) - 1
      BY <1>0, PickIn, FS_RemoveElement
    <3> QED BY <1>0, <3>1
  <2>4. jt = [s \in Upto(n + 1) |-> IF s = {} THEN 0 ELSE f[Pick(s)] + jt[s \ {Pick(s)}]]
    <3> SUFFICES ASSUME NEW s \in Upto(n + 1)
                 PROVE jt[s] = IF s = {} THEN 0 ELSE f[Pick(s)] + jt[s \ {Pick(s)}]
      <4> HIDE DEF Upto
      <4> QED OBVIOUS
    <3> HIDE DEF Upto
    <3> QED BY <2>2, <2>3
  <2>5. SumsOn(jt, f, Upto(n + 1))
    BY <2>4 DEF SumsOn
  <2> HIDE DEF jt, Upto
  <2> QED BY <2>5
<1>3. Cardinality(S) \in T
  <2> HIDE DEF T
  <2> QED BY <1>0, <1>1, <1>2, NumberInduction
<1>4. Upto(Cardinality(S)) = SUBSET S
  BY <1>0
<1> QED BY <1>3, <1>4

LEMMA SumIsAt ==
  ASSUME NEW f, NEW S, IsFiniteSet(S)
  PROVE  \E it : SumsOn(it, f, SUBSET S) /\ SumFunctionOnSet(f, S) = it[S]
<1> DEFINE it == CHOOSE x : SumsOn(x, f, SUBSET S)
<1>1. SumsOn(it, f, SUBSET S)
  BY SumsExist
<1>2. SumFunctionOnSet(f, S) = it[S]
  BY SumIsFold
<1> QED BY <1>1, <1>2

AgreeOn(f, g, S) == \A x \in S : f[x] = g[x]

\* Two such functions agree where both are defined.
LEMMA SumsAgree ==
  ASSUME NEW f, NEW g, NEW S, NEW T, NEW it, NEW jt, IsFiniteSet(S),
         SumsOn(it, f, SUBSET S), SumsOn(jt, g, SUBSET T), AgreeOn(f, g, S \cap T)
  PROVE  AgreeOn(it, jt, SUBSET (S \cap T))
<1> DEFINE G == {U \in SUBSET (S \cap T) : it[U] # jt[U]}
<1>1. SUFFICES ASSUME G # {} PROVE FALSE
  BY DEF AgreeOn
<1>2. \A U \in G : IsFiniteSet(U)
  BY FS_Subset
<1>3. PICK U \in G : \A V \in G : V \subseteq U => V = U
  <2> HIDE DEF G
  <2> QED BY <1>1, <1>2, LeastSet
<1> DEFINE V == U \ {Pick(U)}
<1>4. it[U] = (IF U = {} THEN 0 ELSE f[Pick(U)] + it[V])
  BY DEF SumsOn
<1>5. jt[U] = (IF U = {} THEN 0 ELSE g[Pick(U)] + jt[V])
  BY DEF SumsOn
<1>6. U # {}
  BY <1>4, <1>5
<1>7. Pick(U) \in U /\ f[Pick(U)] = g[Pick(U)]
  BY <1>6, PickIn DEF AgreeOn
<1>8. it[V] = jt[V]
  BY <1>3, <1>7
<1> QED BY <1>4, <1>5, <1>7, <1>8

\* Sums over a set depend on the function there and on nothing else.
LEMMA SumEqual ==
  ASSUME NEW f, NEW g, NEW S, IsFiniteSet(S), \A x \in S : f[x] = g[x]
  PROVE  SumFunctionOnSet(f, S) = SumFunctionOnSet(g, S)
<1>1. PICK it : SumsOn(it, f, SUBSET S) /\ SumFunctionOnSet(f, S) = it[S]
  BY SumIsAt
<1>2. PICK jt : SumsOn(jt, g, SUBSET S) /\ SumFunctionOnSet(g, S) = jt[S]
  BY SumIsAt
<1>3. AgreeOn(f, g, S \cap S)
  BY DEF AgreeOn
<1>4. AgreeOn(it, jt, SUBSET (S \cap S))
  BY <1>1, <1>2, <1>3, SumsAgree
<1>5. it[S] = jt[S]
  BY <1>4 DEF AgreeOn
<1> QED BY <1>1, <1>2, <1>5

LEMMA SumEmpty ==
  ASSUME NEW f
  PROVE  SumFunctionOnSet(f, {}) = 0
<1>1. PICK it : SumsOn(it, f, SUBSET {}) /\ SumFunctionOnSet(f, {}) = it[{}]
  BY SumIsAt, FS_EmptySet
<1> QED BY <1>1 DEF SumsOn

LEMMA SumPick ==
  ASSUME NEW f, NEW S, IsFiniteSet(S), S # {}
  PROVE  SumFunctionOnSet(f, S) = f[Pick(S)] + SumFunctionOnSet(f, S \ {Pick(S)})
<1> DEFINE T == S \ {Pick(S)}
<1>0. IsFiniteSet(T)
  BY FS_Subset
<1>1. PICK it : SumsOn(it, f, SUBSET S) /\ SumFunctionOnSet(f, S) = it[S]
  BY SumIsAt
<1>2. PICK jt : SumsOn(jt, f, SUBSET T) /\ SumFunctionOnSet(f, T) = jt[T]
  BY <1>0, SumIsAt
<1>3. it[S] = f[Pick(S)] + it[T]
  BY <1>1 DEF SumsOn
<1>4. AgreeOn(it, jt, SUBSET (S \cap T))
  <2> HIDE DEF T
  <2>1. AgreeOn(f, f, S \cap T)
    BY DEF AgreeOn
  <2> QED BY <1>1, <1>2, <2>1, SumsAgree
<1>5. it[T] = jt[T]
  BY <1>4 DEF AgreeOn
<1> QED BY <1>1, <1>2, <1>3, <1>5

\* What is summed are integers.
IntsOn(f, S) == \A x \in S : f[x] \in Int

LEMMA SumInt ==
  ASSUME NEW f, NEW S, IsFiniteSet(S), IntsOn(f, S)
  PROVE  SumFunctionOnSet(f, S) \in Int
<1> DEFINE F == {T \in SUBSET S : SumFunctionOnSet(f, T) \notin Int}
<1>1. SUFFICES ASSUME F # {} PROVE FALSE
  OBVIOUS
<1>2. \A T \in F : IsFiniteSet(T)
  BY FS_Subset
<1>3. PICK T \in F : \A U \in F : U \subseteq T => U = T
  <2> HIDE DEF F
  <2> QED BY <1>1, <1>2, LeastSet
<1>4. T # {}
  BY SumEmpty
<1>5. Pick(T) \in T
  BY <1>4, PickIn
<1>6. SumFunctionOnSet(f, T \ {Pick(T)}) \in Int
  BY <1>3, <1>5
<1>7. SumFunctionOnSet(f, T) = f[Pick(T)] + SumFunctionOnSet(f, T \ {Pick(T)})
  BY <1>2, <1>4, SumPick
<1> QED BY <1>5, <1>6, <1>7 DEF IntsOn

\* Any element may be summed first.
LEMMA SumRemove ==
  ASSUME NEW f, NEW S, IsFiniteSet(S), IntsOn(f, S), NEW x \in S
  PROVE  SumFunctionOnSet(f, S) = f[x] + SumFunctionOnSet(f, S \ {x})
<1> DEFINE Sum(T) == SumFunctionOnSet(f, T)
           F == {T \in SUBSET S : \E z \in T : Sum(T) # f[z] + Sum(T \ {z})}
<1>1. SUFFICES ASSUME F # {} PROVE FALSE
  OBVIOUS
<1>2. \A T \in SUBSET S : IsFiniteSet(T) /\ Sum(T) \in Int
  BY FS_Subset, SumInt DEF IntsOn
<1>3. PICK T \in F : \A U \in F : U \subseteq T => U = T
  <2>1. \A T \in F : IsFiniteSet(T)
    BY <1>2
  <2> HIDE DEF F
  <2> QED BY <1>1, <2>1, LeastSet
<1>4. PICK z \in T : Sum(T) # f[z] + Sum(T \ {z})
  BY <1>3
<1> DEFINE y == Pick(T)
<1>5. y \in T
  BY PickIn
<1>6. Sum(T) = f[y] + Sum(T \ {y})
  BY <1>2, SumPick
<1>7. y # z
  BY <1>4, <1>6
<1> HIDE DEF y
<1>8. Sum(T \ {y}) = f[z] + Sum((T \ {y}) \ {z})
  <2>1. T \ {y} \in SUBSET S /\ T \ {y} \subseteq T /\ T \ {y} # T /\ z \in T \ {y}
    BY <1>3, <1>5, <1>7
  <2>2. T \ {y} \notin F
    <3> HIDE DEF F
    <3> QED BY <1>3, <2>1
  <2> QED BY <2>1, <2>2
<1>9. Sum(T \ {z}) = f[y] + Sum((T \ {z}) \ {y})
  <2>1. T \ {z} \in SUBSET S /\ T \ {z} \subseteq T /\ T \ {z} # T /\ y \in T \ {z}
    BY <1>3, <1>5, <1>7
  <2>2. T \ {z} \notin F
    <3> HIDE DEF F
    <3> QED BY <1>3, <2>1
  <2> QED BY <2>1, <2>2
<1> DEFINE rest == Sum((T \ {z}) \ {y})
<1>10. Sum((T \ {y}) \ {z}) = rest
  <2>1. (T \ {y}) \ {z} = (T \ {z}) \ {y}
    OBVIOUS
  <2> QED BY <2>1
<1>11. f[y] \in Int /\ f[z] \in Int /\ rest \in Int
  <2>1. (T \ {z}) \ {y} \in SUBSET S
    OBVIOUS
  <2> QED BY <1>2, <1>5, <2>1 DEF IntsOn
<1> HIDE DEF rest
<1>12. f[y] + (f[z] + rest) = f[z] + (f[y] + rest)
  BY <1>11
<1> QED BY <1>4, <1>6, <1>8, <1>9, <1>10, <1>12

\* The sum with one element more.
LEMMA SumAdd ==
  ASSUME NEW f, NEW S, IsFiniteSet(S), NEW x, x \notin S, IntsOn(f, S \cup {x})
  PROVE  SumFunctionOnSet(f, S \cup {x}) = f[x] + SumFunctionOnSet(f, S)
<1>1. IsFiniteSet(S \cup {x}) /\ (S \cup {x}) \ {x} = S
  BY FS_AddElement
<1> QED BY <1>1, SumRemove

LEMMA SumOne ==
  ASSUME NEW f, NEW x, f[x] \in Int
  PROVE  SumFunctionOnSet(f, {x}) = f[x]
<1>1. SumFunctionOnSet(f, {} \cup {x}) = f[x] + SumFunctionOnSet(f, {})
  BY FS_EmptySet, SumAdd DEF IntsOn
<1> QED BY <1>1, SumEmpty

\* Term by term.
LEMMA SumPlus ==
  ASSUME NEW f, NEW g, NEW h, NEW S, IsFiniteSet(S), IntsOn(f, S), IntsOn(g, S),
         \A x \in S : h[x] = f[x] + g[x]
  PROVE  SumFunctionOnSet(h, S) = SumFunctionOnSet(f, S) + SumFunctionOnSet(g, S)
<1> DEFINE F == {T \in SUBSET S : SumFunctionOnSet(h, T) = SumFunctionOnSet(f, T) + SumFunctionOnSet(g, T)}
<1>1. {} \in F
  BY SumEmpty
<1>2. \A T \in SUBSET S : \A x \in S \ T : T \in F => T \cup {x} \in F
  <2> SUFFICES ASSUME NEW T \in SUBSET S, NEW x \in S \ T, T \in F PROVE T \cup {x} \in F
    OBVIOUS
  <2>1. IsFiniteSet(T) /\ IntsOn(f, T) /\ IntsOn(g, T) /\ T \cup {x} \in SUBSET S
    BY FS_Subset DEF IntsOn
  <2>2. SumFunctionOnSet(f, T) \in Int /\ SumFunctionOnSet(g, T) \in Int
    BY <2>1, SumInt
  <2>3. IntsOn(f, T \cup {x}) /\ IntsOn(g, T \cup {x}) /\ IntsOn(h, T \cup {x})
    BY DEF IntsOn
  <2>4. /\ SumFunctionOnSet(f, T \cup {x}) = f[x] + SumFunctionOnSet(f, T)
        /\ SumFunctionOnSet(g, T \cup {x}) = g[x] + SumFunctionOnSet(g, T)
        /\ SumFunctionOnSet(h, T \cup {x}) = h[x] + SumFunctionOnSet(h, T)
    BY <2>1, <2>3, SumAdd
  <2>5. f[x] \in Int /\ g[x] \in Int /\ h[x] = f[x] + g[x]
    BY DEF IntsOn
  <2>6. SumFunctionOnSet(h, T) = SumFunctionOnSet(f, T) + SumFunctionOnSet(g, T)
    OBVIOUS
  <2>7. SumFunctionOnSet(h, T \cup {x}) = SumFunctionOnSet(f, T \cup {x}) + SumFunctionOnSet(g, T \cup {x})
    BY <2>2, <2>4, <2>5, <2>6
  <2> QED BY <2>1, <2>7
<1> HIDE DEF F
<1>3. S \in F
  BY <1>1, <1>2, SetInduction
<1> QED BY <1>3 DEF F

\* Two sets with nothing in common.
LEMMA SumUnion ==
  ASSUME NEW f, NEW S, NEW T, IsFiniteSet(S), IsFiniteSet(T), S \cap T = {}, IntsOn(f, S \cup T)
  PROVE  SumFunctionOnSet(f, S \cup T) = SumFunctionOnSet(f, S) + SumFunctionOnSet(f, T)
<1> DEFINE F == {U \in SUBSET T : SumFunctionOnSet(f, S \cup U) = SumFunctionOnSet(f, S) + SumFunctionOnSet(f, U)}
<1>0. SumFunctionOnSet(f, S) \in Int
  BY SumInt DEF IntsOn
<1>1. {} \in F
  BY <1>0, SumEmpty
<1>2. \A U \in SUBSET T : \A x \in T \ U : U \in F => U \cup {x} \in F
  <2> SUFFICES ASSUME NEW U \in SUBSET T, NEW x \in T \ U, U \in F PROVE U \cup {x} \in F
    OBVIOUS
  <2>1. IsFiniteSet(U) /\ IsFiniteSet(S \cup U) /\ x \notin S \cup U
    BY FS_Subset, FS_Union
  <2>2. IntsOn(f, U \cup {x}) /\ IntsOn(f, (S \cup U) \cup {x}) /\ IntsOn(f, U)
    BY DEF IntsOn
  <2>3. /\ SumFunctionOnSet(f, U \cup {x}) = f[x] + SumFunctionOnSet(f, U)
        /\ SumFunctionOnSet(f, (S \cup U) \cup {x}) = f[x] + SumFunctionOnSet(f, S \cup U)
    BY <2>1, <2>2, SumAdd
  <2>4. SumFunctionOnSet(f, U) \in Int /\ f[x] \in Int
    BY <2>1, <2>2, SumInt DEF IntsOn
  <2>5. (S \cup U) \cup {x} = S \cup (U \cup {x})
    OBVIOUS
  <2>6. SumFunctionOnSet(f, S \cup U) = SumFunctionOnSet(f, S) + SumFunctionOnSet(f, U)
    OBVIOUS
  <2> DEFINE a == SumFunctionOnSet(f, S)
             b == SumFunctionOnSet(f, U)
  <2>8. f[x] + (a + b) = a + (f[x] + b)
    <3>1. a \in Int /\ b \in Int /\ f[x] \in Int
      BY <1>0, <2>4
    <3> HIDE DEF a, b
    <3> QED BY <3>1
  <2>7. SumFunctionOnSet(f, S \cup (U \cup {x})) = SumFunctionOnSet(f, S) + SumFunctionOnSet(f, U \cup {x})
    BY <2>3, <2>5, <2>6, <2>8
  <2> QED BY <2>7
<1> HIDE DEF F
<1>3. T \in F
  BY <1>1, <1>2, SetInduction
<1> QED BY <1>3 DEF F

LEMMA SumNat ==
  ASSUME NEW f, NEW S, IsFiniteSet(S), \A x \in S : f[x] \in Nat
  PROVE  SumFunctionOnSet(f, S) \in Nat
<1> DEFINE F == {T \in SUBSET S : SumFunctionOnSet(f, T) \in Nat}
<1>1. {} \in F
  BY SumEmpty
<1>2. \A T \in SUBSET S : \A x \in S \ T : T \in F => T \cup {x} \in F
  <2> SUFFICES ASSUME NEW T \in SUBSET S, NEW x \in S \ T, T \in F PROVE T \cup {x} \in F
    OBVIOUS
  <2>1. IsFiniteSet(T) /\ IntsOn(f, T \cup {x})
    BY FS_Subset DEF IntsOn
  <2>2. SumFunctionOnSet(f, T \cup {x}) = f[x] + SumFunctionOnSet(f, T)
    BY <2>1, SumAdd
  <2>3. f[x] \in Nat /\ SumFunctionOnSet(f, T) \in Nat
    OBVIOUS
  <2> QED BY <2>2, <2>3
<1> HIDE DEF F
<1>3. S \in F
  BY <1>1, <1>2, SetInduction
<1> QED BY <1>3 DEF F

LEMMA SumAtMost ==
  ASSUME NEW f, NEW g, NEW S, IsFiniteSet(S), IntsOn(f, S), IntsOn(g, S), \A x \in S : f[x] <= g[x]
  PROVE  SumFunctionOnSet(f, S) <= SumFunctionOnSet(g, S)
<1> DEFINE d == [x \in S |-> g[x] - f[x]]
<1>1. \A x \in S : d[x] \in Nat /\ g[x] = f[x] + d[x]
  <2> SUFFICES ASSUME NEW x \in S PROVE g[x] - f[x] \in Nat /\ g[x] = f[x] + (g[x] - f[x])
    OBVIOUS
  <2>1. f[x] \in Int /\ g[x] \in Int /\ f[x] <= g[x]
    BY DEF IntsOn
  <2> QED BY <2>1
<1> HIDE DEF d
<1>2. SumFunctionOnSet(d, S) \in Nat
  BY <1>1, SumNat
<1>3. SumFunctionOnSet(g, S) = SumFunctionOnSet(f, S) + SumFunctionOnSet(d, S)
  BY <1>1, SumPlus DEF IntsOn
<1>4. SumFunctionOnSet(f, S) \in Int /\ SumFunctionOnSet(g, S) \in Int
  BY SumInt
<1> QED BY <1>2, <1>3, <1>4

LEMMA SumSubset ==
  ASSUME NEW f, NEW T, IsFiniteSet(T), NEW S \in SUBSET T, \A x \in T : f[x] \in Nat
  PROVE  SumFunctionOnSet(f, S) <= SumFunctionOnSet(f, T)
<1>1. IsFiniteSet(S) /\ IsFiniteSet(T \ S) /\ S \cap (T \ S) = {} /\ S \cup (T \ S) = T
  BY FS_Subset
<1>2. SumFunctionOnSet(f, T) = SumFunctionOnSet(f, S) + SumFunctionOnSet(f, T \ S)
  <2>1. IntsOn(f, S \cup (T \ S))
    BY DEF IntsOn
  <2>2. SumFunctionOnSet(f, S \cup (T \ S)) = SumFunctionOnSet(f, S) + SumFunctionOnSet(f, T \ S)
    BY <1>1, <2>1, SumUnion
  <2> QED BY <1>1, <2>2
<1>3. SumFunctionOnSet(f, T \ S) \in Nat /\ SumFunctionOnSet(f, S) \in Nat
  BY <1>1, SumNat
<1> QED BY <1>2, <1>3

LEMMA SumZero ==
  ASSUME NEW f, NEW S, IsFiniteSet(S), \A x \in S : f[x] = 0
  PROVE  SumFunctionOnSet(f, S) = 0
<1> DEFINE F == {T \in SUBSET S : SumFunctionOnSet(f, T) = 0}
<1>1. {} \in F
  BY SumEmpty
<1>2. \A T \in SUBSET S : \A x \in S \ T : T \in F => T \cup {x} \in F
  <2> SUFFICES ASSUME NEW T \in SUBSET S, NEW x \in S \ T, T \in F PROVE T \cup {x} \in F
    OBVIOUS
  <2>1. IsFiniteSet(T) /\ IntsOn(f, T \cup {x})
    BY FS_Subset DEF IntsOn
  <2>2. SumFunctionOnSet(f, T \cup {x}) = f[x] + SumFunctionOnSet(f, T)
    BY <2>1, SumAdd
  <2> QED BY <2>2
<1> HIDE DEF F
<1>3. S \in F
  BY <1>1, <1>2, SetInduction
<1> QED BY <1>3 DEF F

\* What adds nothing may be left out.
LEMMA SumDrop ==
  ASSUME NEW f, NEW T, IsFiniteSet(T), NEW S \in SUBSET T, IntsOn(f, T), \A x \in T \ S : f[x] = 0
  PROVE  SumFunctionOnSet(f, S) = SumFunctionOnSet(f, T)
<1> DEFINE D == T \ S
<1>1. IsFiniteSet(S) /\ IsFiniteSet(D) /\ S \cap D = {} /\ S \cup D = T /\ IntsOn(f, S)
  BY FS_Subset DEF IntsOn
<1>2. \A x \in D : f[x] = 0
  OBVIOUS
<1> HIDE DEF D
<1>3. SumFunctionOnSet(f, T) = SumFunctionOnSet(f, S) + SumFunctionOnSet(f, D)
  <2>1. IntsOn(f, S \cup D)
    BY <1>1
  <2>2. SumFunctionOnSet(f, S \cup D) = SumFunctionOnSet(f, S) + SumFunctionOnSet(f, D)
    BY <1>1, <2>1, SumUnion
  <2> QED BY <1>1, <2>2
<1>4. SumFunctionOnSet(f, D) = 0
  BY <1>1, <1>2, SumZero
<1>5. SumFunctionOnSet(f, S) \in Int
  BY <1>1, SumInt
<1> QED BY <1>3, <1>4, <1>5

PlacedIn(g, S, B) == \A x \in S : g[x] \in B
FibreSums(parts, f, g, S, B) == \A b \in B : parts[b] = SumFunctionOnSet(f, {x \in S : g[x] = b})

\* A sum over S is the sum over the values g takes of the sums over the
\* elements where it takes them: parts[b] is the sum over those of b.
LEMMA SumFibres ==
  ASSUME NEW f, NEW S, IsFiniteSet(S), IntsOn(f, S), NEW g, NEW B, IsFiniteSet(B),
         PlacedIn(g, S, B), NEW parts, FibreSums(parts, f, g, S, B)
  PROVE  SumFunctionOnSet(parts, B) = SumFunctionOnSet(f, S)
<1> USE DEF PlacedIn, FibreSums
<1> DEFINE Over(C) == {x \in S : g[x] \in C}
           F == {C \in SUBSET B : SumFunctionOnSet(parts, C) = SumFunctionOnSet(f, Over(C))}
<1>0. \A C \in SUBSET B : IntsOn(parts, C)
  <2> SUFFICES ASSUME NEW b \in B PROVE parts[b] \in Int
    BY DEF IntsOn
  <2>1. IsFiniteSet({x \in S : g[x] = b}) /\ IntsOn(f, {x \in S : g[x] = b})
    BY FS_Subset DEF IntsOn
  <2> QED BY <2>1, SumInt
<1>1. {} \in F
  <2>1. Over({}) = {}
    OBVIOUS
  <2> QED BY <2>1, SumEmpty
<1>2. \A C \in SUBSET B : \A c \in B \ C : C \in F => C \cup {c} \in F
  <2> SUFFICES ASSUME NEW C \in SUBSET B, NEW c \in B \ C, C \in F PROVE C \cup {c} \in F
    OBVIOUS
  <2> DEFINE At == {x \in S : g[x] = c}
  <2>1. IsFiniteSet(C) /\ C \cup {c} \in SUBSET B
    BY FS_Subset
  <2>2. SumFunctionOnSet(parts, C \cup {c}) = parts[c] + SumFunctionOnSet(parts, C)
    BY <1>0, <2>1, SumAdd
  <2>3. Over(C \cup {c}) = Over(C) \cup At /\ Over(C) \cap At = {}
    OBVIOUS
  <2>4. IsFiniteSet(Over(C)) /\ IsFiniteSet(At) /\ IntsOn(f, Over(C) \cup At)
    BY FS_Subset DEF IntsOn
  <2>5. SumFunctionOnSet(f, Over(C) \cup At) = SumFunctionOnSet(f, Over(C)) + SumFunctionOnSet(f, At)
    <3> HIDE DEF Over, At
    <3> QED BY <2>3, <2>4, SumUnion
  <2>6. SumFunctionOnSet(f, Over(C)) \in Int /\ SumFunctionOnSet(f, At) \in Int
    <3>1. IntsOn(f, Over(C)) /\ IntsOn(f, At)
      BY <2>4 DEF IntsOn
    <3> HIDE DEF Over, At
    <3> QED BY <2>4, <3>1, SumInt
  <2>7. SumFunctionOnSet(parts, C) = SumFunctionOnSet(f, Over(C)) /\ parts[c] = SumFunctionOnSet(f, At)
    OBVIOUS
  <2>8. SumFunctionOnSet(parts, C \cup {c}) = SumFunctionOnSet(f, Over(C \cup {c}))
    <3> DEFINE a == SumFunctionOnSet(f, Over(C))
               b == SumFunctionOnSet(f, At)
    <3>1. SumFunctionOnSet(parts, C \cup {c}) = b + a
      BY <2>2, <2>7
    <3>2. SumFunctionOnSet(f, Over(C \cup {c})) = a + b
      BY <2>3, <2>5
    <3>3. a \in Int /\ b \in Int
      BY <2>6
    <3> HIDE DEF a, b
    <3> QED BY <3>1, <3>2, <3>3
  <2> QED BY <2>1, <2>8
<1>3. B \in F
  <2> HIDE DEF F
  <2> QED BY <1>1, <1>2, SetInduction
<1>4. Over(B) = S
  OBVIOUS
<1> QED BY <1>3, <1>4

-----------------------------------------------------------------------------
(* Ranks. *)

\* R orders S: of any two of S one is before the other.
StrictlyOrders(R, S) ==
  /\ \A x \in S : <<x, x>> \notin R
  /\ \A x, y \in S : x # y => <<x, y>> \in R \/ <<y, x>> \in R
  /\ \A x, y, z \in S : <<x, y>> \in R /\ <<y, z>> \in R => <<x, z>> \in R

\* How many are before x.
Below(R, S, x) == {y \in S : <<y, x>> \in R}

LEMMA RankGrows ==
  ASSUME NEW S, IsFiniteSet(S), NEW R, StrictlyOrders(R, S), NEW x \in S, NEW y \in S
  PROVE  /\ Cardinality(Below(R, S, x)) \in 0..(Cardinality(S) - 1)
         /\ <<x, y>> \in R <=> Cardinality(Below(R, S, x)) < Cardinality(Below(R, S, y))
<1>1. \A a, b \in S : <<a, b>> \in R => Cardinality(Below(R, S, a)) < Cardinality(Below(R, S, b))
  <2> SUFFICES ASSUME NEW a \in S, NEW b \in S, <<a, b>> \in R
               PROVE Cardinality(Below(R, S, a)) < Cardinality(Below(R, S, b))
    OBVIOUS
  <2>1. Below(R, S, a) \subseteq Below(R, S, b) /\ a \in Below(R, S, b) /\ a \notin Below(R, S, a)
    BY DEF Below, StrictlyOrders
  <2>2. IsFiniteSet(Below(R, S, b))
    BY FS_Subset DEF Below
  <2>3. Below(R, S, a) # Below(R, S, b)
    BY <2>1
  <2> HIDE DEF Below
  <2>4. IsFiniteSet(Below(R, S, a))
    BY <2>1, <2>2, FS_Subset
  <2> QED BY <2>1, <2>2, <2>3, <2>4, FS_Subset, FS_CardinalityType
<1>2. \A a \in S : Cardinality(Below(R, S, a)) \in 0..(Cardinality(S) - 1)
  <2> SUFFICES ASSUME NEW a \in S PROVE Cardinality(Below(R, S, a)) \in 0..(Cardinality(S) - 1)
    OBVIOUS
  <2>1. Below(R, S, a) \subseteq S /\ Below(R, S, a) # S
    BY DEF Below, StrictlyOrders
  <2> QED BY <2>1, FS_Subset, FS_CardinalityType
<1>3. x = y => ~(<<x, y>> \in R)
  BY DEF StrictlyOrders
<1>4. x # y => <<x, y>> \in R \/ <<y, x>> \in R
  BY DEF StrictlyOrders
<1>5. Cardinality(Below(R, S, x)) \in Int /\ Cardinality(Below(R, S, y)) \in Int
  BY <1>2
<1> QED BY <1>1, <1>2, <1>3, <1>4, <1>5

\* Every place from the first to the last is taken.
LEMMA RankTaken ==
  ASSUME NEW S, IsFiniteSet(S), NEW R, StrictlyOrders(R, S), NEW k \in 0..(Cardinality(S) - 1)
  PROVE  \E x \in S : Cardinality(Below(R, S, x)) = k
<1> DEFINE n == Cardinality(S)
           rank == [x \in S |-> Cardinality(Below(R, S, x))]
           T == 0..(n - 1)
<1>1. n \in Nat
  BY FS_CardinalityType
<1>2. IsFiniteSet(T) /\ Cardinality(T) = n
  <2>1. 0 \in Int /\ n - 1 \in Int
    BY <1>1
  <2>2. Cardinality(0..(n - 1)) = IF 0 > n - 1 THEN 0 ELSE (n - 1) - 0 + 1
    BY <2>1, FS_Interval
  <2> QED BY <1>1, <2>1, <2>2, FS_Interval
<1>3. rank \in [S -> T]
  BY RankGrows
<1>4. \A x, y \in S : rank[x] = rank[y] => x = y
  <2> SUFFICES ASSUME NEW x \in S, NEW y \in S, rank[x] = rank[y], x # y PROVE FALSE
    OBVIOUS
  <2>1. <<x, y>> \in R \/ <<y, x>> \in R
    BY DEF StrictlyOrders
  <2>2. rank[x] \in Int /\ rank[y] \in Int
    BY <1>3
  <2>3. rank[x] < rank[y] \/ rank[y] < rank[x]
    BY <2>1, RankGrows
  <2> QED BY <2>2, <2>3
<1> HIDE DEF T, rank
<1>5. rank \in Surjection(S, T)
  <2>1. rank \in Injection(S, T)
    BY <1>3, <1>4 DEF Injection, IsInjective
  <2>2. Cardinality(S) = Cardinality(T)
    BY <1>2
  <2> QED BY <1>2, <2>1, <2>2, FS_Injection
<1>6. \E x \in S : rank[x] = k
  BY <1>5 DEF Surjection, T
<1> QED BY <1>6 DEF rank

LEMMA FunctionIsSeq ==
  ASSUME NEW S, NEW n \in Nat, NEW e \in [1..n -> S]
  PROVE  e \in Seq(S) /\ Len(e) = n
OBVIOUS

\* An enumeration with k - 1 elements below the one of place k is in order.
Enumerates(e, R, S) ==
  e \in [1..Cardinality(S) -> S] /\ \A k \in 1..Cardinality(S) : Cardinality(Below(R, S, e[k])) = k - 1

LEMMA InOrder ==
  ASSUME NEW S, NEW R, NEW e, IsFiniteSet(S), StrictlyOrders(R, S), Enumerates(e, R, S)
  PROVE  /\ Cardinality(S) \in Nat
         /\ e \in Seq(S) /\ Len(e) = Cardinality(S)
         /\ \A x \in S : \E k \in 1..Cardinality(S) : e[k] = x
         /\ \A a, b \in 1..Cardinality(S) : a < b <=> <<e[a], e[b]>> \in R
<1> DEFINE n == Cardinality(S)
           rank(x) == Cardinality(Below(R, S, x))
<1>1. n \in Nat
  BY FS_CardinalityType
<1>2. \A x \in S : rank(x) \in Int /\ 0 <= rank(x) /\ rank(x) + 1 <= n
  <2> SUFFICES ASSUME NEW x \in S PROVE rank(x) \in Int /\ 0 <= rank(x) /\ rank(x) + 1 <= n
    OBVIOUS
  <2>1. rank(x) \in 0..(n - 1)
    BY RankGrows
  <2> HIDE DEF n, rank
  <2> QED BY <1>1, <2>1
<1>3. \A x, y \in S : <<x, y>> \in R <=> rank(x) < rank(y)
  BY RankGrows
<1>4. \A x, y \in S : rank(x) = rank(y) => x = y
  <2> SUFFICES ASSUME NEW x \in S, NEW y \in S, rank(x) = rank(y), x # y PROVE FALSE
    OBVIOUS
  <2>1. <<x, y>> \in R \/ <<y, x>> \in R
    BY DEF StrictlyOrders
  <2> HIDE DEF rank
  <2> QED BY <1>2, <1>3, <2>1
<1>5. \A k \in 1..n : e[k] \in S /\ rank(e[k]) = k - 1
  BY DEF Enumerates
<1>6. e \in Seq(S) /\ Len(e) = n
  BY <1>1, FunctionIsSeq DEF Enumerates
<1> HIDE DEF rank, n
<1>7. \A x \in S : \E k \in 1..n : e[k] = x
  <2> SUFFICES ASSUME NEW x \in S PROVE \E k \in 1..n : e[k] = x
    OBVIOUS
  <2>1. rank(x) + 1 \in 1..n /\ (rank(x) + 1) - 1 = rank(x)
    BY <1>1, <1>2
  <2> QED BY <1>4, <1>5, <2>1
<1>8. \A a, b \in 1..n : a < b <=> <<e[a], e[b]>> \in R
  <2> SUFFICES ASSUME NEW a \in 1..n, NEW b \in 1..n PROVE a < b <=> <<e[a], e[b]>> \in R
    OBVIOUS
  <2>1. e[a] \in S /\ rank(e[a]) = a - 1 /\ e[b] \in S /\ rank(e[b]) = b - 1
    BY <1>5
  <2>2. <<e[a], e[b]>> \in R <=> rank(e[a]) < rank(e[b])
    BY <1>3, <2>1
  <2> QED BY <2>1, <2>2
<1> QED BY <1>1, <1>6, <1>7, <1>8 DEF n

-----------------------------------------------------------------------------
(* Division. *)

LEMMA Multiples ==
  ASSUME NEW p \in Int, NEW q \in Int, NEW w \in Nat \ {0}
  PROVE  p <= q <=> p * w <= q * w
<1>1. ASSUME NEW a \in Int, NEW b \in Int, a < b PROVE a * w < b * w
  <2>1. b - a \in Nat /\ b - a >= 1
    BY <1>1
  <2>2. (b - a) * w >= w
    BY <2>1
  <2>3. b * w = a * w + (b - a) * w
    OBVIOUS
  <2>4. a * w \in Int /\ (b - a) * w \in Int
    BY <2>1
  <2> QED BY <2>2, <2>3, <2>4
<1>2. CASE p = q
  BY <1>2
<1>3. CASE p < q
  BY <1>1, <1>3
<1>4. CASE q < p
  <2>1. q * w < p * w /\ q * w \in Int /\ p * w \in Int
    BY <1>1, <1>4
  <2> QED BY <1>4, <2>1
<1> QED BY <1>2, <1>3, <1>4

\* The multiple of w at or before x.
LEMMA FloorIs ==
  ASSUME NEW x \in Int, NEW w \in Nat \ {0}
  PROVE  /\ x \div w \in Int /\ (x \div w) * w \in Int
         /\ (x \div w) * w <= x /\ x < (x \div w) * w + w
         /\ \A q \in Int : q * w <= x <=> q <= x \div w
<1>1. x \div w \in Int /\ (x \div w) * w \in Int
  OBVIOUS
<1>2. (x \div w) * w <= x /\ x < (x \div w) * w + w
  OBVIOUS
<1>3. ASSUME NEW q \in Int PROVE q * w <= x <=> q <= x \div w
  <2> DEFINE d == x \div w
  <2>0. d \in Int /\ d * w <= x /\ x < (d + 1) * w /\ d * w \in Int /\ q * w \in Int /\ (d + 1) * w \in Int
    <3>1. (d + 1) * w = d * w + w
      BY <1>1
    <3> QED BY <1>1, <1>2, <3>1
  <2> HIDE DEF d
  <2>1. CASE q <= d
    <3>1. q * w <= d * w
      BY <2>0, <2>1, Multiples
    <3> QED BY <2>0, <2>1, <3>1 DEF d
  <2>2. CASE ~(q <= d)
    <3>1. d + 1 <= q /\ d + 1 \in Int
      BY <2>0, <2>2
    <3>2. (d + 1) * w <= q * w
      BY <3>1, Multiples
    <3> QED BY <2>0, <2>2, <3>2 DEF d
  <2> QED BY <2>1, <2>2
<1> QED BY <1>1, <1>2, <1>3

LEMMA FloorGrows ==
  ASSUME NEW x \in Int, NEW y \in Int, x <= y, NEW w \in Nat \ {0}
  PROVE  (x \div w) * w <= (y \div w) * w
<1> DEFINE a == x \div w
           b == y \div w
<1>1. a \in Int /\ b \in Int /\ a * w \in Int /\ a * w <= x
  BY FloorIs
<1>2. a * w <= y
  BY <1>1
<1>3. a <= b
  BY <1>1, <1>2, FloorIs
<1> HIDE DEF a, b
<1>4. a * w <= b * w
  BY <1>1, <1>3, Multiples
<1> QED BY <1>4 DEF a, b

LEMMA ImageFinite ==
  ASSUME NEW S, IsFiniteSet(S), NEW f
  PROVE  IsFiniteSet({f[x] : x \in S})
<1> DEFINE T == {f[x] : x \in S}
           h == [x \in S |-> f[x]]
<1>1. h \in Surjection(S, T)
  BY DEF Surjection
<1>2. IsFiniteSet(T)
  <2> HIDE DEF h, T
  <2> QED BY <1>1, FS_Surjection
<1> QED BY <1>2

-----------------------------------------------------------------------------
(* Recursion over numbers, and sequences. *)

\* f is base at 0 and step of the number and of what f is before it.
RecursionOf(f, n, base, step) == f = [i \in 0..n |-> IF i = 0 THEN base ELSE step[<<i, f[i - 1]>>]]
StepOn(step, n, S) == step \in [(1..n) \X S -> S]

\* What a recursive function of numbers returns is given step by step.
LEMMA RecursionTyped ==
  ASSUME NEW n \in Nat, NEW S, NEW base \in S, NEW step, StepOn(step, n, S),
         NEW f, RecursionOf(f, n, base, step)
  PROVE  /\ f \in [0..n -> S] /\ f[0] = base
         /\ \A i \in 1..n : f[i] = step[<<i, f[i - 1]>>]
<1> USE DEF StepOn
<1> DEFINE T == {m \in Nat : m <= n => f[m] \in S}
<1>0. /\ DOMAIN f = 0..n /\ f[0] = base /\ f = [i \in 0..n |-> f[i]]
      /\ \A i \in 1..n : f[i] = step[<<i, f[i - 1]>>]
  BY DEF RecursionOf
<1>1. 0 \in T
  BY <1>0
<1>2. \A m \in Nat : m \in T => m + 1 \in T
  <2> SUFFICES ASSUME NEW m \in Nat, m <= n => f[m] \in S, m + 1 <= n PROVE f[m + 1] \in S
    OBVIOUS
  <2>1. m + 1 \in 1..n /\ (m + 1) - 1 = m /\ m <= n
    OBVIOUS
  <2>2. f[m + 1] = step[<<m + 1, f[m]>>] /\ f[m] \in S
    BY <1>0, <2>1
  <2>3. <<m + 1, f[m]>> \in (1..n) \X S
    BY <2>1, <2>2
  <2> QED BY <2>2, <2>3
<1> HIDE DEF T
<1>3. Nat \subseteq T
  BY <1>1, <1>2, NumberInduction
<1>4. \A i \in 0..n : f[i] \in S
  <2> SUFFICES ASSUME NEW i \in 0..n PROVE f[i] \in S
    OBVIOUS
  <2>1. i \in Nat /\ i <= n
    OBVIOUS
  <2> QED BY <1>3, <2>1 DEF T
<1>5. f \in [0..n -> S]
  BY <1>0, <1>4
<1> QED BY <1>0, <1>5

\* A recursive function of numbers is one: CHOOSE finds it.
LEMMA RecursionExists ==
  ASSUME NEW n \in Nat, NEW S, NEW base \in S, NEW step, StepOn(step, n, S)
  PROVE  \E f : RecursionOf(f, n, base, step)
<1> USE DEF StepOn
<1> DEFINE Upto(m) == \E f \in [0..m -> S] : f[0] = base /\ \A i \in 1..m : f[i] = step[<<i, f[i - 1]>>]
           T == {m \in Nat : m <= n => Upto(m)}
<1>1. 0 \in T
  <2> DEFINE g == [i \in 0..0 |-> base]
  <2>1. g \in [0..0 -> S] /\ g[0] = base /\ 1..0 = {}
    OBVIOUS
  <2> HIDE DEF g
  <2> QED BY <2>1
<1>2. \A m \in Nat : m \in T => m + 1 \in T
  <2> SUFFICES ASSUME NEW m \in Nat, m <= n => Upto(m), m + 1 <= n PROVE Upto(m + 1)
    OBVIOUS
  <2>0. m <= n /\ m + 1 \in 1..n /\ m \in 0..m /\ (m + 1) - 1 = m /\ m + 1 \notin 0..m
    OBVIOUS
  <2>1. PICK f \in [0..m -> S] : f[0] = base /\ \A i \in 1..m : f[i] = step[<<i, f[i - 1]>>]
    BY <2>0
  <2> DEFINE g == [i \in 0..(m + 1) |-> IF i = m + 1 THEN step[<<m + 1, f[m]>>] ELSE f[i]]
  <2>2. \A i \in 0..m : i # m + 1 /\ i \in 0..(m + 1) /\ g[i] = f[i]
    OBVIOUS
  <2>3. f[m] \in S /\ g[m + 1] = step[<<m + 1, f[m]>>]
    BY <2>0, <2>1
  <2>4. <<m + 1, f[m]>> \in (1..n) \X S
    BY <2>0, <2>3
  <2>5. g[m + 1] \in S
    BY <2>3, <2>4
  <2>6. DOMAIN g = 0..(m + 1) /\ g = [i \in 0..(m + 1) |-> g[i]]
    OBVIOUS
  <2> HIDE DEF g
  <2>7. g \in [0..(m + 1) -> S]
    <3>1. ASSUME NEW i \in 0..(m + 1) PROVE g[i] \in S
      <4>1. i = m + 1 \/ i \in 0..m
        OBVIOUS
      <4> QED BY <2>1, <2>2, <2>5, <4>1
    <3> QED BY <2>6, <3>1
  <2>8. g[0] = base
    <3>1. 0 \in 0..m
      OBVIOUS
    <3> QED BY <2>1, <2>2, <3>1
  <2>9. ASSUME NEW i \in 1..(m + 1) PROVE g[i] = step[<<i, g[i - 1]>>]
    <3>1. CASE i = m + 1
      <4>1. g[i - 1] = f[m]
        BY <2>0, <2>2, <3>1
      <4> QED BY <2>3, <3>1, <4>1
    <3>2. CASE i # m + 1
      <4>1. i \in 1..m /\ i \in 0..m /\ i - 1 \in 0..m
        BY <3>2
      <4>2. g[i] = f[i] /\ g[i - 1] = f[i - 1]
        BY <2>2, <4>1
      <4> QED BY <2>1, <4>1, <4>2
    <3> QED BY <3>1, <3>2
  <2> QED BY <2>7, <2>8, <2>9
<1>3. Nat \subseteq T
  <2> HIDE DEF T
  <2> QED BY <1>1, <1>2, NumberInduction
<1>4. Upto(n)
  BY <1>3
<1>5. PICK f \in [0..n -> S] : f[0] = base /\ \A i \in 1..n : f[i] = step[<<i, f[i - 1]>>]
  BY <1>4
<1>6. f = [i \in 0..n |-> IF i = 0 THEN base ELSE step[<<i, f[i - 1]>>]]
  <2>1. \A i \in 0..n : i = 0 \/ i \in 1..n
    OBVIOUS
  <2>2. \A i \in 0..n : f[i] = IF i = 0 THEN base ELSE step[<<i, f[i - 1]>>]
    BY <1>5, <2>1
  <2> QED BY <2>2
<1> QED BY <1>6 DEF RecursionOf

LEMMA MinIn ==
  ASSUME NEW I, I # {}, I \subseteq Nat
  PROVE  Min(I) \in I /\ \A j \in I : Min(I) <= j
BY LeastNat DEF Min

LEMMA SameSeq ==
  ASSUME NEW S, NEW s \in Seq(S), NEW t \in Seq(S), Len(s) = Len(t), \A j \in 1..Len(s) : s[j] = t[j]
  PROVE  s = t
OBVIOUS

LEMMA AppendHas ==
  ASSUME NEW S, NEW s \in Seq(S), NEW x \in S
  PROVE  /\ Append(s, x) \in Seq(S) /\ Len(Append(s, x)) = Len(s) + 1 /\ Append(s, x) # <<>>
         /\ Append(s, x)[Len(s) + 1] = x /\ \A j \in 1..Len(s) : Append(s, x)[j] = s[j]
OBVIOUS

LEMMA ConcatHas ==
  ASSUME NEW S, NEW s \in Seq(S), NEW t \in Seq(S)
  PROVE  /\ s \o t \in Seq(S) /\ Len(s \o t) = Len(s) + Len(t)
         /\ \A j \in 1..Len(s) : (s \o t)[j] = s[j]
         /\ \A j \in 1..Len(t) : (s \o t)[Len(s) + j] = t[j]
OBVIOUS

LEMMA HeadHas ==
  ASSUME NEW S, NEW w \in Seq(S), NEW p \in 0..Len(w)
  PROVE  /\ SubSeq(w, 1, p) \in Seq(S) /\ Len(SubSeq(w, 1, p)) = p
         /\ \A j \in 1..p : SubSeq(w, 1, p)[j] = w[j]
OBVIOUS

\* What is left of a sequence, element by element.
LEMMA TailHas ==
  ASSUME NEW S, NEW w \in Seq(S), NEW p \in 0..Len(w)
  PROVE  /\ SubSeq(w, p + 1, Len(w)) \in Seq(S) /\ Len(SubSeq(w, p + 1, Len(w))) = Len(w) - p
         /\ \A j \in 1..(Len(w) - p) : SubSeq(w, p + 1, Len(w))[j] = w[p + j]
<1>1. p \in Nat /\ Len(w) \in Nat /\ p <= Len(w) /\ p + 1 \in 1..(Len(w) + 1)
  OBVIOUS
<1>2. /\ SubSeq(w, p + 1, Len(w)) \in Seq(S)
      /\ Len(SubSeq(w, p + 1, Len(w))) = IF p + 1 <= Len(w) THEN Len(w) - (p + 1) + 1 ELSE 0
      /\ \A j \in 1..(Len(w) - (p + 1) + 1) : SubSeq(w, p + 1, Len(w))[j] = w[p + 1 + j - 1]
  BY <1>1, SubSeqProperties
<1> DEFINE n == Len(w)
           s == SubSeq(w, p + 1, Len(w))
<1>3. n - (p + 1) + 1 = n - p /\ (\A j \in 1..(n - p) : p + 1 + j - 1 = p + j) /\ (p + 1 <= n \/ n - p = 0) /\ n - p \in Nat
  BY <1>1
<1>4. s \in Seq(S) /\ Len(s) = (IF p + 1 <= n THEN n - (p + 1) + 1 ELSE 0) /\ \A j \in 1..(n - (p + 1) + 1) : s[j] = w[p + 1 + j - 1]
  BY <1>2
<1> HIDE DEF n, s
<1>5. Len(s) = n - p
  BY <1>1, <1>3, <1>4 DEF n
<1>6. \A j \in 1..(n - p) : s[j] = w[p + j]
  BY <1>3, <1>4
<1> QED BY <1>4, <1>5, <1>6 DEF n, s

\* A tail of a tail.
LEMMA TailOfTail ==
  ASSUME NEW S, NEW w \in Seq(S), NEW p \in 0..Len(w), NEW q \in 0..(Len(w) - p)
  PROVE  LET s == SubSeq(w, p + 1, Len(w)) IN SubSeq(s, q + 1, Len(s)) = SubSeq(w, (p + q) + 1, Len(w))
<1> DEFINE s == SubSeq(w, p + 1, Len(w))
           t == SubSeq(s, q + 1, Len(s))
           u == SubSeq(w, (p + q) + 1, Len(w))
           n == Len(w)
<1>1. s \in Seq(S) /\ Len(s) = n - p /\ \A j \in 1..(n - p) : s[j] = w[p + j]
  BY TailHas
<1>2. n \in Nat /\ p \in Nat /\ q \in Nat /\ p <= n /\ q <= n - p /\ p + q \in 0..n /\ n - p \in Nat
  OBVIOUS
<1> HIDE DEF s
<1>3. t \in Seq(S) /\ Len(t) = (n - p) - q /\ \A j \in 1..((n - p) - q) : t[j] = s[q + j]
  <2>1. s \in Seq(S) /\ q \in 0..Len(s) /\ Len(s) = n - p
    BY <1>1, <1>2
  <2> HIDE DEF n
  <2> QED BY <2>1, TailHas
<1>4. u \in Seq(S) /\ Len(u) = n - (p + q) /\ \A j \in 1..(n - (p + q)) : u[j] = w[(p + q) + j]
  BY <1>2, TailHas
<1> HIDE DEF t, u, n
<1>5. (n - p) - q = n - (p + q)
  BY <1>2
<1>6. ASSUME NEW j \in 1..(n - (p + q)) PROVE t[j] = u[j]
  <2>1. q + j \in 1..(n - p) /\ p + (q + j) = (p + q) + j
    BY <1>2
  <2> QED BY <1>1, <1>3, <1>4, <1>5, <2>1
<1> QED BY <1>3, <1>4, <1>5, <1>6, SameSeq DEF s, t, u

\* FlattenSeq puts the sequences one after the other: at[k] is where the k-th ends.
EndsAt(at, seqs) ==
  at \in [0..Len(seqs) -> Nat] /\ at[0] = 0 /\ \A k \in 1..Len(seqs) : at[k] = at[k - 1] + Len(seqs[k])

PlacedAt(whole, at, seqs) ==
  \A k \in 1..Len(seqs) : \A j \in 1..Len(seqs[k]) : whole[at[k - 1] + j] = seqs[k][j]

\* There is such an at.
LEMMA FlattenPlaces ==
  ASSUME NEW S, NEW seqs \in Seq(Seq(S))
  PROVE  \E at : /\ EndsAt(at, seqs) /\ PlacedAt(FlattenSeq(seqs), at, seqs)
                 /\ FlattenSeq(seqs) \in Seq(S) /\ Len(FlattenSeq(seqs)) = at[Len(seqs)]
                 /\ \A k \in 0..Len(seqs) : at[k] <= Len(FlattenSeq(seqs))
<1> DEFINE n    == Len(seqs)
           step == [x \in (1..n) \X Seq(S) |-> x[2] \o seqs[x[1]]]
<1>1. n \in Nat /\ \A k \in 1..n : seqs[k] \in Seq(S) /\ Len(seqs[k]) \in Nat
  OBVIOUS
<1>2. <<>> \in Seq(S) /\ StepOn(step, n, Seq(S))
  BY DEF StepOn
<1>3. \A i \in 1..n, s \in Seq(S) : step[<<i, s>>] = s \o seqs[i]
  OBVIOUS
<1> HIDE DEF step
<1>4. PICK f : RecursionOf(f, n, <<>>, step)
  BY <1>1, <1>2, RecursionExists
<1>5. f \in [0..n -> Seq(S)] /\ f[0] = <<>> /\ \A i \in 1..n : f[i] = f[i - 1] \o seqs[i]
  <2> DEFINE SS == Seq(S)
  <2>0. n \in Nat /\ <<>> \in SS /\ StepOn(step, n, SS)
    BY <1>1, <1>2
  <2>1. f \in [0..n -> SS] /\ f[0] = <<>> /\ \A i \in 1..n : f[i] = step[<<i, f[i - 1]>>]
    <3> HIDE DEF SS, n
    <3> QED BY <1>4, <2>0, RecursionTyped
  <2>2. \A i \in 1..n : f[i - 1] \in SS
    <3>1. \A i \in 1..n : i - 1 \in 0..n
      BY <1>1
    <3> HIDE DEF SS, n
    <3> QED BY <2>1, <3>1
  <2> QED BY <1>3, <2>1, <2>2
<1> DEFINE E(g) == g = [i \in 1..n |-> IF i = 1 THEN seqs[i] ELSE g[i - 1] \o seqs[i]]
           F == CHOOSE g : E(g)
<1>6. n # 0 => FlattenSeq(seqs) = F[n]
  BY DEF FlattenSeq
<1>7. E(F)
  <2> DEFINE g == [i \in 1..n |-> f[i]]
  <2>1. ASSUME NEW i \in 1..n PROVE g[i] = IF i = 1 THEN seqs[i] ELSE g[i - 1] \o seqs[i]
    <3>1. CASE i = 1
      <4>1. f[1] = <<>> \o seqs[1] /\ seqs[1] \in Seq(S)
        BY <1>1, <1>5, <3>1
      <4> QED BY <3>1, <4>1
    <3>2. CASE i # 1
      <4>1. i - 1 \in 1..n
        BY <1>1, <3>2
      <4> QED BY <1>5, <3>2, <4>1
    <3> QED BY <3>1, <3>2
  <2>2. g = [i \in 1..n |-> g[i]]
    OBVIOUS
  <2> HIDE DEF g
  <2>3. E(g)
    BY <2>1, <2>2
  <2> QED BY <2>3
<1> HIDE DEF F
<1>8. \A i \in 1..n : F[i] = f[i]
  <2> DEFINE T == {m \in Nat : m \in 1..n => F[m] = f[m]}
  <2>1. 0 \in T
    OBVIOUS
  <2>2. \A m \in Nat : m \in T => m + 1 \in T
    <3> SUFFICES ASSUME NEW m \in Nat, m \in 1..n => F[m] = f[m], m + 1 \in 1..n PROVE F[m + 1] = f[m + 1]
      OBVIOUS
    <3>1. CASE m = 0
      <4>0. 1 \in 1..n
        BY <3>1
      <4>1. F[1] = seqs[1] /\ f[1] = f[1 - 1] \o seqs[1] /\ seqs[1] \in Seq(S)
        BY <1>1, <1>5, <1>7, <4>0
      <4>2. <<>> \o seqs[1] = seqs[1]
        BY <4>1
      <4>3. f[1 - 1] = <<>> /\ m + 1 = 1
        BY <1>5, <3>1
      <4> QED BY <4>1, <4>2, <4>3
    <3>2. CASE m # 0
      <4>1. m \in 1..n /\ (m + 1) - 1 = m /\ m + 1 # 1
        BY <1>1, <3>2
      <4>2. F[m + 1] = F[m] \o seqs[m + 1]
        BY <1>7, <4>1
      <4>3. f[m + 1] = f[m] \o seqs[m + 1]
        BY <1>5, <4>1
      <4> QED BY <4>1, <4>2, <4>3
    <3> QED BY <3>1, <3>2
  <2> HIDE DEF T
  <2>3. Nat \subseteq T
    BY <2>1, <2>2, NumberInduction
  <2> QED BY <2>3 DEF T
<1>9. FlattenSeq(seqs) = f[n]
  <2>1. CASE n = 0
    <3>1. FlattenSeq(seqs) = seqs
      BY <2>1 DEF FlattenSeq
    <3>2. seqs = <<>>
      BY <2>1
    <3> QED BY <1>5, <2>1, <3>1, <3>2
  <2>2. CASE n # 0
    <3>1. n \in 1..n
      BY <1>1, <2>2
    <3> QED BY <1>6, <1>8, <2>2, <3>1
  <2> QED BY <2>1, <2>2
<1> DEFINE at == [k \in 0..n |-> Len(f[k])]
<1>10. \A k \in 0..n : at[k] = Len(f[k]) /\ at[k] \in Nat /\ f[k] \in Seq(S)
  BY <1>5
<1>11. DOMAIN at = 0..n /\ at = [k \in 0..n |-> at[k]]
  OBVIOUS
<1> HIDE DEF at
<1>12. \A k \in 1..n : /\ at[k] = at[k - 1] + Len(seqs[k])
                       /\ \A j \in 1..at[k - 1] : f[k][j] = f[k - 1][j]
                       /\ \A j \in 1..Len(seqs[k]) : f[k][at[k - 1] + j] = seqs[k][j]
  <2> SUFFICES ASSUME NEW k \in 1..n
               PROVE  /\ at[k] = at[k - 1] + Len(seqs[k])
                      /\ \A j \in 1..at[k - 1] : f[k][j] = f[k - 1][j]
                      /\ \A j \in 1..Len(seqs[k]) : f[k][at[k - 1] + j] = seqs[k][j]
    OBVIOUS
  <2>1. k - 1 \in 0..n /\ k \in 0..n
    BY <1>1
  <2> DEFINE s == f[k - 1]
             t == seqs[k]
  <2>2. s \in Seq(S) /\ t \in Seq(S) /\ f[k] = s \o t /\ at[k - 1] = Len(s) /\ at[k] = Len(f[k])
    BY <1>1, <1>5, <1>10, <2>1
  <2> HIDE DEF s, t
  <2>3. /\ Len(s \o t) = Len(s) + Len(t)
        /\ \A j \in 1..Len(s) : (s \o t)[j] = s[j]
        /\ \A j \in 1..Len(t) : (s \o t)[Len(s) + j] = t[j]
    BY <2>2
  <2> QED BY <2>2, <2>3 DEF s, t
<1>13. EndsAt(at, seqs)
  <2>1. at[0] = 0
    <3>1. 0 \in 0..n
      BY <1>1
    <3> QED BY <1>5, <1>10, <3>1
  <2>2. at \in [0..n -> Nat]
    BY <1>10, <1>11
  <2> QED BY <1>12, <2>1, <2>2 DEF EndsAt
<1>14. \A m \in 0..n : \A k \in 0..m : at[k] <= at[m] /\ \A j \in 1..at[k] : f[m][j] = f[k][j]
  <2> DEFINE After(m) == \A k \in 0..m : at[k] <= at[m] /\ \A j \in 1..at[k] : f[m][j] = f[k][j]
             T == {m \in Nat : m <= n => After(m)}
  <2>1. 0 \in T
    <3>1. \A k \in 0..0 : k = 0
      OBVIOUS
    <3>2. at[0] \in Nat
      BY <1>1, <1>10
    <3> QED BY <3>1, <3>2
  <2>2. \A m \in Nat : m \in T => m + 1 \in T
    <3> SUFFICES ASSUME NEW m \in Nat, m <= n => After(m), m + 1 <= n PROVE After(m + 1)
      <4> HIDE DEF After
      <4> QED OBVIOUS
    <3> SUFFICES ASSUME NEW k \in 0..(m + 1)
                 PROVE  at[k] <= at[m + 1] /\ \A j \in 1..at[k] : f[m + 1][j] = f[k][j]
      OBVIOUS
    <3>1. /\ m + 1 \in 1..n /\ (m + 1) - 1 = m /\ m \in 0..n /\ m + 1 \in 0..n /\ k \in 0..n
          /\ \A i \in 0..m : at[i] <= at[m] /\ \A j \in 1..at[i] : f[m][j] = f[i][j]
      BY <1>1
    <3>2. CASE k = m + 1
      BY <1>10, <3>1, <3>2
    <3>3. CASE k # m + 1
      <4>1. k \in 0..m
        BY <3>3
      <4>2. at[k] <= at[m] /\ at[k] \in Nat /\ at[m] \in Nat /\ Len(seqs[m + 1]) \in Nat
        BY <1>1, <1>10, <3>1, <4>1
      <4>3. at[m + 1] = at[m] + Len(seqs[m + 1]) /\ \A j \in 1..at[m] : f[m + 1][j] = f[m][j]
        BY <1>12, <3>1
      <4>4. 1..at[k] \subseteq 1..at[m]
        BY <4>2
      <4> QED BY <3>1, <4>1, <4>2, <4>3, <4>4
    <3> QED BY <3>2, <3>3
  <2> HIDE DEF T
  <2>3. Nat \subseteq T
    BY <2>1, <2>2, NumberInduction
  <2>4. \A m \in 0..n : m \in Nat /\ m <= n
    BY <1>1
  <2> QED BY <2>3, <2>4 DEF T
<1>15. PlacedAt(f[n], at, seqs)
  <2> SUFFICES ASSUME NEW k \in 1..n, NEW j \in 1..Len(seqs[k]) PROVE f[n][at[k - 1] + j] = seqs[k][j]
    BY DEF PlacedAt
  <2>1. k \in 0..n /\ k - 1 \in 0..n /\ n \in 0..n
    BY <1>1
  <2>2. f[k][at[k - 1] + j] = seqs[k][j] /\ at[k] = at[k - 1] + Len(seqs[k])
    BY <1>12
  <2>3. at[k - 1] \in Nat /\ Len(seqs[k]) \in Nat
    BY <1>1, <1>10, <2>1
  <2>4. at[k - 1] + j \in 1..at[k]
    BY <2>2, <2>3
  <2> QED BY <1>14, <2>1, <2>2, <2>4
<1>16. \A k \in 0..n : at[k] <= Len(f[n])
  <2>1. n \in 0..n /\ at[n] = Len(f[n])
    BY <1>1, <1>10
  <2> QED BY <1>14, <2>1
<1>17. f[n] \in Seq(S) /\ Len(f[n]) = at[n]
  BY <1>1, <1>10
<1> QED BY <1>9, <1>13, <1>15, <1>16, <1>17
=============================================================================
