------------------------ MODULE CamFeasibility_proofs ------------------------
(***************************************************************************)
(* Proofs about the credit memo, for any number of rows, any banks, months *)
(* and amounts: the tables stay well formed, the consolidated table adds   *)
(* up, and a ratio shown within its ceiling is within it for the approval. *)
(*                                                                         *)
(* The argument about the memo is short: every event of the form ends in   *)
(* Update, so that what is shown is always worked out from the tables as   *)
(* they are; and the page that is opened again has other values than the   *)
(* saved ones only where zeros were saved, of which the turnover cannot be *)
(* one if the ratio passed.  The rest is about sums over finite sets.      *)
(* They are those of the community modules, which take the values in an    *)
(* order CHOOSE fixes; that the order does not matter, and what follows    *)
(* for parts, unions and groups of values, is proved first, by induction   *)
(* over the subsets of a finite set.  The property an induction is about   *)
(* is given as the set of the subsets that have it, so that no lemma takes *)
(* an operator.                                                            *)
(***************************************************************************)
EXTENDS CamFeasibility, FiniteSetTheorems, TLAPS

-----------------------------------------------------------------------------
(* Induction over the subsets of a finite set, stated with the set of the  *)
(* subsets that have the property.                                         *)

\* A set of subsets that holds each one all of whose parts it holds.
LEMMA SubsetsByParts ==
    ASSUME NEW S, IsFiniteSet(S), NEW Good,
           \A T \in SUBSET S : (\A U \in SUBSET T : U # T => U \in Good) => T \in Good
    PROVE  \A T \in SUBSET S : T \in Good
  <1> DEFINE Bad == (SUBSET S) \ Good
  <1> SUFFICES ASSUME Bad # {} PROVE FALSE
    OBVIOUS
  <1>1. IsWellFoundedOn(StrictSubsetOrdering(S), SUBSET S)
    <2>1. FiniteSubsetsOf(S) = SUBSET S
      BY FS_FiniteSubsetsOfFinite
    <2>2. IsWellFoundedOn(StrictSubsetOrdering(S), FiniteSubsetsOf(S))
      BY FS_StrictSubsetOrderingWellFounded
    <2> QED
      BY <2>1, <2>2
  <1>2. PICK T \in Bad : \A U \in Bad : <<U, T>> \notin StrictSubsetOrdering(S)
    <2>1. Bad \subseteq SUBSET S
      OBVIOUS
    <2> HIDE DEF Bad
    <2> QED
      BY <1>1, <2>1, WFMin
  <1>3. \A U \in SUBSET T : U # T => U \in Good
    BY <1>2 DEF StrictSubsetOrdering
  <1> QED
    BY <1>2, <1>3

\* A set of subsets that holds the empty one and can be extended by elements.
LEMMA SubsetsByElements ==
    ASSUME NEW S, IsFiniteSet(S), NEW Good, {} \in Good,
           \A T \in SUBSET S : \A x \in S \ T : T \in Good => T \cup {x} \in Good
    PROVE  S \in Good
  <1>1. ASSUME NEW T \in SUBSET S, \A U \in SUBSET T : U # T => U \in Good
        PROVE  T \in Good
    <2>1. CASE T = {}
      BY <2>1
    <2>2. CASE T # {}
      <3>1. PICK x \in T : TRUE
        BY <2>2
      <3>2. T \ {x} \in Good /\ (T \ {x}) \cup {x} = T
        BY <1>1
      <3>3. T \ {x} \in SUBSET S /\ x \in S \ (T \ {x})
        OBVIOUS
      <3> QED
        BY <3>2, <3>3
    <2> QED
      BY <2>1, <2>2
  <1> QED
    BY <1>1, SubsetsByParts

-----------------------------------------------------------------------------
(* The sums of the library: which value they take first does not matter.   *)

First(s) == CHOOSE x \in s : TRUE

PartialSum(f, g, s) == IF s = {} THEN 0 ELSE f[First(s)] + g[s \ {First(s)}]

\* The table of all partial sums of f over the subsets of S.
Sums(f, g, S) == g = [s \in SUBSET S |-> PartialSum(f, g, s)]

LEMMA SumIsSums ==
    ASSUME NEW f, NEW S
    PROVE  SumFunctionOnSet(f, S) = (CHOOSE g : Sums(f, g, S))[S]
  BY DEF SumFunctionOnSet, FoldFunctionOnSet, MapThenFoldSet, Sums, PartialSum, First

LEMMA FirstIsIn ==
    ASSUME NEW s, s # {}
    PROVE  First(s) \in s
  BY DEF First

\* Tables of partial sums agree where both have an entry.
LEMMA SumsAgree ==
    ASSUME NEW f, NEW S, NEW T \in SUBSET S, IsFiniteSet(S), NEW g, NEW h,
           Sums(f, g, S), Sums(f, h, T)
    PROVE  g[T] = h[T]
  <1> DEFINE Good == {U \in SUBSET T : g[U] = h[U]}
  <1>1. IsFiniteSet(T)
    BY FS_Subset
  <1>2. ASSUME NEW U \in SUBSET T, \A V \in SUBSET U : V # U => V \in Good
        PROVE  U \in Good
    <2>1. U \in SUBSET S
      OBVIOUS
    <2>2. g[U] = PartialSum(f, g, U) /\ h[U] = PartialSum(f, h, U)
      BY <2>1 DEF Sums
    <2>3. CASE U = {}
      BY <2>2, <2>3 DEF PartialSum
    <2>4. CASE U # {}
      <3>1. U \ {First(U)} \in Good
        BY <1>2, <2>4, FirstIsIn
      <3> QED
        BY <2>2, <2>4, <3>1 DEF PartialSum
    <2> QED
      BY <2>3, <2>4
  <1> HIDE DEF Good
  <1>3. T \in Good
    BY <1>1, <1>2, SubsetsByParts
  <1> QED
    BY <1>3 DEF Good

\* There is such a table for every finite set.
LEMMA SumsExist ==
    ASSUME NEW f, NEW S, IsFiniteSet(S)
    PROVE  \E g : Sums(f, g, S)
  <1> DEFINE Good == {T \in SUBSET S : \E g : Sums(f, g, T)}
  <1>1. ASSUME NEW T \in SUBSET S, \A U \in SUBSET T : U # T => U \in Good
        PROVE  \E g : Sums(f, g, T)
    <2> DEFINE G(U) == CHOOSE g : Sums(f, g, U)
               Rest == T \ {First(T)}
               Last == IF T = {} THEN 0 ELSE f[First(T)] + G(Rest)[Rest]
               g == [U \in SUBSET T |-> IF U = T THEN Last ELSE G(U)[U]]
    <2>1. ASSUME NEW U \in SUBSET T, U # T
          PROVE  Sums(f, G(U), U) /\ IsFiniteSet(U)
      <3>1. \E h : Sums(f, h, U)
        BY <1>1, <2>1
      <3>2. IsFiniteSet(U)
        BY FS_Subset
      <3> QED
        BY <3>1, <3>2
    <2> HIDE DEF G
    <2>2. ASSUME NEW U \in SUBSET T
          PROVE  g[U] = PartialSum(f, g, U)
      <3> DEFINE V == U \ {First(U)}
      <3>1. CASE U = T
        <4>1. CASE T = {}
          BY <3>1, <4>1 DEF PartialSum
        <4>2. CASE T # {}
          <5>1. Rest \in SUBSET T /\ Rest # T
            BY <4>2, FirstIsIn
          <5>2. g[Rest] = G(Rest)[Rest]
            BY <5>1
          <5>3. g[T] = f[First(T)] + G(Rest)[Rest]
            BY <4>2
          <5> QED
            BY <3>1, <4>2, <5>2, <5>3 DEF PartialSum
        <4> QED
          BY <4>1, <4>2
      <3>2. CASE U # T
        <4>1. g[U] = G(U)[U]
          BY <3>2
        <4>2. G(U)[U] = PartialSum(f, G(U), U)
          BY <2>1, <3>2 DEF Sums
        <4>3. CASE U = {}
          BY <4>1, <4>2, <4>3 DEF PartialSum
        <4>4. CASE U # {}
          <5>1. V \in SUBSET U /\ V # U /\ V \in SUBSET T /\ V # T
            BY <4>4, FirstIsIn
          <5>2. g[V] = G(V)[V]
            BY <5>1
          <5>3. Sums(f, G(U), U) /\ Sums(f, G(V), V) /\ IsFiniteSet(U)
            BY <2>1, <3>2, <5>1
          <5>4. G(U)[V] = G(V)[V]
            BY <5>1, <5>3, SumsAgree
          <5> QED
            BY <4>1, <4>2, <4>4, <5>2, <5>4 DEF PartialSum
        <4> QED
          BY <4>3, <4>4
      <3> QED
        BY <3>1, <3>2
    <2>3. Sums(f, g, T)
      <3>1. g = [U \in SUBSET T |-> g[U]]
        OBVIOUS
      <3> HIDE DEF g
      <3> QED
        BY <2>2, <3>1 DEF Sums
    <2> QED
      BY <2>3
  <1>2. \A T \in SUBSET S : T \in Good
    <2>1. \A T \in SUBSET S : (\A U \in SUBSET T : U # T => U \in Good) => T \in Good
      BY <1>1
    <2> HIDE DEF Good
    <2> QED
      BY <2>1, SubsetsByParts
  <1> QED
    BY <1>2

\* A sum takes one value and adds the sum of the others.
LEMMA SumTakesFirst ==
    ASSUME NEW f, NEW S, IsFiniteSet(S)
    PROVE  SumFunctionOnSet(f, S) = IF S = {} THEN 0
                                    ELSE f[First(S)] + SumFunctionOnSet(f, S \ {First(S)})
  <1> DEFINE G(T) == CHOOSE g : Sums(f, g, T)
             R == S \ {First(S)}
  <1>1. R \in SUBSET S /\ IsFiniteSet(R)
    BY FS_Subset
  <1>2. Sums(f, G(S), S) /\ Sums(f, G(R), R)
    BY <1>1, SumsExist
  <1>3. SumFunctionOnSet(f, S) = G(S)[S] /\ SumFunctionOnSet(f, R) = G(R)[R]
    BY SumIsSums
  <1> HIDE DEF G
  <1>4. G(S)[S] = PartialSum(f, G(S), S)
    BY <1>2 DEF Sums
  <1>5. G(S)[R] = G(R)[R]
    BY <1>1, <1>2, SumsAgree
  <1> QED
    BY <1>3, <1>4, <1>5 DEF PartialSum

\* No values, no sum.
LEMMA SumOfNone == \A f : SumFunctionOnSet(f, {}) = 0
  BY SumTakesFirst, FS_EmptySet

\* The sum of natural numbers is one.
LEMMA SumIsNat ==
    ASSUME NEW f, NEW S, IsFiniteSet(S), \A s \in S : f[s] \in Nat
    PROVE  SumFunctionOnSet(f, S) \in Nat
  <1> DEFINE Good == {T \in SUBSET S : SumFunctionOnSet(f, T) \in Nat}
  <1>1. ASSUME NEW T \in SUBSET S, \A U \in SUBSET T : U # T => U \in Good
        PROVE  T \in Good
    <2>1. IsFiniteSet(T)
      BY FS_Subset
    <2>2. CASE T = {}
      BY <2>2, SumOfNone
    <2>3. CASE T # {}
      <3>1. First(T) \in T /\ T \ {First(T)} \in Good
        BY <1>1, <2>3, FirstIsIn
      <3>2. SumFunctionOnSet(f, T) = f[First(T)] + SumFunctionOnSet(f, T \ {First(T)})
        BY <2>1, <2>3, SumTakesFirst
      <3> QED
        BY <3>1, <3>2
    <2> QED
      BY <2>2, <2>3
  <1> HIDE DEF Good
  <1>2. S \in Good
    BY <1>1, SubsetsByParts
  <1> QED
    BY <1>2 DEF Good

\* Any value may be taken first.
LEMMA SumTakesAny ==
    ASSUME NEW f, NEW S, IsFiniteSet(S), \A s \in S : f[s] \in Nat, NEW x \in S
    PROVE  SumFunctionOnSet(f, S) = f[x] + SumFunctionOnSet(f, S \ {x})
  <1> DEFINE Sum(T) == SumFunctionOnSet(f, T)
             Good == {T \in SUBSET S : \A y \in T : Sum(T) = f[y] + Sum(T \ {y})}
  <1>0. \A T \in SUBSET S : IsFiniteSet(T) /\ Sum(T) \in Nat
    BY FS_Subset, SumIsNat
  <1>00. \A T \in SUBSET S : T # {} => First(T) \in T /\ Sum(T) = f[First(T)] + Sum(T \ {First(T)})
    BY <1>0, SumTakesFirst, FirstIsIn
  <1> HIDE DEF Sum
  <1>1. ASSUME NEW T \in SUBSET S, \A U \in SUBSET T : U # T => U \in Good
        PROVE  T \in Good
    <2> SUFFICES ASSUME NEW y \in T PROVE Sum(T) = f[y] + Sum(T \ {y})
      OBVIOUS
    <2> DEFINE z == First(T)
               Rest == (T \ {y}) \ {z}
    <2>1. z \in T /\ Sum(T) = f[z] + Sum(T \ {z})
      BY <1>00
    <2>2. CASE y = z
      BY <2>1, <2>2
    <2>3. CASE y # z
      <3>1. T \ {z} \in Good /\ T \ {y} \in Good
        BY <1>1, <2>1
      <3>2. Sum(T \ {y}) = f[z] + Sum((T \ {y}) \ {z})
        BY <2>1, <2>3, <3>1
      <3>3. Sum(T \ {z}) = f[y] + Sum((T \ {z}) \ {y})
        BY <2>1, <2>3, <3>1
      <3>4. (T \ {z}) \ {y} = (T \ {y}) \ {z}
        OBVIOUS
      <3>5. f[y] \in Nat /\ f[z] \in Nat /\ Sum((T \ {y}) \ {z}) \in Nat
        BY <1>0, <2>1
      <3> QED
        BY <2>1, <3>2, <3>3, <3>4, <3>5
    <2> QED
      BY <2>2, <2>3
  <1> HIDE DEF Good
  <1>2. S \in Good
    BY <1>1, SubsetsByParts
  <1> QED
    BY <1>2 DEF Good, Sum

\* One value more.
LEMMA SumAdds ==
    ASSUME NEW f, NEW S, NEW x, IsFiniteSet(S), x \notin S,
           \A s \in S \cup {x} : f[s] \in Nat
    PROVE  SumFunctionOnSet(f, S \cup {x}) = f[x] + SumFunctionOnSet(f, S)
  <1>1. IsFiniteSet(S \cup {x}) /\ (S \cup {x}) \ {x} = S
    BY FS_AddElement
  <1> QED
    BY <1>1, SumTakesAny

\* The sum depends on the values only, and grows with them.
LEMMA SumOfLess ==
    ASSUME NEW f, NEW g, NEW S, IsFiniteSet(S),
           \A s \in S : f[s] \in Nat /\ g[s] \in Nat /\ f[s] <= g[s]
    PROVE  SumFunctionOnSet(f, S) <= SumFunctionOnSet(g, S)
  <1> DEFINE F(T) == SumFunctionOnSet(f, T)
             G(T) == SumFunctionOnSet(g, T)
             Good == {T \in SUBSET S : F(T) <= G(T)}
  <1>0. \A T \in SUBSET S : IsFiniteSet(T) /\ F(T) \in Nat /\ G(T) \in Nat
    BY FS_Subset, SumIsNat
  <1>1. F({}) = 0 /\ G({}) = 0
    BY SumOfNone
  <1>2. \A T \in SUBSET S : \A x \in S \ T :
           F(T \cup {x}) = f[x] + F(T) /\ G(T \cup {x}) = g[x] + G(T)
    BY <1>0, SumAdds
  <1> HIDE DEF F, G
  <1>3. {} \in Good
    BY <1>1
  <1>4. \A T \in SUBSET S : \A x \in S \ T : T \in Good => T \cup {x} \in Good
    <2> SUFFICES ASSUME NEW T \in SUBSET S, NEW x \in S \ T, F(T) <= G(T)
                 PROVE  F(T \cup {x}) <= G(T \cup {x})
      OBVIOUS
    <2> QED
      BY <1>0, <1>2
  <1> HIDE DEF Good
  <1>5. S \in Good
    BY <1>3, <1>4, SubsetsByElements
  <1> QED
    BY <1>5 DEF Good, F, G

LEMMA SumOfSame ==
    ASSUME NEW f, NEW g, NEW S, IsFiniteSet(S), \A s \in S : f[s] \in Nat /\ f[s] = g[s]
    PROVE  SumFunctionOnSet(f, S) = SumFunctionOnSet(g, S)
  <1>1. /\ SumFunctionOnSet(f, S) <= SumFunctionOnSet(g, S)
        /\ SumFunctionOnSet(g, S) <= SumFunctionOnSet(f, S)
    BY SumOfLess
  <1> QED
    BY <1>1, SumIsNat

\* The sum over a part and the sum over what is left.
LEMMA SumOfUnion ==
    ASSUME NEW f, NEW S, NEW T, IsFiniteSet(S), IsFiniteSet(T), S \cap T = {},
           \A s \in S \cup T : f[s] \in Nat
    PROVE  SumFunctionOnSet(f, S \cup T) = SumFunctionOnSet(f, S) + SumFunctionOnSet(f, T)
  <1> DEFINE F(U) == SumFunctionOnSet(f, U)
             Good == {U \in SUBSET T : F(S \cup U) = F(S) + F(U)}
  <1>0. \A U \in SUBSET T : /\ IsFiniteSet(U) /\ F(U) \in Nat
                            /\ IsFiniteSet(S \cup U) /\ F(S \cup U) \in Nat
    BY FS_Subset, FS_Union, SumIsNat
  <1>1. F({}) = 0 /\ F(S) \in Nat
    BY SumOfNone, SumIsNat
  <1>2. \A U \in SUBSET T : \A x \in T \ U :
           F(U \cup {x}) = f[x] + F(U) /\ F((S \cup U) \cup {x}) = f[x] + F(S \cup U)
    BY <1>0, SumAdds
  <1> HIDE DEF F
  <1>3. {} \in Good
    <2>1. S \cup {} = S
      OBVIOUS
    <2> QED
      BY <1>1, <2>1
  <1>4. \A U \in SUBSET T : \A x \in T \ U : U \in Good => U \cup {x} \in Good
    <2> SUFFICES ASSUME NEW U \in SUBSET T, NEW x \in T \ U, F(S \cup U) = F(S) + F(U)
                 PROVE  F(S \cup (U \cup {x})) = F(S) + F(U \cup {x})
      OBVIOUS
    <2>1. S \cup (U \cup {x}) = (S \cup U) \cup {x}
      OBVIOUS
    <2>2. f[x] \in Nat
      OBVIOUS
    <2>3. F(U \cup {x}) = f[x] + F(U) /\ F((S \cup U) \cup {x}) = f[x] + F(S \cup U)
      BY <1>2
    <2>4. F(U) \in Nat /\ F(S) \in Nat
      BY <1>0, <1>1
    <2> QED
      BY <2>1, <2>2, <2>3, <2>4
  <1> HIDE DEF Good
  <1>5. T \in Good
    BY <1>3, <1>4, SubsetsByElements
  <1> QED
    BY <1>5 DEF Good, F

\* Fewer values.
LEMMA SumOfPart ==
    ASSUME NEW f, NEW S, NEW T \in SUBSET S, IsFiniteSet(S), \A s \in S : f[s] \in Nat
    PROVE  SumFunctionOnSet(f, T) <= SumFunctionOnSet(f, S)
  <1>1. /\ IsFiniteSet(T) /\ IsFiniteSet(S \ T)
        /\ T \cap (S \ T) = {} /\ T \cup (S \ T) = S
    BY FS_Subset
  <1>2. SumFunctionOnSet(f, S) = SumFunctionOnSet(f, T) + SumFunctionOnSet(f, S \ T)
    BY <1>1, SumOfUnion
  <1>3. SumFunctionOnSet(f, T) \in Nat /\ SumFunctionOnSet(f, S \ T) \in Nat
    BY <1>1, SumIsNat
  <1> QED
    BY <1>2, <1>3

\* Sums by key, added up, are the sum over all that have one of the keys.
LEMMA SumByKey ==
    ASSUME NEW f, NEW S, NEW key, NEW K, IsFiniteSet(S), IsFiniteSet(K),
           \A s \in S : f[s] \in Nat
    PROVE  SumFunctionOnSet([k \in K |-> SumFunctionOnSet(f, {s \in S : key[s] = k})], K)
             = SumFunctionOnSet(f, {s \in S : key[s] \in K})
  <1> DEFINE F(T) == SumFunctionOnSet(f, T)
             Of(k) == {s \in S : key[s] = k}
             g == [k \in K |-> F(Of(k))]
             With(L) == {s \in S : key[s] \in L}
             Good == {L \in SUBSET K : SumFunctionOnSet(g, L) = F(With(L))}
  <1>0. /\ \A k \in K : IsFiniteSet(Of(k)) /\ F(Of(k)) \in Nat
        /\ \A L \in SUBSET K : /\ IsFiniteSet(With(L)) /\ F(With(L)) \in Nat
                              /\ IsFiniteSet(L)
    <2>1. ASSUME NEW T \in SUBSET S PROVE IsFiniteSet(T) /\ F(T) \in Nat
      BY FS_Subset, SumIsNat
    <2>2. \A L \in SUBSET K : IsFiniteSet(L)
      BY FS_Subset
    <2> QED
      BY <2>1, <2>2
  <1>1. SumFunctionOnSet(g, {}) = 0 /\ F({}) = 0
    BY SumOfNone
  <1>2. ASSUME NEW L \in SUBSET K, NEW k \in K \ L
        PROVE  /\ SumFunctionOnSet(g, L \cup {k}) = F(Of(k)) + SumFunctionOnSet(g, L)
               /\ F(With(L) \cup Of(k)) = F(With(L)) + F(Of(k))
               /\ With(L \cup {k}) = With(L) \cup Of(k)
    <2>1. \A l \in K : g[l] = F(Of(l)) /\ g[l] \in Nat
      BY <1>0
    <2>2. SumFunctionOnSet(g, L \cup {k}) = g[k] + SumFunctionOnSet(g, L)
      <3> HIDE DEF g
      <3> QED
        BY <1>0, <2>1, SumAdds
    <2>3. With(L) \cap Of(k) = {} /\ \A s \in With(L) \cup Of(k) : f[s] \in Nat
      OBVIOUS
    <2>4. F(With(L) \cup Of(k)) = F(With(L)) + F(Of(k))
      <3> HIDE DEF With, Of
      <3> QED
        BY <1>0, <2>3, SumOfUnion
    <2> QED
      BY <2>1, <2>2, <2>4
  <1>3. {} \in Good
    <2>1. With({}) = {}
      OBVIOUS
    <2> QED
      BY <1>1, <2>1
  <1>4. \A L \in SUBSET K : \A k \in K \ L : L \in Good => L \cup {k} \in Good
    <2> SUFFICES ASSUME NEW L \in SUBSET K, NEW k \in K \ L,
                        SumFunctionOnSet(g, L) = F(With(L))
                 PROVE  SumFunctionOnSet(g, L \cup {k}) = F(With(L \cup {k}))
      OBVIOUS
    <2>1. /\ SumFunctionOnSet(g, L \cup {k}) = F(Of(k)) + SumFunctionOnSet(g, L)
          /\ F(With(L) \cup Of(k)) = F(With(L)) + F(Of(k))
          /\ With(L \cup {k}) = With(L) \cup Of(k)
      BY <1>2
    <2>2. F(Of(k)) \in Nat /\ F(With(L)) \in Nat
      BY <1>0
    <2> HIDE DEF F, With, Of, g
    <2>3. F(With(L \cup {k})) = F(With(L) \cup Of(k))
      BY <2>1, Zenon
    <2> QED
      BY <2>1, <2>2, <2>3
  <1> HIDE DEF Good
  <1>5. K \in Good
    BY <1>3, <1>4, SubsetsByElements
  <1>6. SumFunctionOnSet(g, K) = F(With(K))
    <2> HIDE DEF F, With, g
    <2> QED
      BY <1>5 DEF Good
  <1> QED
    BY <1>6

-----------------------------------------------------------------------------
(* What the page works out. *)

Facilities == [Slot -> Facility \cup {NoRow}]
BankMonths == [Slot -> BankMonth \cup {NoRow}]
Ratings == {"pending", "pass", "fail"}
Shown ==
    [dti : Ratings, gearing : Ratings, inflow : Nat,
     months : SUBSET Month, consolidated : [Month -> Nat]]

LEMMA FilledIsFinite == \A table : IsFiniteSet(Filled(table))
  <1> TAKE table
  <1>1. MAX_ROWS \in Nat
    BY CamAssumption
  <1>2. IsFiniteSet(1..MAX_ROWS)
    BY <1>1, FS_Interval
  <1>3. Filled(table) \in SUBSET (1..MAX_ROWS)
    BY DEF Filled, Slot
  <1> QED
    BY <1>2, <1>3, FS_Subset

\* The columns of a table that are summed.
LEMMA DebtColumns ==
    ASSUME NEW debts \in Facilities
    PROVE  /\ IsFiniteSet(Filled(debts))
           /\ \A s \in Filled(debts) : /\ debts[s] \in Facility
                                       /\ Column(debts, "rental")[s] = debts[s].rental
                                       /\ Column(debts, "outstanding")[s] = debts[s].outstanding
                                       /\ debts[s].rental \in Nat /\ debts[s].outstanding \in Nat
  BY FilledIsFinite, CamAssumption DEF Filled, Column, Facilities, Facility

LEMMA InflowColumn ==
    ASSUME NEW rows \in BankMonths
    PROVE  /\ IsFiniteSet(Filled(rows))
           /\ \A s \in Filled(rows) : /\ rows[s] \in BankMonth
                                      /\ Column(rows, "inflow")[s] = rows[s].inflow
                                      /\ Column(rows, "inflow")[s] \in Nat
  BY FilledIsFinite, CamAssumption DEF Filled, Column, BankMonths, BankMonth

\* A total is the sum of its column.
LEMMA TotalIsSum ==
    ASSUME NEW table, NEW field
    PROVE  Total(table, field) = SumFunctionOnSet(Column(table, field), Filled(table))
  <1>1. DOMAIN Column(table, field) = Filled(table)
    BY DEF Column
  <1> QED
    BY <1>1 DEF Total, SumFunction

LEMMA DebtTotals ==
    ASSUME NEW debts \in Facilities
    PROVE  Total(debts, "rental") \in Nat /\ Total(debts, "outstanding") \in Nat
  <1>1. /\ IsFiniteSet(Filled(debts))
        /\ \A s \in Filled(debts) : /\ Column(debts, "rental")[s] \in Nat
                                    /\ Column(debts, "outstanding")[s] \in Nat
    BY DebtColumns
  <1> QED
    BY <1>1, SumIsNat, TotalIsSum

\* A part of the inflow.
LEMMA InflowTotals ==
    ASSUME NEW rows \in BankMonths, NEW slots \in SUBSET Filled(rows)
    PROVE  /\ SumFunctionOnSet(Column(rows, "inflow"), slots) \in Nat
           /\ Total(rows, "inflow") \in Nat
  <1>1. /\ IsFiniteSet(slots) /\ IsFiniteSet(Filled(rows))
        /\ \A s \in Filled(rows) : Column(rows, "inflow")[s] \in Nat
    BY InflowColumn, FS_Subset
  <1> QED
    BY <1>1, SumIsNat, TotalIsSum

LEMMA ConsolidatedIsNat ==
    ASSUME NEW rows \in BankMonths, NEW m
    PROVE  Consolidated(rows, m) \in Nat
  <1> DEFINE cells == [b \in Bank |-> Cell(rows, m, b)]
  <1>1. \A b \in Bank : Cell(rows, m, b) \in Nat
    BY InflowTotals DEF Cell
  <1>2. DOMAIN cells = Bank /\ \A b \in Bank : cells[b] \in Nat
    BY <1>1
  <1>3. Consolidated(rows, m) = SumFunctionOnSet(cells, Bank)
    BY <1>2 DEF Consolidated, SumFunction
  <1>4. IsFiniteSet(Bank)
    BY CamAssumption
  <1> HIDE DEF cells
  <1>5. SumFunctionOnSet(cells, Bank) \in Nat
    BY <1>2, <1>4, SumIsNat
  <1> QED
    BY <1>3, <1>5

LEMMA FiguresAreTyped ==
    ASSUME NEW p, NEW debts, NEW rows \in BankMonths
    PROVE  Figures(p, debts, rows) \in Shown
  <1>1. \A part, whole, ceiling : Flag(part, whole, ceiling) \in Ratings
    BY DEF Flag, Ratings
  <1>2. Total(rows, "inflow") \in Nat
    BY InflowTotals
  <1>3. {rows[s].month : s \in Filled(rows)} \ {""} \in SUBSET Month
    <2> SUFFICES ASSUME NEW s \in Filled(rows), rows[s].month # ""
                 PROVE  rows[s].month \in Month
      OBVIOUS
    <2>1. rows[s] \in BankMonth
      BY InflowColumn
    <2> QED
      BY <2>1 DEF BankMonth
  <1>4. [m \in Month |-> Consolidated(rows, m)] \in [Month -> Nat]
    BY ConsolidatedIsNat
  <1> QED
    BY <1>1, <1>2, <1>3, <1>4 DEF Figures, Shown

-----------------------------------------------------------------------------
(* What is shown when the memo is submitted holds for what is stored. *)

\* The server keeps a part of the facilities, each as it was.
LEMMA NamedIsLess ==
    ASSUME NEW debts \in Facilities
    PROVE  /\ Named(debts) \in Facilities
           /\ Total(Named(debts), "rental") <= Total(debts, "rental")
           /\ Total(Named(debts), "outstanding") <= Total(debts, "outstanding")
  <1> DEFINE kept == Named(debts)
  <1>1. /\ kept \in Facilities /\ Filled(kept) \in SUBSET Filled(debts)
        /\ \A s \in Filled(kept) : kept[s] = debts[s]
    BY DEF Named, Facilities, Filled
  <1> HIDE DEF kept
  <1>2. ASSUME NEW field, field \in {"rental", "outstanding"}
        PROVE  Total(kept, field) <= Total(debts, field)
    <2> DEFINE f == Column(kept, field)
               g == Column(debts, field)
               S == Filled(kept)
               T == Filled(debts)
    <2>1. /\ IsFiniteSet(S) /\ IsFiniteSet(T) /\ S \in SUBSET T
          /\ \A s \in S : f[s] \in Nat /\ f[s] = g[s]
          /\ \A s \in T : g[s] \in Nat
      BY <1>1, <1>2, DebtColumns
    <2>2. Total(kept, field) = SumFunctionOnSet(f, S) /\ Total(debts, field) = SumFunctionOnSet(g, T)
      BY TotalIsSum
    <2> HIDE DEF f, g, S, T
    <2>3. SumFunctionOnSet(f, S) = SumFunctionOnSet(g, S)
      BY <2>1, SumOfSame
    <2>4. SumFunctionOnSet(g, S) <= SumFunctionOnSet(g, T)
      BY <2>1, SumOfPart
    <2> QED
      BY <2>2, <2>3, <2>4
  <1> QED
    BY <1>1, <1>2 DEF kept

\* Half up, to four digits, does not lift a ratio over a ceiling in percent.
LEMMA HalfUpKeepsCeiling ==
    ASSUME NEW part \in Nat, NEW whole \in Nat, whole > 0, NEW ceiling \in Nat,
           100 * part <= ceiling * whole
    PROVE  HalfUp(10000, part, whole) <= 100 * ceiling
  <1> DEFINE a == 20000 * part + whole
             b == 2 * whole
             q == a \div b
  <1>1. a \in Nat /\ b \in Nat /\ b > 0 /\ q \in Int
    OBVIOUS
  <1>2. b * q <= a
    OBVIOUS
  <1>3. HalfUp(10000, part, whole) = q
    BY DEF HalfUp
  <1>4. a <= 200 * (ceiling * whole) + whole
    OBVIOUS
  <1>5. whole * (2 * q) <= whole * (200 * ceiling + 1)
    BY <1>2, <1>4
  <1> HIDE DEF q
  <1>6. 2 * q <= 200 * ceiling + 1
    BY <1>1, <1>5
  <1> QED
    BY <1>1, <1>3, <1>6

-----------------------------------------------------------------------------
(* The consolidated table adds up. *)

\* A month's line is the sum over its rows with a bank.
LEMMA MonthAddsUp ==
    ASSUME NEW rows \in BankMonths, NEW m
    PROVE  Consolidated(rows, m) =
             SumFunctionOnSet(Column(rows, "inflow"),
                              {s \in Filled(rows) : rows[s].month = m /\ rows[s].bank \in Bank})
  <1> DEFINE f == Column(rows, "inflow")
             S == {s \in Filled(rows) : rows[s].month = m}
             bank == [s \in Filled(rows) |-> rows[s].bank]
             cells == [b \in Bank |-> SumFunctionOnSet(f, {s \in S : bank[s] = b})]
  <1>1. /\ IsFiniteSet(S) /\ IsFiniteSet(Bank)
        /\ \A s \in S : f[s] \in Nat
    <2>1. S \in SUBSET Filled(rows) /\ IsFiniteSet(Filled(rows))
      BY FilledIsFinite
    <2>2. IsFiniteSet(S)
      BY <2>1, FS_Subset
    <2> QED
      BY <2>1, <2>2, InflowColumn, CamAssumption
  <1>2. [b \in Bank |-> Cell(rows, m, b)] = cells
    <2>1. ASSUME NEW b \in Bank
          PROVE  {s \in Filled(rows) : rows[s].month = m /\ rows[s].bank = b}
                   = {s \in S : bank[s] = b}
      OBVIOUS
    <2>2. \A b \in Bank : Cell(rows, m, b) = SumFunctionOnSet(f, {s \in S : bank[s] = b})
      BY <2>1 DEF Cell
    <2> QED
      BY <2>2
  <1>3. DOMAIN cells = Bank
    OBVIOUS
  <1>4. Consolidated(rows, m) = SumFunctionOnSet(cells, Bank)
    <2> HIDE DEF cells
    <2> QED
      BY <1>2, <1>3 DEF Consolidated, SumFunction
  <1>5. SumFunctionOnSet(cells, Bank) = SumFunctionOnSet(f, {s \in S : bank[s] \in Bank})
    <2> HIDE DEF f, S, bank
    <2> QED
      BY <1>1, SumByKey
  <1>6. {s \in S : bank[s] \in Bank}
          = {s \in Filled(rows) : rows[s].month = m /\ rows[s].bank \in Bank}
    OBVIOUS
  <1> HIDE DEF cells
  <1> QED
    BY <1>4, <1>5, <1>6

\* All months together are the sum over the rows with a month and a bank.
LEMMA MonthsAddUp ==
    ASSUME NEW rows \in BankMonths
    PROVE  SumFunction([m \in Month |-> Consolidated(rows, m)]) =
             SumFunctionOnSet(Column(rows, "inflow"),
                              {s \in Filled(rows) : rows[s].month # "" /\ rows[s].bank # ""})
  <1> DEFINE f == Column(rows, "inflow")
             S == {s \in Filled(rows) : rows[s].bank \in Bank}
             month == [s \in Filled(rows) |-> rows[s].month]
             lines == [m \in Month |-> SumFunctionOnSet(f, {s \in S : month[s] = m})]
  <1>1. /\ IsFiniteSet(S) /\ IsFiniteSet(Month)
        /\ \A s \in S : f[s] \in Nat
    <2>1. S \in SUBSET Filled(rows) /\ IsFiniteSet(Filled(rows))
      BY FilledIsFinite
    <2>2. IsFiniteSet(S)
      BY <2>1, FS_Subset
    <2> QED
      BY <2>1, <2>2, InflowColumn, CamAssumption
  <1>2. [m \in Month |-> Consolidated(rows, m)] = lines
    <2>1. ASSUME NEW m \in Month
          PROVE  {s \in Filled(rows) : rows[s].month = m /\ rows[s].bank \in Bank}
                   = {s \in S : month[s] = m}
      OBVIOUS
    <2>2. ASSUME NEW m \in Month
          PROVE  Consolidated(rows, m) = SumFunctionOnSet(f, {s \in S : month[s] = m})
      <3>1. Consolidated(rows, m) =
              SumFunctionOnSet(f, {s \in Filled(rows) : rows[s].month = m /\ rows[s].bank \in Bank})
        BY MonthAddsUp
      <3> QED
        BY <2>1, <3>1, Zenon
    <2> QED
      BY <2>2
  <1>3. DOMAIN lines = Month
    OBVIOUS
  <1>4. SumFunction([m \in Month |-> Consolidated(rows, m)]) = SumFunctionOnSet(lines, Month)
    <2> HIDE DEF lines
    <2> QED
      BY <1>2, <1>3 DEF SumFunction
  <1>5. SumFunctionOnSet(lines, Month) = SumFunctionOnSet(f, {s \in S : month[s] \in Month})
    <2> HIDE DEF f, S, month
    <2> QED
      BY <1>1, SumByKey
  <1>6. {s \in S : month[s] \in Month}
          = {s \in Filled(rows) : rows[s].month # "" /\ rows[s].bank # ""}
    <2>1. \A s \in Filled(rows) : /\ rows[s].month \in Month \cup {""}
                                 /\ rows[s].bank \in Bank \cup {""}
      BY InflowColumn DEF BankMonth
    <2>2. "" \notin Bank \cup Month
      BY CamAssumption
    <2> QED
      BY <2>1, <2>2
  <1> HIDE DEF lines
  <1> QED
    BY <1>4, <1>5, <1>6

\* The total is that of the rows with a month and a bank and of the others.
LEMMA InflowSplits ==
    ASSUME NEW rows \in BankMonths
    PROVE  Total(rows, "inflow") - SumFunction([m \in Month |-> Consolidated(rows, m)]) =
             SumFunctionOnSet(Column(rows, "inflow"),
                              {s \in Filled(rows) : ~(rows[s].month # "" /\ rows[s].bank # "")})
  <1> DEFINE f == Column(rows, "inflow")
             S == {s \in Filled(rows) : rows[s].month # "" /\ rows[s].bank # ""}
             T == {s \in Filled(rows) : ~(rows[s].month # "" /\ rows[s].bank # "")}
  <1>1. /\ S \in SUBSET Filled(rows) /\ T \in SUBSET Filled(rows)
        /\ S \cap T = {} /\ S \cup T = Filled(rows)
    OBVIOUS
  <1>2. SumFunction([m \in Month |-> Consolidated(rows, m)]) = SumFunctionOnSet(f, S)
    BY MonthsAddUp
  <1> HIDE DEF S, T
  <1>3. IsFiniteSet(S) /\ IsFiniteSet(T) /\ \A s \in S \cup T : f[s] \in Nat
    BY <1>1, FilledIsFinite, FS_Subset, InflowColumn
  <1>4. SumFunctionOnSet(f, S) \in Nat /\ SumFunctionOnSet(f, T) \in Nat
    BY <1>1, InflowTotals
  <1> HIDE DEF f
  <1>5. SumFunctionOnSet(f, S \cup T) = SumFunctionOnSet(f, S) + SumFunctionOnSet(f, T)
    BY <1>1, <1>3, SumOfUnion
  <1>6. Total(rows, "inflow") = SumFunctionOnSet(f, S \cup T)
    BY <1>1, TotalIsSum DEF f
  <1> DEFINE months == SumFunction([m \in Month |-> Consolidated(rows, m)])
  <1>7. months = SumFunctionOnSet(f, S)
    BY <1>2
  <1> HIDE DEF months
  <1>8. Total(rows, "inflow") - months = SumFunctionOnSet(f, T)
    BY <1>4, <1>5, <1>6, <1>7
  <1> QED
    BY <1>8 DEF months, f, T

-----------------------------------------------------------------------------
(* The memo, step by step. *)

\* The numbers among the constants.
LEMMA CamNumbers ==
    /\ MaxEdits \in Nat /\ Money \subseteq Nat
    /\ \A rate \in InterestRate, amount \in Money : Installment[rate][amount] \in Nat
  BY CamAssumption

TablesAreTyped ==
    /\ profile \in Profiles /\ history \in Facilities /\ turnovers \in BankMonths
    /\ saved \in [stored : BOOLEAN, profile : Profiles, history : Facilities,
                  turnovers : BankMonths, shown : Shown]
    /\ edits \in 0..MaxEdits

\* What is shown is never that of an earlier state of the tables.
FiguresAreCurrent == figures = Figures(profile, history, turnovers)

CamInv == TablesAreTyped /\ FiguresAreCurrent /\ NoFalseComfort

LEMMA EmptyRowsAreTyped ==
    /\ EmptyFacility \in Facility /\ EmptyBankMonth \in BankMonth
    /\ \A debts \in Facilities : Editable(debts) \in Facilities
    /\ [s \in Slot |-> NoRow] \in Facilities /\ NoTurnovers \in BankMonths
  <1>1. 0 \in Money
    BY CamAssumption
  <1>2. EmptyFacility \in Facility /\ EmptyBankMonth \in BankMonth
    BY <1>1 DEF EmptyFacility, Facility, EmptyBankMonth, BankMonth
  <1> QED
    BY <1>2 DEF Editable, Facilities, BankMonths, NoTurnovers

LEMMA ReopenedIsTyped ==
    ASSUME NEW p \in Profiles
    PROVE  Reopened(p) \in Profiles
  <1>1. /\ Fallback.turnover \in Money /\ Fallback.expenses \in Money
        /\ Fallback.rate \in InterestRate
    BY CamAssumption
  <1> QED
    BY <1>1 DEF Reopened, Or, Profiles

LEMMA CamStartsRight == CamInit => CamInv
  <1> SUFFICES ASSUME CamInit PROVE CamInv
    OBVIOUS
  <1>1. profile \in Profiles
    <2>1. /\ Fallback.turnover \in Money /\ Fallback.expenses \in Money
          /\ Fallback.rate \in InterestRate /\ Requested \in Money /\ 0 \in Money
      BY CamAssumption
    <2> QED
      BY <2>1 DEF CamInit, NewProfile, Profiles
  <1>2. history \in Facilities /\ turnovers \in BankMonths
    BY EmptyRowsAreTyped DEF CamInit
  <1>3. figures = Figures(profile, history, turnovers) /\ figures \in Shown
    BY <1>2, FiguresAreTyped DEF CamInit
  <1>4. saved = [stored |-> FALSE, profile |-> profile, history |-> history,
                 turnovers |-> turnovers, shown |-> figures]
    BY DEF CamInit
  <1>5. edits \in 0..MaxEdits
    BY CamNumbers DEF CamInit
  <1> QED
    BY <1>1, <1>2, <1>3, <1>4, <1>5
       DEF CamInv, TablesAreTyped, FiguresAreCurrent, NoFalseComfort

\* Every edit leaves the tables typed and is followed by an update.
LEMMA EditKeepsInv ==
    ASSUME CamInv, Edit, Update, saved' = saved,
           profile' \in Profiles, history' \in Facilities, turnovers' \in BankMonths
    PROVE  CamInv'
  <1>1. edits' \in 0..MaxEdits
    BY CamNumbers DEF Edit, CamInv, TablesAreTyped
  <1> QED
    BY <1>1 DEF CamInv, TablesAreTyped, FiguresAreCurrent, Update, NoFalseComfort, WithinDti,
                WithinGearing

LEMMA EditsKeepInv ==
    ASSUME CamInv,
           \/ \E name \in {"turnover", "expenses", "assets", "amount"}, value \in Money :
                EditField(name, value)
           \/ \E rate \in InterestRate : EditField("rate", rate)
           \/ \E s \in Slot :
                \/ AddFacility(s) \/ RemoveFacility(s) \/ AddTurnover(s) \/ RemoveTurnover(s)
                \/ \E facility \in Facility : EditFacility(s, facility)
                \/ \E row \in BankMonth : EditTurnover(s, row)
    PROVE  CamInv'
  <1>0. profile \in Profiles /\ history \in Facilities /\ turnovers \in BankMonths
    BY DEF CamInv, TablesAreTyped
  <1>1. ASSUME NEW name \in {"turnover", "expenses", "assets", "amount"}, NEW value \in Money,
               EditField(name, value)
        PROVE  CamInv'
    <2>1. profile' \in Profiles
      BY <1>0, <1>1 DEF EditField, Profiles
    <2> QED
      BY <1>0, <1>1, <2>1, EditKeepsInv DEF EditField
  <1>4. ASSUME NEW rate \in InterestRate, EditField("rate", rate)
        PROVE  CamInv'
    <2>1. profile' \in Profiles
      BY <1>0, <1>4 DEF EditField, Profiles
    <2> QED
      BY <1>0, <1>4, <2>1, EditKeepsInv DEF EditField
  <1>2. ASSUME NEW s \in Slot,
               \/ AddFacility(s) \/ RemoveFacility(s)
               \/ \E facility \in Facility : EditFacility(s, facility)
        PROVE  CamInv'
    <2>1. PICK row \in Facility \cup {NoRow} : history' = [history EXCEPT ![s] = row]
      BY <1>2, EmptyRowsAreTyped DEF AddFacility, RemoveFacility, EditFacility
    <2>2. history' \in Facilities
      BY <1>0, <2>1 DEF Facilities
    <2>3. Edit /\ Update /\ UNCHANGED <<profile, turnovers, saved>>
      BY <1>2 DEF AddFacility, RemoveFacility, EditFacility
    <2> QED
      BY <1>0, <2>2, <2>3, EditKeepsInv
  <1>3. ASSUME NEW s \in Slot,
               \/ AddTurnover(s) \/ RemoveTurnover(s)
               \/ \E row \in BankMonth : EditTurnover(s, row)
        PROVE  CamInv'
    <2>1. PICK row \in BankMonth \cup {NoRow} : turnovers' = [turnovers EXCEPT ![s] = row]
      BY <1>3, EmptyRowsAreTyped DEF AddTurnover, RemoveTurnover, EditTurnover
    <2>2. turnovers' \in BankMonths
      BY <1>0, <2>1 DEF BankMonths
    <2>3. Edit /\ Update /\ UNCHANGED <<profile, history, saved>>
      BY <1>3 DEF AddTurnover, RemoveTurnover, EditTurnover
    <2> QED
      BY <1>0, <2>2, <2>3, EditKeepsInv
  <1> QED
    BY <1>1, <1>2, <1>3, <1>4

\* The approval's view of a ratio.
Within(part, whole, ceiling) == whole > 0 /\ HalfUp(10000, part, whole) <= 100 * ceiling

\* A ratio shown within its ceiling is within it for the server, which sees no
\* more debts and the same profit and assets.
LEMMA FlagHolds ==
    ASSUME NEW part \in Nat, NEW less \in Nat, less <= part, NEW whole \in Int,
           NEW ceiling \in Nat, Flag(part, whole, ceiling) = "pass"
    PROVE  Within(less, whole, ceiling)
  <1>1. whole > 0 /\ 100 * part <= ceiling * whole
    BY DEF Flag
  <1>2. whole \in Nat /\ 100 * less <= ceiling * whole
    <2>1. ceiling * whole \in Int /\ 100 * less <= 100 * part
      OBVIOUS
    <2> QED
      BY <1>1, <2>1
  <1> QED
    BY <1>1, <1>2, HalfUpKeepsCeiling DEF Within

\* The page that is opened again differs from the saved profile only where zeros
\* were replaced: for its gearing not at all, and for its debt to income not if
\* there was a profit and neither expenses nor interest were replaced.
LEMMA ReopenedAgrees ==
    ASSUME NEW p \in Profiles
    PROVE  /\ Reopened(p).assets = p.assets /\ Reopened(p).amount = p.amount
           /\ NetProfit(p) > 0 /\ KeepsZeros(p) =>
                 NetProfit(Reopened(p)) = NetProfit(p) /\ Reopened(p).rate = p.rate
  <1>1. /\ Reopened(p).assets = p.assets /\ Reopened(p).amount = p.amount
        /\ Reopened(p).turnover = Or(p.turnover, Fallback.turnover)
    BY DEF Reopened, Profiles
  <1>2. ASSUME NetProfit(p) > 0, KeepsZeros(p)
        PROVE  NetProfit(Reopened(p)) = NetProfit(p) /\ Reopened(p).rate = p.rate
    <2>1. p.turnover \in Nat /\ p.expenses \in Nat
      BY CamNumbers DEF Profiles
    <2>2. p.turnover # 0
      BY <1>2, <2>1 DEF NetProfit
    <2>3. Reopened(p).turnover = p.turnover
      BY <1>1, <2>2 DEF Or
    <2> QED
      BY <1>2, <2>3 DEF NetProfit, KeepsZeros
  <1> QED
    BY <1>1, <1>2

LEMMA SaveKeepsInv ==
    ASSUME CamInv, Save
    PROVE  CamInv'
  <1>0. /\ profile \in Profiles /\ history \in Facilities /\ turnovers \in BankMonths
        /\ figures = Figures(profile, history, turnovers) /\ edits \in 0..MaxEdits
    BY DEF CamInv, TablesAreTyped, FiguresAreCurrent
  <1>1. /\ Named(history) \in Facilities /\ Banked(turnovers) \in BankMonths
        /\ Reopened(profile) \in Profiles /\ Editable(Named(history)) \in Facilities
    BY <1>0, NamedIsLess, ReopenedIsTyped, EmptyRowsAreTyped DEF Banked, BankMonths
  <1>2. /\ saved' = [stored |-> TRUE, profile |-> profile, history |-> Named(history),
                     turnovers |-> Banked(turnovers), shown |-> figures]
        /\ profile' = Reopened(profile) /\ history' = Editable(Named(history))
        /\ turnovers' = Banked(turnovers) /\ edits' = edits
        /\ figures' = Figures(profile', history', turnovers')
    BY DEF Save, Update
  <1>3. figures \in Shown
    BY <1>0, FiguresAreTyped
  <1>4. saved' \in [stored : BOOLEAN, profile : Profiles, history : Facilities,
                   turnovers : BankMonths, shown : Shown]
    BY <1>0, <1>1, <1>2, <1>3
  <1>5. NoFalseComfort'
    <2>1. /\ figures.dti = Flag(Rental(profile, history), NetProfit(profile), 35)
          /\ figures.gearing = Flag(Debt(profile, history), profile.assets, 50)
      BY <1>0 DEF Figures
    <2>2. /\ NetProfit(profile) \in Int /\ profile.assets \in Nat /\ profile.amount \in Nat
          /\ Installment[profile.rate][profile.amount] \in Nat
      <3>1. /\ profile.turnover \in Money /\ profile.expenses \in Money
            /\ profile.assets \in Money /\ profile.amount \in Money
            /\ profile.rate \in InterestRate
        BY <1>0 DEF Profiles
      <3>2. Installment[profile.rate][profile.amount] \in Nat
        BY <3>1, CamNumbers
      <3>3. /\ profile.turnover \in Nat /\ profile.expenses \in Nat
            /\ profile.assets \in Nat /\ profile.amount \in Nat
        BY <3>1, CamNumbers
      <3> QED
        BY <3>2, <3>3 DEF NetProfit
    <2>3. /\ Rental(profile, history) \in Nat /\ Rental(profile, Named(history)) \in Nat
          /\ Rental(profile, Named(history)) <= Rental(profile, history)
      BY <1>0, <1>1, <2>2, NamedIsLess, DebtTotals DEF Rental
    <2>4. /\ Debt(profile, history) \in Nat /\ Debt(profile, Named(history)) \in Nat
          /\ Debt(profile, Named(history)) <= Debt(profile, history)
      BY <1>0, <1>1, <2>2, NamedIsLess, DebtTotals DEF Debt
    <2> DEFINE page == Reopened(profile)
               debts == Named(history)
    <2>5. ASSUME figures.dti = "pass"
          PROVE  /\ Within(Rental(profile, debts), NetProfit(profile), 35)
                 /\ KeepsZeros(profile) => Within(Rental(page, debts), NetProfit(page), 35)
      <3>1. Flag(Rental(profile, history), NetProfit(profile), 35) = "pass"
        BY <2>1, <2>5
      <3>2. Within(Rental(profile, debts), NetProfit(profile), 35)
        <4>1. NetProfit(profile) \in Int /\ 35 \in Nat
          BY <2>2
        <4> QED
          BY <2>3, <3>1, <4>1, FlagHolds
      <3>3. ASSUME KeepsZeros(profile)
            PROVE  NetProfit(page) = NetProfit(profile) /\ Rental(page, debts) = Rental(profile, debts)
        <4>1. NetProfit(profile) > 0
          BY <3>2 DEF Within
        <4> QED
          BY <1>0, <3>3, <4>1, ReopenedAgrees DEF Rental
      <3> QED
        BY <3>2, <3>3
    <2>6. ASSUME figures.gearing = "pass"
          PROVE  /\ Within(Debt(profile, debts), profile.assets, 50)
                 /\ Within(Debt(page, debts), page.assets, 50)
      <3>1. Flag(Debt(profile, history), profile.assets, 50) = "pass"
        BY <2>1, <2>6
      <3>2. Within(Debt(profile, debts), profile.assets, 50)
        <4>1. profile.assets \in Int /\ 50 \in Nat
          BY <2>2
        <4> QED
          BY <2>4, <3>1, <4>1, FlagHolds
      <3>3. page.assets = profile.assets /\ Debt(page, debts) = Debt(profile, debts)
        BY <1>0, ReopenedAgrees DEF Debt
      <3> QED
        BY <3>2, <3>3
    <2>7. /\ saved'.profile = profile /\ saved'.history = debts
          /\ saved'.shown = figures
      BY <1>2
    <2> HIDE DEF debts
    <2> QED
      BY <2>5, <2>6, <2>7 DEF NoFalseComfort, WithinDti, WithinGearing, Within
  <1> QED
    BY <1>0, <1>1, <1>2, <1>4, <1>5 DEF CamInv, TablesAreTyped, FiguresAreCurrent

LEMMA CamStepKeepsInv ==
    ASSUME CamInv, [CamNext]_camVars
    PROVE  CamInv'
  <1>1. CASE UNCHANGED camVars
    BY <1>1 DEF camVars, CamInv, TablesAreTyped, FiguresAreCurrent, NoFalseComfort, WithinDti,
                WithinGearing
  <1>2. CASE CamNext
    BY <1>2, EditsKeepInv, SaveKeepsInv DEF CamNext
  <1> QED
    BY <1>1, <1>2

LEMMA CamInvariant == CamSpec => []CamInv
  BY CamStartsRight, CamStepKeepsInv, PTL DEF CamSpec

-----------------------------------------------------------------------------
(* Results. *)

\* The tables, what is shown of them and what was saved are well formed
\* (cam-feasibility.js, feasibility/cam.py).
THEOREM CamTypeCorrect == CamSpec => []CamTypeOK
  <1>1. CamInv => CamTypeOK
    <2> SUFFICES ASSUME CamInv PROVE CamTypeOK
      OBVIOUS
    <2>1. figures \in Shown
      BY FiguresAreTyped DEF CamInv, TablesAreTyped, FiguresAreCurrent
    <2> QED
      BY <2>1 DEF CamInv, TablesAreTyped, CamTypeOK, Facilities, BankMonths, Shown, Ratings
  <1> QED
    BY <1>1, CamInvariant, PTL

\* The total of the turnovers and the consolidated table differ by the rows that
\* lack a month or a bank, whatever was edited, removed or saved, for any number
\* of rows, banks and months (cam-feasibility.js updateTurnoverTotals and
\* renderTurnoverPivot).
THEOREM TotalsAreShown == CamSpec => []ShownTotals
  <1>1. CamInv => ShownTotals
    <2> SUFFICES ASSUME CamInv PROVE ShownTotals
      OBVIOUS
    <2>1. turnovers \in BankMonths /\ figures = Figures(profile, history, turnovers)
      BY DEF CamInv, TablesAreTyped, FiguresAreCurrent
    <2>2. /\ figures.inflow = Total(turnovers, "inflow")
          /\ figures.consolidated = [m \in Month |-> Consolidated(turnovers, m)]
      BY <2>1 DEF Figures
    <2> QED
      BY <2>1, <2>2, InflowSplits DEF ShownTotals
  <1> QED
    BY <1>1, CamInvariant, PTL

\* A ratio that was shown within its ceiling when the memo was submitted is
\* within it for the committee, and for the approvers on the page they open
\* unless it replaces expenses or interest of zero, for any amounts: the server
\* rounds half up and leaves out facilities without a name (calculator.py,
\* cam.py, collateral.py:160-201).
THEOREM ComfortIsNotFalse == CamSpec => []NoFalseComfort
  BY CamInvariant, PTL DEF CamInv
=============================================================================
