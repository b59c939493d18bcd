---------------------------- MODULE SumTheorems ----------------------------
(* What SumFunctionOnSet adds up to over finite sets.  The library defines *)
(* it by recursion over subsets, taking out an element it chooses; here it *)
(* is shown that there is such a function, and that any element may be     *)
(* taken out.  Induction is by a smallest counterexample.                  *)
EXTENDS Functions, FiniteSets, FiniteSetTheorems, WellFoundedInduction, TLAPS

Chosen(T) == CHOOSE x \in T : TRUE
Rest(T) == T \ {Chosen(T)}

\* g adds up f over the subsets of S, as the library has it.
Adds(g, f, S) ==
  g = [T \in SUBSET S |-> IF T = {} THEN 0 ELSE f[Chosen(T)] + g[Rest(T)]]

LEMMA ChosenIn ==
  ASSUME NEW T, T # {}
  PROVE  Chosen(T) \in T /\ Rest(T) \subseteq T /\ Rest(T) # T
  BY DEF Chosen, Rest

\* The smallest of some subsets of a finite set.
LEMMA SmallestSubset ==
  ASSUME NEW S, IsFiniteSet(S), NEW Bad, Bad \subseteq SUBSET S, Bad # {}
  PROVE  \E T \in Bad : \A U \in Bad : U \subseteq T => U = T
  <1>1. IsWellFoundedOn(StrictSubsetOrdering(S), SUBSET S)
    BY FS_StrictSubsetOrderingWellFounded, FS_FiniteSubsetsOfFinite
  <1>2. PICK T \in Bad : \A U \in Bad : ~(<<U, T>> \in StrictSubsetOrdering(S))
    BY <1>1, WFMin
  <1>3. ASSUME NEW U \in Bad, U \subseteq T PROVE U = T
    BY <1>2, <1>3 DEF StrictSubsetOrdering
  <1>4. QED
    BY <1>3

LEMMA AddsOn ==
  ASSUME NEW g, NEW f, NEW S, Adds(g, f, S), NEW T \in SUBSET S
  PROVE  g[T] = IF T = {} THEN 0 ELSE f[Chosen(T)] + g[Rest(T)]
  BY DEF Adds

\* Two of them agree wherever both are defined.
LEMMA AddsAgree ==
  ASSUME NEW f, NEW S, NEW R, IsFiniteSet(S), NEW g, NEW h, Adds(g, f, S), Adds(h, f, R),
         NEW T, T \subseteq S, T \subseteq R
  PROVE  g[T] = h[T]
  <1> DEFINE Bad == {U \in SUBSET S : U \subseteq R /\ g[U] # h[U]}
  <1>1. SUFFICES ASSUME Bad # {} PROVE FALSE
    OBVIOUS
  <1>2. PICK U \in Bad : \A V \in Bad : V \subseteq U => V = U
    <2>1. Bad \subseteq SUBSET S
      OBVIOUS
    <2> HIDE DEF Bad
    <2>2. QED
      BY <1>1, <2>1, SmallestSubset
  <1>3. g[U] = (IF U = {} THEN 0 ELSE f[Chosen(U)] + g[Rest(U)])
    BY AddsOn
  <1>4. h[U] = (IF U = {} THEN 0 ELSE f[Chosen(U)] + h[Rest(U)])
    BY AddsOn
  <1>5. U # {} => g[Rest(U)] = h[Rest(U)]
    BY <1>2, ChosenIn
  <1>6. QED
    BY <1>3, <1>4, <1>5

LEMMA AddsExists ==
  ASSUME NEW f, NEW S, IsFiniteSet(S)
  PROVE  \E g : Adds(g, f, S)
  <1> DEFINE Bad == {T \in SUBSET S : ~\E g : Adds(g, f, T)}
  <1>1. SUFFICES ASSUME Bad # {} PROVE FALSE
    OBVIOUS
  <1>2. PICK T \in Bad : \A U \in Bad : U \subseteq T => U = T
    <2>1. Bad \subseteq SUBSET S
      OBVIOUS
    <2> HIDE DEF Bad
    <2>2. QED
      BY <1>1, <2>1, SmallestSubset
  <1> DEFINE Below(U) == CHOOSE g : Adds(g, f, U)
             h == [U \in SUBSET T |->
                     IF U = {} THEN 0 ELSE f[Chosen(U)] + Below(Rest(U))[Rest(U)]]
  <1>3. ASSUME NEW U \in SUBSET T, U # T PROVE Adds(Below(U), f, U) /\ IsFiniteSet(U)
    BY <1>2, <1>3, FS_Subset
  <1> HIDE DEF Below
  <1>4. ASSUME NEW U \in SUBSET T, U # T PROVE h[U] = Below(U)[U]
    <2>1. CASE U = {}
      BY <2>1, <1>3, <1>4, AddsOn
    <2>2. CASE U # {}
      <3>1. Rest(U) \in SUBSET U /\ Rest(U) # T /\ Rest(U) \in SUBSET T
        BY <2>2, <1>4, ChosenIn
      <3>2. Below(U)[U] = f[Chosen(U)] + Below(U)[Rest(U)]
        BY <2>2, <1>3, <1>4, AddsOn
      <3>3. Below(U)[Rest(U)] = Below(Rest(U))[Rest(U)]
        BY <3>1, <1>3, <1>4, AddsAgree
      <3>4. QED
        BY <2>2, <3>2, <3>3
    <2>3. QED
      BY <2>1, <2>2
  <1>5. ASSUME NEW U \in SUBSET T, U # {} PROVE h[Rest(U)] = Below(Rest(U))[Rest(U)]
    <2>1. Rest(U) \in SUBSET T /\ Rest(U) # T
      BY <1>5, ChosenIn
    <2>2. QED
      BY <2>1, <1>4
  <1>6. h = [U \in SUBSET T |-> IF U = {} THEN 0 ELSE f[Chosen(U)] + h[Rest(U)]]
    BY <1>5
  <1>7. Adds(h, f, T)
    BY <1>6 DEF Adds
  <1>8. QED
    BY <1>2, <1>7

LEMMA SumIsAdds ==
  ASSUME NEW f, NEW S, IsFiniteSet(S)
  PROVE  \E g : Adds(g, f, S) /\ SumFunctionOnSet(f, S) = g[S]
  <1>1. SumFunctionOnSet(f, S) = (CHOOSE g : Adds(g, f, S))[S]
    BY DEF SumFunctionOnSet, FoldFunctionOnSet, MapThenFoldSet, Adds, Chosen, Rest
  <1>2. QED
    BY <1>1, AddsExists

LEMMA SumOfNone ==
  ASSUME NEW f
  PROVE  SumFunctionOnSet(f, {}) = 0
  BY SumIsAdds, AddsOn, FS_EmptySet

LEMMA SumByChosen ==
  ASSUME NEW f, NEW S, IsFiniteSet(S), S # {}
  PROVE  SumFunctionOnSet(f, S) = f[Chosen(S)] + SumFunctionOnSet(f, Rest(S))
  <1>1. PICK g : Adds(g, f, S) /\ SumFunctionOnSet(f, S) = g[S]
    BY SumIsAdds
  <1>2. Rest(S) \in SUBSET S /\ IsFiniteSet(Rest(S))
    BY ChosenIn, FS_Subset
  <1>3. PICK h : Adds(h, f, Rest(S)) /\ SumFunctionOnSet(f, Rest(S)) = h[Rest(S)]
    BY <1>2, SumIsAdds
  <1>4. g[Rest(S)] = h[Rest(S)]
    BY <1>1, <1>2, <1>3, AddsAgree
  <1>5. g[S] = f[Chosen(S)] + g[Rest(S)]
    BY <1>1, AddsOn
  <1>6. QED
    BY <1>1, <1>3, <1>4, <1>5

LEMMA SumIsInt ==
  ASSUME NEW f, NEW S, IsFiniteSet(S), \A x \in S : f[x] \in Int
  PROVE  SumFunctionOnSet(f, S) \in Int
  <1> DEFINE Bad == {T \in SUBSET S : SumFunctionOnSet(f, T) \notin Int}
  <1>1. SUFFICES ASSUME Bad # {} PROVE FALSE
    OBVIOUS
  <1>2. PICK T \in Bad : \A U \in Bad : U \subseteq T => U = T
    <2>1. Bad \subseteq SUBSET S
      OBVIOUS
    <2> HIDE DEF Bad
    <2>2. QED
      BY <1>1, <2>1, SmallestSubset
  <1>3. T # {} /\ IsFiniteSet(T)
    <2>1. SumFunctionOnSet(f, {}) \in Int
      BY SumOfNone
    <2>2. T # {}
      BY <1>2, <2>1
    <2>3. QED
      BY <1>2, <2>2, FS_Subset
  <1>4. Rest(T) \in SUBSET S /\ Rest(T) \notin Bad /\ Chosen(T) \in S
    BY <1>2, <1>3, ChosenIn
  <1>5. QED
    BY <1>2, <1>3, <1>4, SumByChosen

\* Any element may be taken out first.
LEMMA SumByAny ==
  ASSUME NEW f, NEW S, IsFiniteSet(S), \A x \in S : f[x] \in Int, NEW e \in S
  PROVE  SumFunctionOnSet(f, S) = f[e] + SumFunctionOnSet(f, S \ {e})
  <1> DEFINE Fails(T, d) == SumFunctionOnSet(f, T) # f[d] + SumFunctionOnSet(f, T \ {d})
             Bad == {T \in SUBSET S : \E d \in T : Fails(T, d)}
  <1>1. SUFFICES ASSUME Bad # {} PROVE FALSE
    OBVIOUS
  <1>2. PICK T \in Bad : \A U \in Bad : U \subseteq T => U = T
    <2>1. Bad \subseteq SUBSET S
      OBVIOUS
    <2> HIDE DEF Bad
    <2>2. QED
      BY <1>1, <2>1, SmallestSubset
  <1>3. PICK d \in T : Fails(T, d)
    BY <1>2
  <1> DEFINE c == Chosen(T)
  <1>4. /\ IsFiniteSet(T) /\ T \in SUBSET S
        /\ c \in T /\ Rest(T) = T \ {c}
    BY <1>2, <1>3, ChosenIn, FS_Subset DEF Rest
  <1>5. SumFunctionOnSet(f, T) = f[c] + SumFunctionOnSet(f, T \ {c})
    BY <1>3, <1>4, SumByChosen
  <1>6. c # d
    BY <1>3, <1>5
  <1> HIDE DEF c
  <1>7. ~Fails(T \ {c}, d) /\ ~Fails(T \ {d}, c)
    <2>1. T \ {c} \in SUBSET S /\ T \ {d} \in SUBSET S /\ T \ {c} # T /\ T \ {d} # T
      BY <1>3, <1>4
    <2>2. T \ {c} \notin Bad /\ T \ {d} \notin Bad
      BY <1>2, <2>1
    <2>3. QED
      BY <1>3, <1>4, <1>6, <2>1, <2>2
  <1>8. (T \ {c}) \ {d} = (T \ {d}) \ {c}
    OBVIOUS
  <1>9. SumFunctionOnSet(f, (T \ {c}) \ {d}) \in Int /\ f[c] \in Int /\ f[d] \in Int
    <2>1. IsFiniteSet((T \ {c}) \ {d})
      BY <1>4, FS_Subset
    <2>2. QED
      BY <1>3, <1>4, <2>1, SumIsInt
  <1>10. QED
    <2> DEFINE s == SumFunctionOnSet(f, (T \ {c}) \ {d})
               sc == SumFunctionOnSet(f, T \ {c})
               sd == SumFunctionOnSet(f, T \ {d})
    <2>1. sc = f[d] + s /\ sd = f[c] + s /\ s \in Int
      BY <1>7, <1>8, <1>9
    <2>2. SumFunctionOnSet(f, T) = f[c] + sc /\ SumFunctionOnSet(f, T) # f[d] + sd
      BY <1>3, <1>5
    <2> HIDE DEF s, sc, sd
    <2>3. QED
      BY <1>9, <2>1, <2>2

LEMMA SumWithOneMore ==
  ASSUME NEW f, NEW S, IsFiniteSet(S), NEW e, e \notin S, f[e] \in Int,
         \A x \in S : f[x] \in Int
  PROVE  SumFunctionOnSet(f, S \cup {e}) = SumFunctionOnSet(f, S) + f[e]
  <1>1. IsFiniteSet(S \cup {e}) /\ (S \cup {e}) \ {e} = S
    BY FS_AddElement
  <1>2. SumFunctionOnSet(f, S \cup {e}) = f[e] + SumFunctionOnSet(f, S)
    BY <1>1, SumByAny
  <1>3. QED
    BY <1>2, SumIsInt

LEMMA SumsAgree ==
  ASSUME NEW f, NEW g, NEW S, IsFiniteSet(S), \A x \in S : f[x] = g[x]
  PROVE  SumFunctionOnSet(f, S) = SumFunctionOnSet(g, S)
  <1> DEFINE Bad == {T \in SUBSET S : SumFunctionOnSet(f, T) # SumFunctionOnSet(g, T)}
  <1>1. SUFFICES ASSUME Bad # {} PROVE FALSE
    OBVIOUS
  <1>2. PICK T \in Bad : \A U \in Bad : U \subseteq T => U = T
    <2>1. Bad \subseteq SUBSET S
      OBVIOUS
    <2> HIDE DEF Bad
    <2>2. QED
      BY <1>1, <2>1, SmallestSubset
  <1>3. T # {} /\ IsFiniteSet(T)
    <2>1. SumFunctionOnSet(f, {}) = 0 /\ SumFunctionOnSet(g, {}) = 0
      BY SumOfNone
    <2>2. T # {}
      BY <1>2, <2>1
    <2>3. QED
      BY <1>2, <2>2, FS_Subset
  <1>4. Rest(T) \in SUBSET S /\ Rest(T) \notin Bad /\ Chosen(T) \in S
    BY <1>2, <1>3, ChosenIn
  <1>5. QED
    BY <1>2, <1>3, <1>4, SumByChosen

\* One value changes, all others stay.
LEMMA SumChanges ==
  ASSUME NEW f, NEW g, NEW S, IsFiniteSet(S), \A x \in S : f[x] \in Int,
         NEW e \in S, g[e] \in Int, \A x \in S \ {e} : g[x] = f[x]
  PROVE  SumFunctionOnSet(g, S) = SumFunctionOnSet(f, S) + (g[e] - f[e])
  <1> DEFINE rest == SumFunctionOnSet(f, S \ {e})
  <1>1. IsFiniteSet(S \ {e})
    BY FS_RemoveElement
  <1>2. rest \in Int /\ SumFunctionOnSet(g, S \ {e}) = rest
    BY <1>1, SumsAgree, SumIsInt
  <1>3. SumFunctionOnSet(f, S) = f[e] + rest
    BY SumByAny
  <1>4. SumFunctionOnSet(g, S) = g[e] + rest
    BY <1>2, SumByAny
  <1> HIDE DEF rest
  <1>5. QED
    BY <1>2, <1>3, <1>4

LEMMA SumAtMost ==
  ASSUME NEW f, NEW g, NEW S, IsFiniteSet(S),
         \A x \in S : f[x] \in Int /\ g[x] \in Int /\ f[x] <= g[x]
  PROVE  SumFunctionOnSet(f, S) <= SumFunctionOnSet(g, S)
  <1> DEFINE Bad == {T \in SUBSET S : ~(SumFunctionOnSet(f, T) <= SumFunctionOnSet(g, T))}
  <1>1. SUFFICES ASSUME Bad # {} PROVE FALSE
    OBVIOUS
  <1>2. PICK T \in Bad : \A U \in Bad : U \subseteq T => U = T
    <2>1. Bad \subseteq SUBSET S
      OBVIOUS
    <2> HIDE DEF Bad
    <2>2. QED
      BY <1>1, <2>1, SmallestSubset
  <1>3. T # {} /\ IsFiniteSet(T)
    <2>1. SumFunctionOnSet(f, {}) = 0 /\ SumFunctionOnSet(g, {}) = 0
      BY SumOfNone
    <2>2. SumFunctionOnSet(f, {}) <= SumFunctionOnSet(g, {})
      BY <2>1
    <2>3. T # {}
      BY <1>2, <2>2
    <2>4. QED
      BY <1>2, <2>3, FS_Subset
  <1>4. Rest(T) \in SUBSET S /\ Rest(T) \notin Bad /\ Chosen(T) \in S /\ IsFiniteSet(Rest(T))
    BY <1>2, <1>3, ChosenIn, FS_Subset
  <1>5. SumFunctionOnSet(f, Rest(T)) \in Int /\ SumFunctionOnSet(g, Rest(T)) \in Int
    BY <1>4, SumIsInt
  <1>6. QED
    BY <1>2, <1>3, <1>4, <1>5, SumByChosen

LEMMA SumOfZeros ==
  ASSUME NEW f, NEW S, IsFiniteSet(S), \A x \in S : f[x] = 0
  PROVE  SumFunctionOnSet(f, S) = 0
  <1> DEFINE Bad == {T \in SUBSET S : SumFunctionOnSet(f, T) # 0}
  <1>1. SUFFICES ASSUME Bad # {} PROVE FALSE
    OBVIOUS
  <1>2. PICK T \in Bad : \A U \in Bad : U \subseteq T => U = T
    <2>1. Bad \subseteq SUBSET S
      OBVIOUS
    <2> HIDE DEF Bad
    <2>2. QED
      BY <1>1, <2>1, SmallestSubset
  <1>3. T # {} /\ IsFiniteSet(T)
    <2>1. SumFunctionOnSet(f, {}) = 0
      BY SumOfNone
    <2>2. T # {}
      BY <1>2, <2>1
    <2>3. QED
      BY <1>2, <2>2, FS_Subset
  <1>4. Rest(T) \in SUBSET S /\ Rest(T) \notin Bad /\ Chosen(T) \in S
    BY <1>2, <1>3, ChosenIn
  <1>5. QED
    BY <1>2, <1>3, <1>4, SumByChosen

LEMMA SumIsNat ==
  ASSUME NEW f, NEW S, IsFiniteSet(S), \A x \in S : f[x] \in Nat
  PROVE  SumFunctionOnSet(f, S) \in Nat
  <1> DEFINE zero == [x \in S |-> 0]
  <1>1. SumFunctionOnSet(zero, S) = 0
    BY SumOfZeros
  <1>2. SumFunctionOnSet(zero, S) <= SumFunctionOnSet(f, S)
    <2>1. \A x \in S : zero[x] \in Int /\ f[x] \in Int /\ zero[x] <= f[x]
      OBVIOUS
    <2> HIDE DEF zero
    <2>2. QED
      BY <2>1, SumAtMost
  <1>3. SumFunctionOnSet(f, S) \in Int
    BY SumIsInt
  <1> HIDE DEF zero
  <1>4. QED
    BY <1>1, <1>2, <1>3

\* Of natural numbers, fewer add up to no more.
LEMMA SumOfFewer ==
  ASSUME NEW f, NEW S, IsFiniteSet(S), \A x \in S : f[x] \in Nat, NEW R \in SUBSET S
  PROVE  SumFunctionOnSet(f, R) <= SumFunctionOnSet(f, S)
  <1> DEFINE Bad == {T \in SUBSET S : R \subseteq T /\
                       ~(SumFunctionOnSet(f, R) <= SumFunctionOnSet(f, T))}
  <1>1. SUFFICES ASSUME Bad # {} PROVE FALSE
    OBVIOUS
  <1>2. PICK T \in Bad : \A U \in Bad : U \subseteq T => U = T
    <2>1. Bad \subseteq SUBSET S
      OBVIOUS
    <2> HIDE DEF Bad
    <2>2. QED
      BY <1>1, <2>1, SmallestSubset
  <1>3. SumFunctionOnSet(f, R) \in Nat /\ IsFiniteSet(T) /\ \A x \in T : f[x] \in Nat
    <2>1. IsFiniteSet(R) /\ \A x \in R : f[x] \in Nat
      BY FS_Subset
    <2>2. QED
      BY <1>2, <2>1, SumIsNat, FS_Subset
  <1>4. T # R
    BY <1>2, <1>3
  <1>5. PICK e \in T : e \notin R
    BY <1>2, <1>4
  <1>6. T \ {e} \in SUBSET S /\ R \subseteq T \ {e} /\ T \ {e} # T
    BY <1>2, <1>5
  <1>7. SumFunctionOnSet(f, R) <= SumFunctionOnSet(f, T \ {e})
    BY <1>2, <1>6
  <1>8. IsFiniteSet(T \ {e}) /\ \A x \in T \ {e} : f[x] \in Nat
    BY <1>3, FS_RemoveElement
  <1>9. SumFunctionOnSet(f, T \ {e}) \in Nat
    BY <1>8, SumIsNat
  <1>10. SumFunctionOnSet(f, T) = f[e] + SumFunctionOnSet(f, T \ {e})
    BY <1>3, <1>5, SumByAny
  <1>11. QED
    BY <1>2, <1>3, <1>5, <1>7, <1>9, <1>10
=============================================================================
