-------------------------------- MODULE Sums --------------------------------
(***************************************************************************)
(* Sums over finite sets: what the invariants that count money rest on.    *)
(* Sum(F, S) adds F[x] for the members x of S.                             *)
(*                                                                         *)
(* The proofs are by the least set, in a finite set of sets, that would be *)
(* a counterexample.                                                       *)
(***************************************************************************)
EXTENDS FiniteSetsExt, FiniteSetTheorems, TLAPS

Sum(F, S) == SumFunctionOnSet(F, S)

Numbers(F, S) == \A x \in S : F[x] \in Int

-----------------------------------------------------------------------------
(* The recursion is well defined. *)

\* Of any subsets of a finite set, one contains no other.
LEMMA LeastSet ==
    ASSUME NEW S, IsFiniteSet(S), NEW T \in SUBSET (SUBSET S), T # {}
    PROVE  \E s \in T : \A t \in T : t \subseteq s => t = s
<1>1. IsWellFoundedOn(StrictSubsetOrdering(S), FiniteSubsetsOf(S))
    BY FS_StrictSubsetOrderingWellFounded
<1>2. IsWellFoundedOn(StrictSubsetOrdering(S), SUBSET S)
    BY <1>1, FS_FiniteSubsetsOfFinite
<1>3. \E x \in T : \A y \in T : <<y, x>> \notin StrictSubsetOrdering(S)
    BY <1>2, WFMin
<1> QED
    BY <1>3 DEF StrictSubsetOrdering

Pick(s)    == CHOOSE x \in s : TRUE
Without(s) == s \ {Pick(s)}

LEMMA PickIsMember == \A s : s # {} => Pick(s) \in s
BY DEF Pick

\* g adds up F over every subset of S.
Adds(g, F, S) ==
    g = [s \in SUBSET S |-> IF s = {} THEN 0 ELSE F[Pick(s)] + g[Without(s)]]

Adder(F, S) == CHOOSE g : Adds(g, F, S)

LEMMA SumIsAdded ==
    ASSUME NEW F, NEW S
    PROVE  Sum(F, S) = Adder(F, S)[S]
BY DEF Sum, SumFunctionOnSet, FoldFunctionOnSet, MapThenFoldSet, Adder, Adds, Pick, Without

LEMMA AddsAt ==
    ASSUME NEW g, NEW F, NEW S, Adds(g, F, S), NEW s \in SUBSET S
    PROVE  g[s] = IF s = {} THEN 0 ELSE F[Pick(s)] + g[Without(s)]
BY DEF Adds

\* Any two functions that add up agree where both are defined.
LEMMA AddsOnce ==
    ASSUME NEW F, NEW S, NEW T, IsFiniteSet(S),
           NEW g, Adds(g, F, S), NEW h, Adds(h, F, T), NEW s \in SUBSET S, s \in SUBSET T
    PROVE  g[s] = h[s]
<1> DEFINE bad == {r \in SUBSET S : r \in SUBSET T /\ g[r] # h[r]}
<1>1. SUFFICES ASSUME bad # {} PROVE FALSE
    OBVIOUS
<1>0. bad \in SUBSET (SUBSET S)
    OBVIOUS
<1> HIDE DEF bad
<1>2. PICK r \in bad : \A t \in bad : t \subseteq r => t = r
    BY <1>0, <1>1, LeastSet
<1> USE DEF bad
<1>3. r # {}
    BY <1>2, AddsAt
<1>4. Without(r) \in SUBSET S /\ Without(r) \in SUBSET T /\ Without(r) # r /\ Without(r) \subseteq r
    BY <1>2, <1>3, PickIsMember DEF Without
<1>5. g[Without(r)] = h[Without(r)]
    BY <1>2, <1>4
<1> QED
    BY <1>2, <1>3, <1>5, AddsAt

\* A function that adds up exists.
LEMMA AdderAdds ==
    ASSUME NEW F, NEW S, IsFiniteSet(S)
    PROVE  Adds(Adder(F, S), F, S)
<1> DEFINE bad == {r \in SUBSET S : ~ \E g : Adds(g, F, r)}
<1>1. SUFFICES ASSUME bad # {} PROVE FALSE
    BY DEF Adder
<1>0. bad \in SUBSET (SUBSET S)
    OBVIOUS
<1> HIDE DEF bad
<1>2. PICK r \in bad : \A t \in bad : t \subseteq r => t = r
    BY <1>0, <1>1, LeastSet
<1> USE DEF bad
<1> DEFINE below(t) == Adder(F, t)[t]
           h == [t \in SUBSET r |-> IF t = {} THEN 0 ELSE F[Pick(t)] + below(Without(t))]
<1>3. ASSUME NEW t \in SUBSET r, t # r
      PROVE  Adds(Adder(F, t), F, t) /\ IsFiniteSet(t)
    BY <1>2, <1>3, FS_Subset DEF Adder
<1>4. ASSUME NEW t \in SUBSET r, t # r
      PROVE  h[t] = below(t)
    <2>1. CASE t = {}
        BY <1>3, <1>4, <2>1, AddsAt
    <2>2. CASE t # {}
        <3>1. Without(t) \in SUBSET r /\ Without(t) # r /\ Without(t) \in SUBSET t
            BY <1>4, <2>2, PickIsMember DEF Without
        <3>2. Adder(F, t)[Without(t)] = below(Without(t))
            BY <1>3, <1>4, <3>1, AddsOnce
        <3>3. Adder(F, t)[t] = F[Pick(t)] + Adder(F, t)[Without(t)]
            BY <1>3, <1>4, <2>2, AddsAt
        <3> QED
            BY <2>2, <3>2, <3>3
    <2> QED
        BY <2>1, <2>2
<1>5. ASSUME NEW t \in SUBSET r, t # {}
      PROVE  h[Without(t)] = below(Without(t))
    <2>1. Without(t) \in SUBSET r /\ Without(t) # r
        BY <1>5, PickIsMember DEF Without
    <2> QED
        BY <1>4, <2>1
<1>6. Adds(h, F, r)
    BY <1>5 DEF Adds
<1> QED
    BY <1>2, <1>6

-----------------------------------------------------------------------------
(* What a sum is. *)

LEMMA SumEmpty ==
    ASSUME NEW F
    PROVE  Sum(F, {}) = 0
BY SumIsAdded, AdderAdds, AddsAt, FS_EmptySet

LEMMA SumPick ==
    ASSUME NEW F, NEW S, IsFiniteSet(S), S # {}
    PROVE  Sum(F, S) = F[Pick(S)] + Sum(F, Without(S))
<1> DEFINE r == Without(S)
<1>1. IsFiniteSet(r) /\ r \in SUBSET S
    BY FS_RemoveElement DEF Without
<1>2. Adds(Adder(F, S), F, S) /\ Adds(Adder(F, r), F, r)
    BY <1>1, AdderAdds
<1>3. Adder(F, S)[r] = Adder(F, r)[r]
    <2> HIDE DEF r
    <2> QED
        BY <1>1, <1>2, AddsOnce
<1> QED
    BY <1>2, <1>3, SumIsAdded, AddsAt

\* A sum of integers is one.
LEMMA SumType ==
    ASSUME NEW F, NEW S, IsFiniteSet(S), Numbers(F, S)
    PROVE  Sum(F, S) \in Int
<1> DEFINE bad == {r \in SUBSET S : Sum(F, r) \notin Int}
<1>1. SUFFICES ASSUME bad # {} PROVE FALSE
    OBVIOUS
<1>0. bad \in SUBSET (SUBSET S)
    OBVIOUS
<1> HIDE DEF bad
<1>2. PICK r \in bad : \A t \in bad : t \subseteq r => t = r
    BY <1>0, <1>1, LeastSet
<1> USE DEF bad
<1>3. IsFiniteSet(r) /\ r # {}
    <2>1. r \in SUBSET S
        BY <1>2
    <2>2. Sum(F, {}) \in Int /\ Sum(F, r) \notin Int
        BY <1>2, SumEmpty
    <2> QED
        BY <2>1, <2>2, FS_Subset
<1>4. Pick(r) \in r /\ Without(r) \in SUBSET S /\ Without(r) # r /\ Without(r) \subseteq r
    BY <1>2, <1>3, PickIsMember DEF Without
<1>5. Sum(F, Without(r)) \in Int /\ F[Pick(r)] \in Int
    BY <1>2, <1>4 DEF Numbers
<1> QED
    BY <1>2, <1>3, <1>5, SumPick

\* Any member can be taken out.
LEMMA SumRemove ==
    ASSUME NEW F, NEW S, IsFiniteSet(S), Numbers(F, S), NEW x \in S
    PROVE  Sum(F, S) = F[x] + Sum(F, S \ {x})
<1> DEFINE bad == {r \in SUBSET S : \E y \in r : Sum(F, r) # F[y] + Sum(F, r \ {y})}
<1>1. SUFFICES ASSUME bad # {} PROVE FALSE
    OBVIOUS
<1>0. bad \in SUBSET (SUBSET S)
    OBVIOUS
<1> HIDE DEF bad
<1>2. PICK r \in bad : \A t \in bad : t \subseteq r => t = r
    BY <1>0, <1>1, LeastSet
<1> USE DEF bad
<1>3. PICK y \in r : Sum(F, r) # F[y] + Sum(F, r \ {y})
    BY <1>2
<1> DEFINE c == Pick(r)
           rest == (r \ {c}) \ {y}
<1>4. c \in r /\ IsFiniteSet(r) /\ Sum(F, r) = F[c] + Sum(F, r \ {c})
    BY <1>2, <1>3, FS_Subset, PickIsMember, SumPick DEF Without
<1>5. y # c
    BY <1>3, <1>4
<1>6. r \ {c} \notin bad /\ r \ {y} \notin bad
    BY <1>2, <1>3, <1>4
<1>7. r \ {c} \in SUBSET S /\ r \ {y} \in SUBSET S /\ y \in r \ {c} /\ c \in r \ {y}
    BY <1>2, <1>3, <1>4, <1>5
<1>8. Sum(F, r \ {c}) = F[y] + Sum(F, rest)
    BY <1>6, <1>7
<1>9. rest = (r \ {y}) \ {c}
    OBVIOUS
<1>10. Sum(F, r \ {y}) = F[c] + Sum(F, rest)
    BY <1>6, <1>7, <1>9
<1>11. F[c] \in Int /\ F[y] \in Int
    BY <1>2, <1>3, <1>4 DEF Numbers
<1>12. Sum(F, rest) \in Int
    BY <1>2, FS_Subset, SumType DEF Numbers
<1> QED
    BY <1>3, <1>4, <1>8, <1>10, <1>11, <1>12

\* Only the values count.
LEMMA SumSame ==
    ASSUME NEW F, NEW G, NEW S, IsFiniteSet(S), \A x \in S : F[x] = G[x]
    PROVE  Sum(F, S) = Sum(G, S)
<1> DEFINE bad == {r \in SUBSET S : Sum(F, r) # Sum(G, r)}
<1>1. SUFFICES ASSUME bad # {} PROVE FALSE
    OBVIOUS
<1>0. bad \in SUBSET (SUBSET S)
    OBVIOUS
<1> HIDE DEF bad
<1>2. PICK r \in bad : \A t \in bad : t \subseteq r => t = r
    BY <1>0, <1>1, LeastSet
<1> USE DEF bad
<1>3. IsFiniteSet(r) /\ r # {}
    <2>1. r \in SUBSET S
        BY <1>2
    <2>2. r # {}
        BY <1>2, SumEmpty
    <2> QED
        BY <2>1, <2>2, FS_Subset
<1>4. Pick(r) \in r /\ Without(r) \in SUBSET S /\ Without(r) # r /\ Without(r) \subseteq r
    BY <1>2, <1>3, PickIsMember DEF Without
<1>5. Sum(F, Without(r)) = Sum(G, Without(r)) /\ F[Pick(r)] = G[Pick(r)]
    BY <1>2, <1>4
<1> QED
    BY <1>2, <1>3, <1>5, SumPick

\* Members that count nothing may be left out.
LEMMA SumZero ==
    ASSUME NEW F, NEW S, IsFiniteSet(S), NEW T \in SUBSET S, Numbers(F, S),
           \A x \in S \ T : F[x] = 0
    PROVE  Sum(F, S) = Sum(F, T)
<1> DEFINE bad == {r \in SUBSET S : T \subseteq r /\ Sum(F, r) # Sum(F, T)}
<1>1. SUFFICES ASSUME bad # {} PROVE FALSE
    OBVIOUS
<1>0. bad \in SUBSET (SUBSET S)
    OBVIOUS
<1> HIDE DEF bad
<1>2. PICK r \in bad : \A t \in bad : t \subseteq r => t = r
    BY <1>0, <1>1, LeastSet
<1> USE DEF bad
<1>3. r # T /\ r \in SUBSET S /\ T \subseteq r
    BY <1>2
<1>4. PICK x \in r : x \notin T
    BY <1>3
<1>5. Sum(F, r \ {x}) = Sum(F, T)
    BY <1>2, <1>3, <1>4
<1>6. IsFiniteSet(r) /\ Numbers(F, r) /\ F[x] = 0
    BY <1>3, <1>4, FS_Subset DEF Numbers
<1>7. Sum(F, r) = 0 + Sum(F, r \ {x})
    BY <1>6, SumRemove
<1>8. Sum(F, T) \in Int
    BY FS_Subset, SumType DEF Numbers
<1> QED
    BY <1>2, <1>5, <1>7, <1>8

\* Sums over the same members add up.
LEMMA SumPlus ==
    ASSUME NEW F, NEW G, NEW H, NEW S, IsFiniteSet(S), Numbers(F, S), Numbers(G, S),
           \A x \in S : H[x] = F[x] + G[x]
    PROVE  Sum(H, S) = Sum(F, S) + Sum(G, S)
<1> DEFINE bad == {r \in SUBSET S : Sum(H, r) # Sum(F, r) + Sum(G, r)}
<1>1. SUFFICES ASSUME bad # {} PROVE FALSE
    OBVIOUS
<1>0. bad \in SUBSET (SUBSET S)
    OBVIOUS
<1> HIDE DEF bad
<1>2. PICK r \in bad : \A t \in bad : t \subseteq r => t = r
    BY <1>0, <1>1, LeastSet
<1> USE DEF bad
<1> DEFINE x == Pick(r)
           rest == Without(r)
<1>3. r \in SUBSET S /\ IsFiniteSet(r)
    BY <1>2, FS_Subset
<1>4. r # {}
    <2>1. Sum(H, {}) = Sum(F, {}) + Sum(G, {})
        BY SumEmpty
    <2>2. Sum(H, r) # Sum(F, r) + Sum(G, r)
        BY <1>2
    <2> QED
        BY <2>1, <2>2
<1>5. x \in S /\ rest \in SUBSET S /\ rest # r /\ rest \subseteq r
    BY <1>3, <1>4, PickIsMember DEF Without
<1>6. Sum(H, rest) = Sum(F, rest) + Sum(G, rest)
    BY <1>2, <1>5
<1>7. Sum(F, rest) \in Int /\ Sum(G, rest) \in Int
    BY <1>5, FS_Subset, SumType DEF Numbers
<1>8. /\ Sum(H, r) = H[x] + Sum(H, rest)
      /\ Sum(F, r) = F[x] + Sum(F, rest)
      /\ Sum(G, r) = G[x] + Sum(G, rest)
    BY <1>3, <1>4, SumPick
<1>9. F[x] \in Int /\ G[x] \in Int /\ H[x] = F[x] + G[x]
    BY <1>5 DEF Numbers
<1> HIDE DEF x, rest
<1> QED
    BY <1>2, <1>6, <1>7, <1>8, <1>9

\* Two sets with no member in common are added up one after the other.
LEMMA SumUnion ==
    ASSUME NEW F, NEW S, NEW T, IsFiniteSet(S), IsFiniteSet(T), S \cap T = {},
           Numbers(F, S), Numbers(F, T)
    PROVE  Sum(F, S \cup T) = Sum(F, S) + Sum(F, T)
<1> DEFINE U == S \cup T
           onS == [x \in U |-> IF x \in S THEN F[x] ELSE 0]
           onT == [x \in U |-> IF x \in T THEN F[x] ELSE 0]
<1>1. IsFiniteSet(U) /\ S \in SUBSET U /\ T \in SUBSET U
    BY FS_Union
<1>2. Numbers(onS, U) /\ Numbers(onT, U) /\ \A x \in U : F[x] = onS[x] + onT[x]
    BY DEF Numbers
<1>3. (\A x \in U \ S : onS[x] = 0) /\ (\A x \in U \ T : onT[x] = 0)
    OBVIOUS
<1>4. (\A x \in S : onS[x] = F[x]) /\ (\A x \in T : onT[x] = F[x])
    OBVIOUS
<1> HIDE DEF U, onS, onT
<1>5. Sum(onS, U) = Sum(onS, S) /\ Sum(onT, U) = Sum(onT, T)
    BY <1>1, <1>2, <1>3, SumZero
<1>6. Sum(onS, S) = Sum(F, S) /\ Sum(onT, T) = Sum(F, T)
    BY <1>4, SumSame
<1>7. Sum(F, U) = Sum(onS, U) + Sum(onT, U)
    BY <1>1, <1>2, SumPlus
<1> QED
    BY <1>5, <1>6, <1>7 DEF U

\* A sum of natural numbers is one.
LEMMA SumNat ==
    ASSUME NEW F, NEW S, IsFiniteSet(S), \A x \in S : F[x] \in Nat
    PROVE  Sum(F, S) \in Nat
<1> DEFINE bad == {r \in SUBSET S : Sum(F, r) \notin Nat}
<1>1. SUFFICES ASSUME bad # {} PROVE FALSE
    OBVIOUS
<1>0. bad \in SUBSET (SUBSET S)
    OBVIOUS
<1> HIDE DEF bad
<1>2. PICK r \in bad : \A t \in bad : t \subseteq r => t = r
    BY <1>0, <1>1, LeastSet
<1> USE DEF bad
<1>3. r \in SUBSET S /\ IsFiniteSet(r)
    BY <1>2, FS_Subset
<1>4. r # {}
    <2>1. Sum(F, {}) \in Nat /\ Sum(F, r) \notin Nat
        BY <1>2, SumEmpty
    <2> QED
        BY <2>1
<1>5. Pick(r) \in r /\ Without(r) \in SUBSET S /\ Without(r) # r /\ Without(r) \subseteq r
    BY <1>3, <1>4, PickIsMember DEF Without
<1>6. Sum(F, Without(r)) \in Nat /\ F[Pick(r)] \in Nat
    BY <1>2, <1>3, <1>5
<1> QED
    BY <1>2, <1>3, <1>4, <1>6, SumPick

\* One value changes.
LEMMA SumChange ==
    ASSUME NEW F, NEW G, NEW S, IsFiniteSet(S), NEW x \in S, Numbers(F, S), Numbers(G, S),
           \A y \in S \ {x} : G[y] = F[y]
    PROVE  Sum(G, S) = Sum(F, S) - F[x] + G[x]
<1>1. IsFiniteSet(S \ {x})
    BY FS_RemoveElement
<1>2. Sum(G, S \ {x}) = Sum(F, S \ {x})
    BY <1>1, SumSame
<1>3. Sum(F, S \ {x}) \in Int /\ F[x] \in Int /\ G[x] \in Int
    BY <1>1, SumType DEF Numbers
<1>4. Sum(F, S) = F[x] + Sum(F, S \ {x}) /\ Sum(G, S) = G[x] + Sum(G, S \ {x})
    BY SumRemove
<1> QED
    BY <1>2, <1>3, <1>4

\* The members of T stop counting.
LEMMA SumDrop ==
    ASSUME NEW F, NEW G, NEW S, IsFiniteSet(S), NEW T \in SUBSET S, Numbers(F, S),
           \A x \in S : G[x] = IF x \in T THEN 0 ELSE F[x]
    PROVE  Sum(F, S) = Sum(F, T) + Sum(G, S)
<1> DEFINE R == S \ T
<1>1. IsFiniteSet(T) /\ IsFiniteSet(R) /\ R \in SUBSET S /\ T \cap R = {} /\ T \cup R = S
    BY FS_Subset
<1>2. Numbers(F, T) /\ Numbers(F, R) /\ Numbers(G, S)
    BY DEF Numbers
<1>3. (\A x \in S \ R : G[x] = 0) /\ \A x \in R : G[x] = F[x]
    OBVIOUS
<1> HIDE DEF R
<1>4. Sum(F, T \cup R) = Sum(F, T) + Sum(F, R)
    BY <1>1, <1>2, SumUnion
<1>5. Sum(G, S) = Sum(G, R)
    BY <1>1, <1>2, <1>3, SumZero
<1>6. Sum(G, R) = Sum(F, R)
    BY <1>1, <1>3, SumSame
<1> QED
    BY <1>1, <1>4, <1>5, <1>6

\* The sum of a function is over its domain.
LEMMA SumOfFunction ==
    ASSUME NEW f
    PROVE  SumFunction(f) = Sum(f, DOMAIN f)
BY DEF SumFunction, Sum
=============================================================================
