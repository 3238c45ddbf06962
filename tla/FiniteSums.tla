----------------------------- MODULE FiniteSums -----------------------------
(***************************************************************************)
(* Facts about SumFunction and SumFunctionOnSet of module Functions, for   *)
(* the balances, deposits and rewards that the programs add up.  They are  *)
(* proved by minimal counterexample: a set of finite sets that is not      *)
(* empty has a member none of whose proper subsets is in it.               *)
(***************************************************************************)
EXTENDS FiniteSetTheorems, TLAPS

Pick(S) == CHOOSE x \in S : TRUE

\* g[s] is the sum of f over s, for every subset s of S.
IsSum(g, f, S) ==
  g = [s \in SUBSET S |->
         IF s = {} THEN 0 ELSE f[Pick(s)] + g[s \ {Pick(s)}]]

LEMMA PickIsElement == \A S : S # {} => Pick(S) \in S
BY DEF Pick

\* A property that fails for a subset of a finite set fails for one all of
\* whose proper subsets have it.
LEMMA SmallestFailure ==
  ASSUME NEW S, IsFiniteSet(S), NEW Bad, Bad \subseteq SUBSET S, Bad # {}
  PROVE  \E U \in Bad : \A V \in SUBSET U : V # U => V \notin Bad
<1>1. IsWellFoundedOn(StrictSubsetOrdering(S), SUBSET S)
  BY FS_StrictSubsetOrderingWellFounded, FS_FiniteSubsetsOfFinite
<1>2. PICK U \in Bad : \A V \in Bad : <<V, U>> \notin StrictSubsetOrdering(S)
  BY <1>1, WFMin
<1>3. ASSUME NEW V \in SUBSET U, V # U PROVE V \notin Bad
  BY <1>2, <1>3 DEF StrictSubsetOrdering
<1>. QED  BY <1>3

-----------------------------------------------------------------------------
(* The recursive definition of the sum has a solution *)

LEMMA SumIsChosen ==
  ASSUME NEW f, NEW S
  PROVE  SumFunctionOnSet(f, S) = (CHOOSE g : IsSum(g, f, S))[S]
BY DEF SumFunctionOnSet, FoldFunctionOnSet, MapThenFoldSet, IsSum, Pick

LEMMA IsSumAt ==
  ASSUME NEW g, NEW f, NEW S, IsSum(g, f, S), NEW s \in SUBSET S
  PROVE  g[s] = IF s = {} THEN 0 ELSE f[Pick(s)] + g[s \ {Pick(s)}]
BY DEF IsSum

\* Two solutions agree where both are defined.
LEMMA SumIsUnique ==
  ASSUME NEW f, NEW S, IsFiniteSet(S), NEW T, S \subseteq T,
         NEW g, IsSum(g, f, S), NEW h, IsSum(h, f, T)
  PROVE  \A s \in SUBSET S : g[s] = h[s]
<1>. DEFINE Bad == {s \in SUBSET S : g[s] # h[s]}
<1>. SUFFICES ASSUME Bad # {} PROVE FALSE
  OBVIOUS
<1>1. PICK U \in Bad : \A V \in SUBSET U : V # U => V \notin Bad
  <2>1. Bad \subseteq SUBSET S
    OBVIOUS
  <2>. HIDE DEF Bad
  <2>. QED  BY <2>1, SmallestFailure
<1>2. U # {}
  BY IsSumAt
<1>3. Pick(U) \in U
  BY <1>2, PickIsElement
<1>4. g[U \ {Pick(U)}] = h[U \ {Pick(U)}]
  BY <1>1, <1>3
<1>. QED  BY <1>1, <1>2, <1>4, IsSumAt

LEMMA SumExists ==
  ASSUME NEW f, NEW S, IsFiniteSet(S)
  PROVE  \E g : IsSum(g, f, S)
<1>. DEFINE Bad == {s \in SUBSET S : ~ \E g : IsSum(g, f, s)}
            Val(s) == (CHOOSE g : IsSum(g, f, s))[s]
<1>. SUFFICES ASSUME Bad # {} PROVE FALSE
  OBVIOUS
<1>1. PICK U \in Bad : \A V \in SUBSET U : V # U => V \notin Bad
  <2>1. Bad \subseteq SUBSET S
    OBVIOUS
  <2>. HIDE DEF Bad
  <2>. QED  BY <2>1, SmallestFailure
<1>. DEFINE G == [s \in SUBSET U |->
                    IF s = {} THEN 0 ELSE f[Pick(s)] + Val(s \ {Pick(s)})]
<1>2. ASSUME NEW V \in SUBSET U, V # U
      PROVE  G[V] = Val(V)
  <2>. DEFINE h == CHOOSE g : IsSum(g, f, V)
  <2>1. IsSum(h, f, V)
    BY <1>1, <1>2
  <2>2. CASE V = {}
    BY <2>1, <2>2, IsSumAt
  <2>3. CASE V # {}
    <3>. DEFINE W == V \ {Pick(V)}
                k == CHOOSE g : IsSum(g, f, W)
    <3>1. Pick(V) \in V /\ W \in SUBSET V /\ W # U /\ W \in SUBSET U
      BY <2>3, <1>2, PickIsElement
    <3>2. IsSum(k, f, W)
      BY <3>1, <1>1
    <3>3. IsFiniteSet(W)
      BY <3>1, <1>1, FS_Subset
    <3>4. k[W] = h[W]
      BY <3>1, <3>2, <3>3, <2>1, SumIsUnique
    <3>5. h[V] = f[Pick(V)] + h[W]
      BY <2>1, <2>3, IsSumAt
    <3>. QED  BY <3>4, <3>5, <2>3, <1>2
  <2>. QED  BY <2>2, <2>3
<1>3. ASSUME NEW s \in SUBSET U, s # {}
      PROVE  G[s] = f[Pick(s)] + G[s \ {Pick(s)}]
  <2>1. /\ s \ {Pick(s)} \in SUBSET U
        /\ s \ {Pick(s)} # U
    BY <1>3, PickIsElement
  <2>. QED  BY <2>1, <1>2, <1>3
<1>4. IsSum(G, f, U)
  <2>. HIDE DEF Val
  <2>1. \A s \in SUBSET U : G[s] = IF s = {} THEN 0 ELSE f[Pick(s)] + G[s \ {Pick(s)}]
    BY <1>3
  <2>2. G = [s \in SUBSET U |-> G[s]]
    OBVIOUS
  <2>. HIDE DEF G
  <2>. QED  BY <2>1, <2>2 DEF IsSum
<1>. QED  BY <1>1, <1>4

LEMMA SumEmpty == ASSUME NEW f PROVE SumFunctionOnSet(f, {}) = 0
<1>1. IsSum(CHOOSE g : IsSum(g, f, {}), f, {})
  BY SumExists, FS_EmptySet
<1>. QED  BY <1>1, IsSumAt, SumIsChosen

\* The definition unfolded once.
LEMMA SumUnfolds ==
  ASSUME NEW f, NEW S, IsFiniteSet(S), S # {}
  PROVE  /\ Pick(S) \in S
         /\ SumFunctionOnSet(f, S)
              = f[Pick(S)] + SumFunctionOnSet(f, S \ {Pick(S)})
<1>. DEFINE W == S \ {Pick(S)}
            g == CHOOSE p : IsSum(p, f, S)
            h == CHOOSE p : IsSum(p, f, W)
<1>1. Pick(S) \in S /\ IsFiniteSet(W)
  BY PickIsElement, FS_Subset
<1>2. IsSum(g, f, S)
  BY SumExists
<1>3. IsSum(h, f, W)
  BY <1>1, SumExists
<1>4. h[W] = g[W]
  <2>1. W \subseteq S
    OBVIOUS
  <2>. HIDE DEF W, g, h
  <2>. QED  BY <1>1, <1>2, <1>3, <2>1, SumIsUnique
<1>5. g[S] = f[Pick(S)] + g[W]
  BY <1>2, IsSumAt
<1>6. SumFunctionOnSet(f, S) = g[S] /\ SumFunctionOnSet(f, W) = h[W]
  BY SumIsChosen
<1>. QED  BY <1>1, <1>4, <1>5, <1>6
-----------------------------------------------------------------------------
(* What a sum is *)

\* A sum of elements of a set closed under addition is in that set.
LEMMA SumIsIn ==
  ASSUME NEW Values, 0 \in Values, \A a, b \in Values : a + b \in Values,
         NEW S, IsFiniteSet(S), NEW f, \A x \in S : f[x] \in Values
  PROVE  SumFunctionOnSet(f, S) \in Values
<1>. DEFINE Bad == {s \in SUBSET S : SumFunctionOnSet(f, s) \notin Values}
<1>. SUFFICES ASSUME Bad # {} PROVE FALSE
  OBVIOUS
<1>1. PICK U \in Bad : \A V \in SUBSET U : V # U => V \notin Bad
  <2>1. Bad \subseteq SUBSET S
    OBVIOUS
  <2>. HIDE DEF Bad
  <2>. QED  BY <2>1, SmallestFailure
<1>2. U # {} /\ IsFiniteSet(U) /\ U \subseteq S
  BY SumEmpty, FS_Subset
<1>3. /\ Pick(U) \in U
      /\ SumFunctionOnSet(f, U)
           = f[Pick(U)] + SumFunctionOnSet(f, U \ {Pick(U)})
  BY <1>2, SumUnfolds
<1>4. SumFunctionOnSet(f, U \ {Pick(U)}) \in Values
  BY <1>1, <1>2, <1>3
<1>. QED  BY <1>1, <1>2, <1>3, <1>4

LEMMA SumIsInt ==
  ASSUME NEW S, IsFiniteSet(S), NEW f, \A x \in S : f[x] \in Int
  PROVE  SumFunctionOnSet(f, S) \in Int
<1>1. 0 \in Int /\ \A a, b \in Int : a + b \in Int
  OBVIOUS
<1>. QED  BY <1>1, SumIsIn

LEMMA SumIsNat ==
  ASSUME NEW S, IsFiniteSet(S), NEW f, \A x \in S : f[x] \in Nat
  PROVE  SumFunctionOnSet(f, S) \in Nat
<1>1. 0 \in Nat /\ \A a, b \in Nat : a + b \in Nat
  OBVIOUS
<1>. QED  BY <1>1, SumIsIn

\* Functions that agree on a set have the same sum over it.
LEMMA SumOfSame ==
  ASSUME NEW S, IsFiniteSet(S), NEW f, NEW g, \A x \in S : f[x] = g[x]
  PROVE  SumFunctionOnSet(f, S) = SumFunctionOnSet(g, S)
<1>. DEFINE Bad == {s \in SUBSET S :
                      SumFunctionOnSet(f, s) # SumFunctionOnSet(g, s)}
<1>. SUFFICES ASSUME Bad # {} PROVE FALSE
  OBVIOUS
<1>1. PICK U \in Bad : \A V \in SUBSET U : V # U => V \notin Bad
  <2>1. Bad \subseteq SUBSET S
    OBVIOUS
  <2>. HIDE DEF Bad
  <2>. QED  BY <2>1, SmallestFailure
<1>2. U # {} /\ IsFiniteSet(U) /\ U \subseteq S
  BY SumEmpty, FS_Subset
<1>. DEFINE W == U \ {Pick(U)}
<1>3. /\ Pick(U) \in U
      /\ SumFunctionOnSet(f, U) = f[Pick(U)] + SumFunctionOnSet(f, W)
      /\ SumFunctionOnSet(g, U) = g[Pick(U)] + SumFunctionOnSet(g, W)
  BY <1>2, SumUnfolds
<1>4. SumFunctionOnSet(f, W) = SumFunctionOnSet(g, W)
  BY <1>1, <1>2, <1>3
<1>. HIDE DEF W
<1>. QED  BY <1>1, <1>2, <1>3, <1>4

\* The sum taken apart at any element, not only the one the definition picks.
LEMMA SumTakesOut ==
  ASSUME NEW S, IsFiniteSet(S), NEW f, \A y \in S : f[y] \in Int, NEW x \in S
  PROVE  SumFunctionOnSet(f, S) = f[x] + SumFunctionOnSet(f, S \ {x})
<1>. DEFINE Bad == {s \in SUBSET S :
                      \E y \in s : SumFunctionOnSet(f, s)
                                     # f[y] + SumFunctionOnSet(f, s \ {y})}
<1>. SUFFICES ASSUME Bad # {} PROVE FALSE
  OBVIOUS
<1>1. PICK U \in Bad : \A V \in SUBSET U : V # U => V \notin Bad
  <2>1. Bad \subseteq SUBSET S
    OBVIOUS
  <2>. HIDE DEF Bad
  <2>. QED  BY <2>1, SmallestFailure
<1>2. PICK y \in U :
        SumFunctionOnSet(f, U) # f[y] + SumFunctionOnSet(f, U \ {y})
  BY <1>1
<1>3. U # {} /\ IsFiniteSet(U) /\ U \subseteq S
  BY <1>2, FS_Subset
<1>. DEFINE c == Pick(U)
            W == U \ {c}
            R == W \ {y}
<1>4. c \in U /\ SumFunctionOnSet(f, U) = f[c] + SumFunctionOnSet(f, W)
  BY <1>3, SumUnfolds
<1>5. c # y
  BY <1>2, <1>4
<1>6. SumFunctionOnSet(f, W) = f[y] + SumFunctionOnSet(f, R)
  BY <1>1, <1>3, <1>4, <1>5
<1>7. SumFunctionOnSet(f, U \ {y}) = f[c] + SumFunctionOnSet(f, R)
  <2>1. U \ {y} \in SUBSET U /\ U \ {y} # U /\ c \in U \ {y}
    BY <1>2, <1>4, <1>5
  <2>2. U \ {y} \in SUBSET S
    BY <2>1, <1>3
  <2>3. SumFunctionOnSet(f, U \ {y})
          = f[c] + SumFunctionOnSet(f, (U \ {y}) \ {c})
    BY <2>1, <2>2, <1>1
  <2>4. (U \ {y}) \ {c} = R
    OBVIOUS
  <2>. QED  BY <2>3, <2>4
<1>8. SumFunctionOnSet(f, R) \in Int /\ f[c] \in Int /\ f[y] \in Int
  <2>1. R \in SUBSET S /\ IsFiniteSet(R)
    BY <1>3, FS_Subset
  <2>. QED  BY <2>1, <1>2, <1>3, <1>4, SumIsInt
<1>. HIDE DEF c, W, R
<1>. QED  BY <1>2, <1>4, <1>6, <1>7, <1>8

-----------------------------------------------------------------------------
(* Changing, comparing and combining sums *)

\* One value changes, the sum changes by as much.
LEMMA SumChanges ==
  ASSUME NEW S, IsFiniteSet(S), NEW f, NEW g, NEW x \in S,
         \A y \in S : f[y] \in Int, g[x] \in Int,
         \A y \in S \ {x} : g[y] = f[y]
  PROVE  SumFunctionOnSet(g, S) = SumFunctionOnSet(f, S) - f[x] + g[x]
<1>1. IsFiniteSet(S \ {x})
  BY FS_Subset
<1>2. SumFunctionOnSet(f, S \ {x}) = SumFunctionOnSet(g, S \ {x})
  BY <1>1, SumOfSame
<1>3. \A y \in S : g[y] \in Int
  OBVIOUS
<1>4. /\ SumFunctionOnSet(f, S) = f[x] + SumFunctionOnSet(f, S \ {x})
      /\ SumFunctionOnSet(g, S) = g[x] + SumFunctionOnSet(g, S \ {x})
  BY <1>3, SumTakesOut
<1>5. SumFunctionOnSet(f, S \ {x}) \in Int
  BY <1>1, SumIsInt
<1>. QED  BY <1>2, <1>4, <1>5

\* No value is larger than a sum of naturals it is part of.
LEMMA SumBounds ==
  ASSUME NEW S, IsFiniteSet(S), NEW f, \A y \in S : f[y] \in Nat, NEW x \in S
  PROVE  f[x] <= SumFunctionOnSet(f, S)
<1>1. SumFunctionOnSet(f, S) = f[x] + SumFunctionOnSet(f, S \ {x})
  BY SumTakesOut
<1>2. SumFunctionOnSet(f, S \ {x}) \in Nat
  BY FS_Subset, SumIsNat
<1>. QED  BY <1>1, <1>2

LEMMA SumIsAtMost ==
  ASSUME NEW S, IsFiniteSet(S), NEW f, NEW g,
         \A x \in S : f[x] \in Int /\ g[x] \in Int /\ f[x] <= g[x]
  PROVE  SumFunctionOnSet(f, S) <= SumFunctionOnSet(g, S)
<1>. DEFINE Bad == {s \in SUBSET S :
                      ~ SumFunctionOnSet(f, s) <= SumFunctionOnSet(g, s)}
<1>. SUFFICES ASSUME Bad # {} PROVE FALSE
  OBVIOUS
<1>1. PICK U \in Bad : \A V \in SUBSET U : V # U => V \notin Bad
  <2>1. Bad \subseteq SUBSET S
    OBVIOUS
  <2>. HIDE DEF Bad
  <2>. QED  BY <2>1, SmallestFailure
<1>2. U # {} /\ IsFiniteSet(U) /\ U \subseteq S
  <2>1. SumFunctionOnSet(f, {}) <= SumFunctionOnSet(g, {})
    BY SumEmpty
  <2>2. U # {}
    BY <2>1, <1>1
  <2>. QED  BY <2>2, FS_Subset
<1>. DEFINE W == U \ {Pick(U)}
<1>3. /\ Pick(U) \in U
      /\ SumFunctionOnSet(f, U) = f[Pick(U)] + SumFunctionOnSet(f, W)
      /\ SumFunctionOnSet(g, U) = g[Pick(U)] + SumFunctionOnSet(g, W)
  BY <1>2, SumUnfolds
<1>4. SumFunctionOnSet(f, W) <= SumFunctionOnSet(g, W)
  BY <1>1, <1>2, <1>3
<1>5. SumFunctionOnSet(f, W) \in Int /\ SumFunctionOnSet(g, W) \in Int
  <2>1. W \in SUBSET S /\ IsFiniteSet(W)
    BY <1>2, FS_Subset
  <2>. QED  BY <2>1, SumIsInt
<1>. HIDE DEF W
<1>. QED  BY <1>1, <1>2, <1>3, <1>4, <1>5

LEMMA SumsAdd ==
  ASSUME NEW S, IsFiniteSet(S), NEW f, NEW g, NEW h,
         \A x \in S : f[x] \in Int /\ g[x] \in Int /\ h[x] = f[x] + g[x]
  PROVE  SumFunctionOnSet(h, S)
           = SumFunctionOnSet(f, S) + SumFunctionOnSet(g, S)
<1>. DEFINE Bad == {s \in SUBSET S :
                      SumFunctionOnSet(h, s)
                        # SumFunctionOnSet(f, s) + SumFunctionOnSet(g, s)}
<1>. SUFFICES ASSUME Bad # {} PROVE FALSE
  OBVIOUS
<1>1. PICK U \in Bad : \A V \in SUBSET U : V # U => V \notin Bad
  <2>1. Bad \subseteq SUBSET S
    OBVIOUS
  <2>. HIDE DEF Bad
  <2>. QED  BY <2>1, SmallestFailure
<1>2. U # {} /\ IsFiniteSet(U) /\ U \subseteq S
  <2>1. SumFunctionOnSet(h, {})
          = SumFunctionOnSet(f, {}) + SumFunctionOnSet(g, {})
    BY SumEmpty
  <2>2. U # {}
    BY <2>1, <1>1
  <2>. QED  BY <2>2, FS_Subset
<1>. DEFINE W == U \ {Pick(U)}
<1>3. /\ Pick(U) \in U
      /\ SumFunctionOnSet(f, U) = f[Pick(U)] + SumFunctionOnSet(f, W)
      /\ SumFunctionOnSet(g, U) = g[Pick(U)] + SumFunctionOnSet(g, W)
      /\ SumFunctionOnSet(h, U) = h[Pick(U)] + SumFunctionOnSet(h, W)
  BY <1>2, SumUnfolds
<1>4. SumFunctionOnSet(h, W)
        = SumFunctionOnSet(f, W) + SumFunctionOnSet(g, W)
  BY <1>1, <1>2, <1>3
<1>5. SumFunctionOnSet(f, W) \in Int /\ SumFunctionOnSet(g, W) \in Int
  <2>1. W \in SUBSET S /\ IsFiniteSet(W)
    BY <1>2, FS_Subset
  <2>. QED  BY <2>1, SumIsInt
<1>. HIDE DEF W
<1>. QED  BY <1>1, <1>2, <1>3, <1>4, <1>5

LEMMA SumScales ==
  ASSUME NEW S, IsFiniteSet(S), NEW c \in Int, NEW f, NEW g,
         \A x \in S : f[x] \in Int /\ g[x] = c * f[x]
  PROVE  SumFunctionOnSet(g, S) = c * SumFunctionOnSet(f, S)
<1>. DEFINE Bad == {s \in SUBSET S :
                      SumFunctionOnSet(g, s) # c * SumFunctionOnSet(f, s)}
<1>. SUFFICES ASSUME Bad # {} PROVE FALSE
  OBVIOUS
<1>1. PICK U \in Bad : \A V \in SUBSET U : V # U => V \notin Bad
  <2>1. Bad \subseteq SUBSET S
    OBVIOUS
  <2>. HIDE DEF Bad
  <2>. QED  BY <2>1, SmallestFailure
<1>2. U # {} /\ IsFiniteSet(U) /\ U \subseteq S
  <2>1. SumFunctionOnSet(g, {}) = c * SumFunctionOnSet(f, {})
    BY SumEmpty
  <2>2. U # {}
    BY <2>1, <1>1
  <2>. QED  BY <2>2, FS_Subset
<1>. DEFINE W == U \ {Pick(U)}
<1>3. /\ Pick(U) \in U
      /\ SumFunctionOnSet(f, U) = f[Pick(U)] + SumFunctionOnSet(f, W)
      /\ SumFunctionOnSet(g, U) = g[Pick(U)] + SumFunctionOnSet(g, W)
  BY <1>2, SumUnfolds
<1>4. SumFunctionOnSet(g, W) = c * SumFunctionOnSet(f, W)
  BY <1>1, <1>2, <1>3
<1>5. SumFunctionOnSet(f, W) \in Int
  <2>1. W \in SUBSET S /\ IsFiniteSet(W)
    BY <1>2, FS_Subset
  <2>. QED  BY <2>1, SumIsInt
<1>6. f[Pick(U)] \in Int /\ g[Pick(U)] = c * f[Pick(U)]
  BY <1>2, <1>3
<1>7. \A a, b \in Int : c * a + c * b = c * (a + b)
  OBVIOUS
<1>. HIDE DEF W
<1>. QED  BY <1>1, <1>3, <1>4, <1>5, <1>6, <1>7

\* Zeros do not count.
LEMMA SumIgnoresZeros ==
  ASSUME NEW T, IsFiniteSet(T), NEW S, S \subseteq T, NEW f,
         \A x \in T : f[x] \in Int, \A x \in T \ S : f[x] = 0
  PROVE  SumFunctionOnSet(f, T) = SumFunctionOnSet(f, S)
<1>. DEFINE Bad == {d \in SUBSET (T \ S) :
                      SumFunctionOnSet(f, S \cup d) # SumFunctionOnSet(f, S)}
<1>1. ASSUME Bad # {} PROVE FALSE
  <2>1. PICK U \in Bad : \A V \in SUBSET U : V # U => V \notin Bad
    <3>1. Bad \subseteq SUBSET (T \ S) /\ IsFiniteSet(T \ S)
      BY FS_Subset
    <3>. HIDE DEF Bad
    <3>. QED  BY <3>1, <1>1, SmallestFailure
  <2>2. U # {}
    <3>1. S \cup {} = S
      OBVIOUS
    <3>. QED  BY <3>1, <2>1
  <2>3. PICK x \in U : TRUE
    BY <2>2
  <2>4. /\ S \cup U \in SUBSET T /\ IsFiniteSet(S \cup U) /\ x \in S \cup U
        /\ (S \cup U) \ {x} = S \cup (U \ {x})
        /\ U \ {x} # U
    BY <2>1, <2>3, FS_Subset
  <2>5. SumFunctionOnSet(f, S \cup U)
          = f[x] + SumFunctionOnSet(f, S \cup (U \ {x}))
    <3>1. SumFunctionOnSet(f, S \cup U)
            = f[x] + SumFunctionOnSet(f, (S \cup U) \ {x})
      BY <2>4, SumTakesOut
    <3>. QED  BY <3>1, <2>4
  <2>6. SumFunctionOnSet(f, S \cup (U \ {x})) = SumFunctionOnSet(f, S)
    BY <2>1, <2>4
  <2>7. SumFunctionOnSet(f, S) \in Int /\ f[x] = 0
    BY <2>1, <2>3, FS_Subset, SumIsInt
  <2>. QED  BY <2>1, <2>5, <2>6, <2>7
<1>2. T \ S \notin Bad /\ S \cup (T \ S) = T
  BY <1>1
<1>. QED  BY <1>2
=============================================================================
