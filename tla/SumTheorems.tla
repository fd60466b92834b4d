------------------------------ MODULE SumTheorems ------------------------------
(***************************************************************************)
(* Sums of a function over a finite set, as SumFunctionOnSet of Functions  *)
(* computes them: by choosing one element at a time, in an order nobody    *)
(* knows.  The theorems say that the order does not matter.  They are used *)
(* for the wallet's ledger (CheckoutProofs) and for the quotas that were   *)
(* paid for (FulfillmentProofs).                                           *)
(*                                                                         *)
(* Every induction is over the subsets of one finite set: a nonempty set   *)
(* of counterexamples would have a smallest one.                           *)
(***************************************************************************)
EXTENDS Naturals, FiniteSets, Functions, FiniteSetTheorems, TLAPS

\* Among subsets of a finite set, one holds no other.
LEMMA MinimalSet ==
  ASSUME NEW S, IsFiniteSet(S), NEW F \in SUBSET SUBSET S, F # {}
  PROVE  \E T \in F : \A U \in F : U \subseteq T => U = T
<1>. DEFINE R == StrictSubsetOrdering(S)
<1>1. IsWellFoundedOn(R, SUBSET S)
  BY FS_StrictSubsetOrderingWellFounded, FS_FiniteSubsetsOfFinite
<1>. HIDE DEF R
<1>2. \E T \in F : \A U \in F : ~ (<<U, T>> \in R)
  BY <1>1, WFMin
<1>. QED
  BY <1>2 DEF R, StrictSubsetOrdering

-----------------------------------------------------------------------------
(* The function by which a sum is defined *)

Pick(s) == CHOOSE x \in s : TRUE
Recurs(g, w, S) ==
    g = [s \in SUBSET S |-> IF s = {} THEN 0 ELSE w[Pick(s)] + g[s \ {Pick(s)}]]

LEMMA PickIn == ASSUME NEW s, s # {} PROVE Pick(s) \in s
  BY DEF Pick

LEMMA RecursUnfold ==
  ASSUME NEW g, NEW w, NEW S, Recurs(g, w, S), NEW s \in SUBSET S
  PROVE  /\ s = {} => g[s] = 0
         /\ s # {} => g[s] = w[Pick(s)] + g[s \ {Pick(s)}]
  BY DEF Recurs

\* It gives a set one value, whichever larger set it is defined for.
LEMMA RecursUnique ==
  ASSUME NEW w, NEW S, IsFiniteSet(S),
         NEW g, NEW T, NEW h, NEW U, Recurs(g, w, T), Recurs(h, w, U),
         S \subseteq T, S \subseteq U
  PROVE  g[S] = h[S]
<1>. DEFINE Bad == {s \in SUBSET S : g[s] # h[s]}
<1>. SUFFICES ASSUME Bad # {} PROVE FALSE
  OBVIOUS
<1>1. Bad \in SUBSET SUBSET S /\ Bad # {}
  OBVIOUS
<1>. HIDE DEF Bad
<1>2. PICK s \in Bad : \A u \in Bad : u \subseteq s => u = s
  BY <1>1, MinimalSet
<1>3. s \in SUBSET T /\ s \in SUBSET U /\ g[s] # h[s]
  BY <1>2 DEF Bad
<1>4. CASE s = {}
  <2>1. g[s] = 0 /\ h[s] = 0
    BY <1>3, <1>4, RecursUnfold
  <2>. QED
    BY <1>3, <2>1
<1>5. CASE s # {}
  <2>1. Pick(s) \in s
    BY <1>5, PickIn
  <2>2. g[s \ {Pick(s)}] = h[s \ {Pick(s)}]
    BY <1>1, <1>2, <2>1 DEF Bad
  <2>3. g[s] = w[Pick(s)] + g[s \ {Pick(s)}]
    BY <1>3, <1>5, RecursUnfold
  <2>4. h[s] = w[Pick(s)] + h[s \ {Pick(s)}]
    BY <1>3, <1>5, RecursUnfold
  <2>. QED
    BY <1>3, <2>2, <2>3, <2>4
<1>. QED
  BY <1>4, <1>5

\* It exists, for every finite set.
LEMMA RecursExists ==
  ASSUME NEW w, NEW S, IsFiniteSet(S)
  PROVE  \E g : Recurs(g, w, S)
<1>. DEFINE Bad == {T \in SUBSET S : ~ \E g : Recurs(g, w, T)}
<1>. SUFFICES ASSUME Bad # {} PROVE FALSE
  OBVIOUS
<1>1. Bad \in SUBSET SUBSET S /\ Bad # {}
  OBVIOUS
<1>. HIDE DEF Bad
<1>2. PICK T \in Bad : \A u \in Bad : u \subseteq T => u = T
  BY <1>1, MinimalSet
<1>3. \A u \in SUBSET T : IsFiniteSet(u)
  BY <1>1, FS_Subset
<1>. DEFINE f(u) == CHOOSE g : Recurs(g, w, u)
            below(s) == f(s \ {Pick(s)})[s \ {Pick(s)}]
            G == [s \in SUBSET T |-> IF s = {} THEN 0 ELSE w[Pick(s)] + below(s)]
<1>4. \A u \in SUBSET T : u # T => Recurs(f(u), w, u)
  BY <1>1, <1>2 DEF Bad
<1>. HIDE DEF f
<1>5. ASSUME NEW s \in SUBSET T, s # T
      PROVE  G[s] = f(s)[s]
  <2>. PICK h : h = f(s)
    OBVIOUS
  <2>1. Recurs(h, w, s)
    BY <1>4, <1>5
  <2>2. CASE s = {}
    <3>1. h[s] = 0
      BY <2>1, <2>2, RecursUnfold
    <3>. QED
      BY <2>2, <3>1
  <2>3. CASE s # {}
    <3>1. Pick(s) \in s
      BY <2>3, PickIn
    <3>. PICK u, k : u = s \ {Pick(s)} /\ k = f(u)
      OBVIOUS
    <3>2. Recurs(k, w, u) /\ IsFiniteSet(u) /\ u \subseteq s
      BY <1>3, <1>4, <3>1
    <3>3. h[u] = k[u]
      BY <2>1, <3>2, RecursUnique
    <3>4. h[s] = w[Pick(s)] + h[u]
      BY <2>1, <2>3, RecursUnfold
    <3>. QED
      BY <2>3, <3>3, <3>4
  <2>. QED
    BY <2>2, <2>3
<1>6. ASSUME NEW s \in SUBSET T
      PROVE  G[s] = IF s = {} THEN 0 ELSE w[Pick(s)] + G[s \ {Pick(s)}]
  <2>1. CASE s = {}
    BY <2>1
  <2>2. CASE s # {}
    <3>1. Pick(s) \in s
      BY <2>2, PickIn
    <3>2. G[s \ {Pick(s)}] = below(s)
      BY <1>5, <3>1
    <3>. QED
      BY <2>2, <3>2
  <2>. QED
    BY <2>1, <2>2
<1>7. G = [s \in SUBSET T |-> G[s]]
  OBVIOUS
<1>. HIDE DEF G
<1>8. Recurs(G, w, T)
  BY <1>6, <1>7 DEF Recurs
<1>. QED
  BY <1>1, <1>2, <1>8 DEF Bad

LEMMA SumRecurs ==
  ASSUME NEW w, NEW S, IsFiniteSet(S)
  PROVE  \E g : Recurs(g, w, S) /\ SumFunctionOnSet(w, S) = g[S]
<1>1. SumFunctionOnSet(w, S) = (CHOOSE g : Recurs(g, w, S))[S]
  BY DEF SumFunctionOnSet, FoldFunctionOnSet, MapThenFoldSet, Pick, Recurs
<1>. QED
  BY <1>1, RecursExists

-----------------------------------------------------------------------------
(* What a sum is *)

LEMMA SumPick ==
  ASSUME NEW w, NEW S, IsFiniteSet(S), S # {}
  PROVE  SumFunctionOnSet(w, S) = w[Pick(S)] + SumFunctionOnSet(w, S \ {Pick(S)})
<1>. PICK T : T = S \ {Pick(S)}
  OBVIOUS
<1>1. IsFiniteSet(T) /\ T \subseteq S
  BY FS_Subset
<1>2. PICK g : Recurs(g, w, S) /\ SumFunctionOnSet(w, S) = g[S]
  BY SumRecurs
<1>3. PICK h : Recurs(h, w, T) /\ SumFunctionOnSet(w, T) = h[T]
  BY <1>1, SumRecurs
<1>4. g[S] = w[Pick(S)] + g[T]
  BY <1>2, RecursUnfold
<1>5. g[T] = h[T]
  BY <1>1, <1>2, <1>3, RecursUnique
<1>. QED
  BY <1>2, <1>3, <1>4, <1>5

\* The sum over no element is zero.
LEMMA SumEmpty == \A w : SumFunctionOnSet(w, {}) = 0
<1>. SUFFICES ASSUME NEW w PROVE SumFunctionOnSet(w, {}) = 0
  OBVIOUS
<1>1. PICK g : Recurs(g, w, {}) /\ SumFunctionOnSet(w, {}) = g[{}]
  BY SumRecurs, FS_EmptySet
<1>2. g[{}] = 0
  BY <1>1, RecursUnfold
<1>. QED
  BY <1>1, <1>2

\* A sum of naturals is one.
LEMMA SumNat ==
  ASSUME NEW S, IsFiniteSet(S), NEW w, \A x \in S : w[x] \in Nat
  PROVE  SumFunctionOnSet(w, S) \in Nat
<1>. DEFINE Bad == {T \in SUBSET S : SumFunctionOnSet(w, T) \notin Nat}
<1>. SUFFICES ASSUME Bad # {} PROVE FALSE
  OBVIOUS
<1>1. Bad \in SUBSET SUBSET S /\ Bad # {}
  OBVIOUS
<1>. HIDE DEF Bad
<1>2. PICK T \in Bad : \A u \in Bad : u \subseteq T => u = T
  BY <1>1, MinimalSet
<1>3. T \subseteq S /\ SumFunctionOnSet(w, T) \notin Nat /\ IsFiniteSet(T)
  BY <1>1, <1>2, FS_Subset DEF Bad
<1>4. T # {}
  BY <1>3, SumEmpty
<1>5. Pick(T) \in T
  BY <1>4, PickIn
<1>6. SumFunctionOnSet(w, T \ {Pick(T)}) \in Nat
  BY <1>1, <1>2, <1>5 DEF Bad
<1>7. SumFunctionOnSet(w, T) = w[Pick(T)] + SumFunctionOnSet(w, T \ {Pick(T)})
  BY <1>3, <1>4, SumPick
<1>. QED
  BY <1>3, <1>5, <1>6, <1>7

\* Any element may be taken out first.
LEMMA SumRemove ==
  ASSUME NEW S, IsFiniteSet(S), NEW w, \A x \in S : w[x] \in Nat, NEW y \in S
  PROVE  SumFunctionOnSet(w, S) = w[y] + SumFunctionOnSet(w, S \ {y})
<1>. DEFINE Good(T) == \A z \in T :
              SumFunctionOnSet(w, T) = w[z] + SumFunctionOnSet(w, T \ {z})
            Bad == {T \in SUBSET S : ~ Good(T)}
<1>. SUFFICES ASSUME Bad # {} PROVE FALSE
  OBVIOUS
<1>1. Bad \in SUBSET SUBSET S /\ Bad # {}
  OBVIOUS
<1>. HIDE DEF Bad
<1>2. PICK T \in Bad : \A u \in Bad : u \subseteq T => u = T
  BY <1>1, MinimalSet
<1>3. T \subseteq S /\ IsFiniteSet(T) /\ \A u \in SUBSET T : u # T => Good(u)
  BY <1>1, <1>2, FS_Subset DEF Bad
<1>4. PICK z \in T :
        SumFunctionOnSet(w, T) # w[z] + SumFunctionOnSet(w, T \ {z})
  BY <1>2 DEF Bad
<1>. PICK x : x = Pick(T)
  OBVIOUS
<1>5. /\ x \in T
      /\ SumFunctionOnSet(w, T) = w[x] + SumFunctionOnSet(w, T \ {x})
  BY <1>3, <1>4, SumPick, PickIn
<1>6. x # z
  BY <1>4, <1>5
<1>. PICK A, B, C : A = T \ {x} /\ B = T \ {z} /\ C = (T \ {x}) \ {z}
  OBVIOUS
<1>7. /\ A \in SUBSET T /\ A # T /\ z \in A /\ C = A \ {z}
      /\ B \in SUBSET T /\ B # T /\ x \in B /\ C = B \ {x}
  BY <1>5, <1>6
<1>8. /\ SumFunctionOnSet(w, A) = w[z] + SumFunctionOnSet(w, C)
      /\ SumFunctionOnSet(w, B) = w[x] + SumFunctionOnSet(w, C)
  BY <1>3, <1>7
<1>9. SumFunctionOnSet(w, C) \in Nat
  <2>1. C \subseteq T /\ IsFiniteSet(C)
    BY <1>3, <1>7, FS_Subset
  <2>. QED
    BY <1>3, <2>1, SumNat
<1>. HIDE DEF Good
<1>. QED
  BY <1>3, <1>4, <1>5, <1>8, <1>9

\* A new element adds its value.
LEMMA SumAdd ==
  ASSUME NEW S, IsFiniteSet(S), NEW w, NEW y, y \notin S,
         \A x \in S \cup {y} : w[x] \in Nat
  PROVE  SumFunctionOnSet(w, S \cup {y}) = w[y] + SumFunctionOnSet(w, S)
<1>. PICK T : T = S \cup {y}
  OBVIOUS
<1>1. IsFiniteSet(T) /\ y \in T /\ T \ {y} = S
  BY FS_AddElement
<1>2. SumFunctionOnSet(w, T) = w[y] + SumFunctionOnSet(w, T \ {y})
  BY <1>1, SumRemove
<1>. QED
  BY <1>1, <1>2

\* A sum depends on the values of its elements only.
LEMMA SumSame ==
  ASSUME NEW S, IsFiniteSet(S), NEW v, NEW w, \A x \in S : v[x] = w[x]
  PROVE  SumFunctionOnSet(v, S) = SumFunctionOnSet(w, S)
<1>. DEFINE Bad == {T \in SUBSET S : SumFunctionOnSet(v, T) # SumFunctionOnSet(w, T)}
<1>. SUFFICES ASSUME Bad # {} PROVE FALSE
  OBVIOUS
<1>1. Bad \in SUBSET SUBSET S /\ Bad # {}
  OBVIOUS
<1>. HIDE DEF Bad
<1>2. PICK T \in Bad : \A u \in Bad : u \subseteq T => u = T
  BY <1>1, MinimalSet
<1>3. /\ T \subseteq S /\ IsFiniteSet(T)
      /\ SumFunctionOnSet(v, T) # SumFunctionOnSet(w, T)
  BY <1>1, <1>2, FS_Subset DEF Bad
<1>4. T # {}
  BY <1>3, SumEmpty
<1>5. Pick(T) \in T
  BY <1>4, PickIn
<1>6. SumFunctionOnSet(v, T \ {Pick(T)}) = SumFunctionOnSet(w, T \ {Pick(T)})
  BY <1>1, <1>2, <1>5 DEF Bad
<1>7. /\ SumFunctionOnSet(v, T) = v[Pick(T)] + SumFunctionOnSet(v, T \ {Pick(T)})
      /\ SumFunctionOnSet(w, T) = w[Pick(T)] + SumFunctionOnSet(w, T \ {Pick(T)})
  BY <1>3, <1>4, SumPick
<1>. QED
  BY <1>3, <1>5, <1>6, <1>7

\* More elements make no smaller sum.
LEMMA SumMonotone ==
  ASSUME NEW S, IsFiniteSet(S), NEW w, \A x \in S : w[x] \in Nat, NEW T \in SUBSET S
  PROVE  SumFunctionOnSet(w, T) <= SumFunctionOnSet(w, S)
<1>. DEFINE Bad == {U \in SUBSET S : T \subseteq U
                      /\ ~ (SumFunctionOnSet(w, T) <= SumFunctionOnSet(w, U))}
<1>. SUFFICES ASSUME Bad # {} PROVE FALSE
  OBVIOUS
<1>1. Bad \in SUBSET SUBSET S /\ Bad # {}
  OBVIOUS
<1>. HIDE DEF Bad
<1>2. PICK U \in Bad : \A u \in Bad : u \subseteq U => u = U
  BY <1>1, MinimalSet
<1>3. /\ U \subseteq S /\ T \subseteq U /\ IsFiniteSet(U) /\ IsFiniteSet(T)
      /\ ~ (SumFunctionOnSet(w, T) <= SumFunctionOnSet(w, U))
  BY <1>1, <1>2, FS_Subset DEF Bad
<1>4. SumFunctionOnSet(w, T) \in Nat
  BY <1>3, SumNat
<1>5. PICK y \in U : y \notin T
  BY <1>3, <1>4
<1>6. PICK V : V = U \ {y}
  OBVIOUS
<1>7. /\ V \subseteq S /\ T \subseteq V /\ V \subseteq U /\ V # U /\ IsFiniteSet(V)
  BY <1>3, <1>5, <1>6, FS_Subset
<1>8. SumFunctionOnSet(w, T) <= SumFunctionOnSet(w, V)
  BY <1>1, <1>2, <1>7 DEF Bad
<1>9. SumFunctionOnSet(w, U) = w[y] + SumFunctionOnSet(w, V)
  BY <1>3, <1>6, SumRemove
<1>10. SumFunctionOnSet(w, V) \in Nat
  BY <1>3, <1>7, SumNat
<1>. QED
  BY <1>3, <1>4, <1>8, <1>9, <1>10
=================================================================================
