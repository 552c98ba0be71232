--------------------------- MODULE DependencyProofs ---------------------------
(***************************************************************************)
(* Proofs about what pushes and updates share.  About DependencyLevels,    *)
(* for every finite set of repositories: the levels of a graph without     *)
(* cycles are right, a graph with a cycle has none, and the picker leaves  *)
(* out exactly what closes a cycle.  About BackgroundJobs: what its steps  *)
(* preserve, whatever the work of the jobs is.                             *)
(*                                                                         *)
(* Induction is by the smallest counterexample: every set of naturals that *)
(* is not empty has a smallest element.                                    *)
(***************************************************************************)
EXTENDS DependencyLevels, BackgroundJobs, FiniteSetTheorems, TLAPS

(* The natural numbers are well-ordered. *)
LEMMA Smallest ==
  ASSUME NEW T \in SUBSET Nat, T # {}
  PROVE  \E m \in T : \A k \in T : m <= k
<1>1. PICK m \in T : \A k \in T : ~ (<<k, m>> \in OpToRel(<, Nat))
  BY NatLessThanWellFounded, WFMin, Zenon
<1>2. \A k \in T : ~(k < m)
  BY <1>1 DEF OpToRel
<1> QED BY <1>2

-----------------------------------------------------------------------------
(* The first n steps from x. *)
Steps(step, x, n) ==
  {f \in [0 .. n -> DOMAIN step] : f[0] = x /\ \A i \in 1 .. n : f[i] = step[f[i - 1]]}

LEMMA StepsAgree ==
  ASSUME NEW step, NEW x, NEW n \in Nat, NEW m \in Nat, n <= m,
         NEW f \in Steps(step, x, n), NEW g \in Steps(step, x, m)
  PROVE  \A i \in 0 .. n : f[i] = g[i]
<1> DEFINE T == {i \in 0 .. n : f[i] # g[i]}
<1>1. SUFFICES ASSUME T # {} PROVE FALSE
  OBVIOUS
<1>2. T \in SUBSET Nat
  OBVIOUS
<1>3. PICK i \in T : \A k \in T : i <= k
  BY <1>1, <1>2, Smallest
<1>4. i # 0
  BY <1>3 DEF Steps
<1>5. i - 1 \in 0 .. n /\ i \in 1 .. n /\ i \in 1 .. m
  BY <1>3, <1>4
<1>6. f[i - 1] = g[i - 1]
  BY <1>3, <1>5
<1>7. f[i] = step[f[i - 1]] /\ g[i] = step[g[i - 1]]
  BY <1>5 DEF Steps
<1> QED BY <1>3, <1>6, <1>7

LEMMA StepsExist ==
  ASSUME NEW D, NEW step \in [D -> D], NEW x \in D, NEW n \in Nat
  PROVE  Steps(step, x, n) # {}
<1> DEFINE T == {m \in Nat : Steps(step, x, m) = {}}
<1>1. SUFFICES ASSUME T # {} PROVE FALSE
  OBVIOUS
<1>2. T \in SUBSET Nat
  OBVIOUS
<1>3. PICK m \in T : \A k \in T : m <= k
  BY <1>1, <1>2, Smallest
<1>4. CASE m = 0
  <2>1. [i \in 0 .. 0 |-> x] \in Steps(step, x, 0)
    BY DEF Steps
  <2> QED BY <1>3, <1>4, <2>1
<1>5. CASE m # 0
  <2>1. m - 1 \in Nat /\ m - 1 \notin T
    BY <1>3, <1>5
  <2>2. PICK f \in Steps(step, x, m - 1) : TRUE
    BY <2>1
  <2> DEFINE g == [i \in 0 .. m |-> IF i = m THEN step[f[m - 1]] ELSE f[i]]
  <2>3. f \in [0 .. m - 1 -> D] /\ f[0] = x
    BY <2>2 DEF Steps
  <2>4. f[m - 1] \in D /\ step[f[m - 1]] \in D
    <3>1. m - 1 \in 0 .. m - 1
      BY <2>1
    <3> QED BY <2>3, <3>1
  <2>5. g \in [0 .. m -> D]
    <3>1. ASSUME NEW i \in 0 .. m, i # m PROVE f[i] \in D
      <4>1. i \in 0 .. m - 1
        BY <1>3, <3>1
      <4> QED BY <2>3, <4>1
    <3> QED BY <2>4, <3>1
  <2>6. g[0] = x
    BY <1>3, <1>5, <2>3
  <2>7. ASSUME NEW i \in 1 .. m PROVE g[i] = step[g[i - 1]]
    <3>1. i - 1 \in 0 .. m /\ i - 1 # m /\ i \in 0 .. m
      BY <1>3, <2>7
    <3>2. g[i - 1] = f[i - 1]
      BY <3>1
    <3>3. CASE i = m
      BY <3>1, <3>2, <3>3
    <3>4. CASE i # m
      <4>1. i \in 1 .. m - 1
        BY <1>3, <3>4
      <4>2. f[i] = step[f[i - 1]]
        BY <2>2, <4>1 DEF Steps
      <4> QED BY <3>1, <3>2, <3>4, <4>2
    <3> QED BY <3>3, <3>4
  <2>8. g \in Steps(step, x, m)
    BY <2>5, <2>6, <2>7 DEF Steps
  <2> QED BY <1>3, <2>8
<1> QED BY <1>4, <1>5

(* A function of the naturals can be defined step by step. *)
Iterations(D, step, x) ==
  {F \in [Nat -> D] : F[0] = x /\ \A n \in Nat \ {0} : F[n] = step[F[n - 1]]}

LEMMA IterationExists ==
  ASSUME NEW D, NEW step \in [D -> D], NEW x \in D
  PROVE  Iterations(D, step, x) # {}
<1> DEFINE first(n) == CHOOSE f : f \in Steps(step, x, n)
           F == [n \in Nat |-> first(n)[n]]
<1>1. \A n \in Nat : first(n) \in Steps(step, x, n)
  BY StepsExist
<1>2. F[0] = x
  BY <1>1 DEF Steps
<1>3. ASSUME NEW n \in Nat \ {0} PROVE F[n] = step[F[n - 1]]
  <2>1. n \in Nat /\ n - 1 \in Nat /\ n - 1 <= n /\ n \in 1 .. n /\ n - 1 \in 0 .. n - 1
    BY <1>3
  <2>2. first(n) \in Steps(step, x, n) /\ first(n - 1) \in Steps(step, x, n - 1)
    BY <1>1, <2>1
  <2> HIDE DEF first
  <2>3. first(n - 1)[n - 1] = first(n)[n - 1]
    BY <2>1, <2>2, StepsAgree
  <2>4. first(n)[n] = step[first(n)[n - 1]]
    BY <2>1, <2>2 DEF Steps
  <2> QED BY <2>1, <2>3, <2>4
<1>4. F \in [Nat -> D]
  <2>1. ASSUME NEW n \in Nat PROVE first(n)[n] \in D
    <3>1. first(n) \in Steps(step, x, n)
      BY <1>1
    <3> HIDE DEF first
    <3>2. first(n) \in [0 .. n -> D]
      BY <3>1 DEF Steps
    <3>3. n \in 0 .. n
      OBVIOUS
    <3> QED BY <3>2, <3>3
  <2> HIDE DEF first
  <2> QED BY <2>1
<1> HIDE DEF F
<1>5. F \in Iterations(D, step, x)
  BY <1>2, <1>3, <1>4 DEF Iterations
<1> QED BY <1>5

(* An increasing chain of sets of repositories that is defined step by step does
   not grow any more after as many steps as there are repositories. *)
N == Cardinality(Repos)

LEMMA NIsNatural == N \in Nat
BY ReposAssumption, FS_CardinalityType DEF N

Chain(F, step) ==
  /\ F \in [Nat -> SUBSET Repos]
  /\ step \in [SUBSET Repos -> SUBSET Repos]
  /\ \A n \in Nat : F[n + 1] = step[F[n]]
  /\ \A n \in Nat : F[n] \subseteq F[n + 1]

LEMMA ChainIsFinite ==
  ASSUME NEW F, NEW step, Chain(F, step), NEW n \in Nat
  PROVE  /\ IsFiniteSet(F[n])
         /\ Cardinality(F[n]) \in Nat
         /\ Cardinality(F[n]) <= N
<1>1. F[n] \in SUBSET Repos
  BY DEF Chain
<1>2. IsFiniteSet(F[n]) /\ Cardinality(F[n]) <= N
  BY <1>1, ReposAssumption, FS_Subset DEF N
<1> QED BY <1>2, FS_CardinalityType

LEMMA ChainMonotonic ==
  ASSUME NEW F, NEW step, Chain(F, step), NEW i \in Nat, NEW j \in Nat, i <= j
  PROVE  F[i] \subseteq F[j]
<1> DEFINE T == {n \in Nat : i <= n /\ ~(F[i] \subseteq F[n])}
<1>1. SUFFICES ASSUME T # {} PROVE FALSE
  OBVIOUS
<1>2. PICK m \in T : \A k \in T : m <= k
  <2>1. T \in SUBSET Nat
    OBVIOUS
  <2> QED BY <1>1, <2>1, Smallest
<1>3. m # i
  BY <1>2
<1>4. m - 1 \in Nat /\ i <= m - 1 /\ (m - 1) + 1 = m
  BY <1>2, <1>3
<1>5. F[i] \subseteq F[m - 1]
  BY <1>2, <1>4
<1>6. F[m - 1] \subseteq F[m]
  BY <1>4 DEF Chain
<1> QED BY <1>2, <1>5, <1>6

(* A step that adds something adds to the size. *)
LEMMA StepAdds ==
  ASSUME NEW F, NEW step, Chain(F, step), NEW n \in Nat, F[n] # F[n + 1]
  PROVE  Cardinality(F[n]) < Cardinality(F[n + 1])
<1>1. F[n] \subseteq F[n + 1]
  BY DEF Chain
<1>2. n + 1 \in Nat
  OBVIOUS
<1>3. /\ IsFiniteSet(F[n + 1])
      /\ Cardinality(F[n + 1]) \in Nat /\ Cardinality(F[n]) \in Nat
  BY <1>2, ChainIsFinite
<1>4. /\ Cardinality(F[n]) <= Cardinality(F[n + 1])
      /\ Cardinality(F[n + 1]) = Cardinality(F[n]) => F[n + 1] = F[n]
  BY <1>1, <1>3, FS_Subset
<1> QED BY <1>3, <1>4

(* A step that adds nothing is the last that could. *)
LEMMA StaysStill ==
  ASSUME NEW F, NEW step, Chain(F, step), NEW i \in Nat, NEW j \in Nat, i <= j,
         F[i] = F[i + 1]
  PROVE  F[j] = F[i]
<1> DEFINE T == {n \in Nat : i <= n /\ F[n] # F[i]}
<1>1. SUFFICES ASSUME T # {} PROVE FALSE
  OBVIOUS
<1>2. PICK m \in T : \A k \in T : m <= k
  <2>1. T \in SUBSET Nat
    OBVIOUS
  <2> QED BY <1>1, <2>1, Smallest
<1>3. m # i
  BY <1>2
<1>4. m - 1 \in Nat /\ i <= m - 1 /\ (m - 1) + 1 = m
  BY <1>2, <1>3
<1>5. F[m - 1] = F[i]
  BY <1>2, <1>4
<1>6. F[m] = step[F[m - 1]] /\ F[i + 1] = step[F[i]]
  BY <1>4 DEF Chain
<1> QED BY <1>2, <1>5, <1>6

LEMMA ChainStops ==
  ASSUME NEW F, NEW step, Chain(F, step)
  PROVE  F[N] = step[F[N]]
<1>1. CASE \E i \in 0 .. N : F[i] = F[i + 1]
  <2>1. PICK i \in 0 .. N : F[i] = F[i + 1]
    BY <1>1
  <2>2. i \in Nat /\ i <= N /\ N \in Nat /\ N + 1 \in Nat /\ i <= N + 1
    BY <2>1, NIsNatural
  <2>3. F[N] = F[i] /\ F[N + 1] = F[i]
    BY <2>1, <2>2, StaysStill
  <2>4. F[N + 1] = step[F[N]]
    BY <2>2 DEF Chain
  <2> QED BY <2>3, <2>4
<1>2. CASE \A i \in 0 .. N : F[i] # F[i + 1]
  <2> DEFINE T == {n \in 0 .. N + 1 : Cardinality(F[n]) < n}
  <2>1. N + 1 \in T
    BY NIsNatural, ChainIsFinite
  <2>2. PICK m \in T : \A k \in T : m <= k
    <3>1. T \in SUBSET Nat
      BY NIsNatural
    <3> QED BY <2>1, <3>1, Smallest
  <2>3. m \in Nat /\ m # 0 /\ m - 1 \in 0 .. N
    BY <2>2, NIsNatural, ChainIsFinite
  <2>4. m - 1 \in Nat /\ (m - 1) + 1 = m /\ m - 1 \in 0 .. N + 1
    BY <2>3, NIsNatural
  <2>5. Cardinality(F[m - 1]) < Cardinality(F[m])
    BY <1>2, <2>3, <2>4, StepAdds
  <2>6. ~(Cardinality(F[m - 1]) < m - 1)
    BY <2>2, <2>4
  <2>7. Cardinality(F[m]) < m
    BY <2>2
  <2>8. Cardinality(F[m - 1]) \in Nat /\ Cardinality(F[m]) \in Nat
    BY <2>3, <2>4, ChainIsFinite
  <2> QED BY <2>3, <2>5, <2>6, <2>7, <2>8
<1> QED BY <1>1, <1>2

-----------------------------------------------------------------------------
(* The rounds of the level algorithm are such a chain. *)
Taken(uses, X) == {r \in Repos : uses[r] \subseteq X}

Take(uses) == [X \in SUBSET Repos |-> Taken(uses, X)]

LEMMA PlacedUnfolds ==
  ASSUME NEW uses
  PROVE  /\ Placed(uses)[0] = {}
         /\ \A n \in Nat : Placed(uses)[n + 1] = Taken(uses, Placed(uses)[n])
         /\ Placed(uses) \in [Nat -> SUBSET Repos]
<1> DEFINE Body(p) ==
             [n \in Nat |-> IF n = 0 THEN {} ELSE {r \in Repos : uses[r] \subseteq p[n - 1]}]
<1>1. Take(uses) \in [SUBSET Repos -> SUBSET Repos]
  BY DEF Take, Taken
<1>2. PICK F \in [Nat -> SUBSET Repos] :
        F[0] = {} /\ \A n \in Nat \ {0} : F[n] = Take(uses)[F[n - 1]]
  <2>1. {} \in SUBSET Repos
    OBVIOUS
  <2>2. Iterations(SUBSET Repos, Take(uses), {}) # {}
    BY <1>1, <2>1, IterationExists
  <2> QED BY <2>2 DEF Iterations
<1>3. F = Body(F)
  <2>1. ASSUME NEW n \in Nat \ {0} PROVE F[n] = {r \in Repos : uses[r] \subseteq F[n - 1]}
    <3>1. n - 1 \in Nat
      OBVIOUS
    <3> QED BY <1>2, <3>1 DEF Take, Taken
  <2>2. \A n \in Nat : F[n] = Body(F)[n]
    BY <1>2, <2>1
  <2>3. F = [n \in Nat |-> F[n]] /\ Body(F) = [n \in Nat |-> Body(F)[n]]
    OBVIOUS
  <2> HIDE DEF Body
  <2> QED BY <2>2, <2>3
<1>4. Placed(uses) = CHOOSE p : p = Body(p)
  BY DEF Placed
<1>5. Placed(uses) = Body(Placed(uses))
  <2> HIDE DEF Body
  <2> QED BY <1>3, <1>4
<1> DEFINE P == Placed(uses)
<1>6. /\ P = [n \in Nat |-> P[n]]
      /\ P[0] = {}
      /\ \A n \in Nat : n # 0 => P[n] = Taken(uses, P[n - 1])
  BY <1>5 DEF Taken
<1> HIDE DEF P
<1>7. \A n \in Nat : P[n + 1] = Taken(uses, P[n])
  <2>1. ASSUME NEW n \in Nat PROVE P[n + 1] = Taken(uses, P[n])
    <3>1. n + 1 \in Nat /\ n + 1 # 0 /\ (n + 1) - 1 = n
      OBVIOUS
    <3> QED BY <1>6, <3>1
  <2> QED BY <2>1
<1>8. P \in [Nat -> SUBSET Repos]
  <2>1. \A n \in Nat : P[n] \in SUBSET Repos
    BY <1>6 DEF Taken
  <2> QED BY <1>6, <2>1
<1> QED BY <1>6, <1>7, <1>8 DEF P

LEMMA PlacedIsChain ==
  ASSUME NEW uses
  PROVE  Chain(Placed(uses), Take(uses))
<1> DEFINE P == Placed(uses)
           T == {n \in Nat : ~(P[n] \subseteq P[n + 1])}
<1>1. /\ P[0] = {}
      /\ \A n \in Nat : P[n + 1] = Taken(uses, P[n])
      /\ P \in [Nat -> SUBSET Repos]
  BY PlacedUnfolds
<1> HIDE DEF P
<1>2. Take(uses) \in [SUBSET Repos -> SUBSET Repos] /\ \A n \in Nat : P[n + 1] = Take(uses)[P[n]]
  BY <1>1 DEF Take, Taken
<1>3. ASSUME T # {} PROVE FALSE
  <2>1. T \in SUBSET Nat
    OBVIOUS
  <2>2. PICK m \in T : \A k \in T : m <= k
    BY <1>3, <2>1, Smallest
  <2>3. m # 0
    BY <1>1, <2>2
  <2>4. m - 1 \in Nat /\ m \in Nat /\ (m - 1) + 1 = m
    BY <2>2, <2>3
  <2>5. P[m - 1] \subseteq P[m]
    BY <2>2, <2>4
  <2>6. P[m] = Taken(uses, P[m - 1]) /\ P[m + 1] = Taken(uses, P[m])
    BY <1>1, <2>4
  <2>7. P[m] \subseteq P[m + 1]
    BY <2>5, <2>6 DEF Taken
  <2> QED BY <2>2, <2>7
<1> QED BY <1>1, <1>2, <1>3 DEF Chain, P

(* The last round takes nothing. *)
LEMMA LastRound ==
  ASSUME NEW uses
  PROVE  /\ Placed(uses)[N] \in SUBSET Repos
         /\ Placed(uses)[N] = Taken(uses, Placed(uses)[N])
<1>1. Placed(uses)[N] \in SUBSET Repos
  BY PlacedUnfolds, NIsNatural
<1>2. Placed(uses)[N] = Take(uses)[Placed(uses)[N]]
  BY PlacedIsChain, ChainStops
<1> QED BY <1>1, <1>2 DEF Take

-----------------------------------------------------------------------------
(* Every repository is taken exactly when there is no cycle. *)
LEMMA AllPlacedIffAcyclic ==
  ASSUME NEW uses \in Graph
  PROVE  AllPlaced(uses) <=> Acyclic(uses)
<1>0. /\ Placed(uses)[N] \in SUBSET Repos
      /\ Placed(uses)[N] = Taken(uses, Placed(uses)[N])
  BY LastRound
<1>1. ASSUME Acyclic(uses) PROVE AllPlaced(uses)
  <2> DEFINE S == Repos \ Placed(uses)[N]
  <2>1. SUFFICES ASSUME S # {} PROVE FALSE
    BY <1>0 DEF AllPlaced, N
  <2>2. PICK r \in S : uses[r] \cap S = {}
    BY <1>1, <2>1 DEF Acyclic
  <2>3. uses[r] \subseteq Repos
    BY <2>2 DEF Graph
  <2>4. r \in Taken(uses, Placed(uses)[N])
    BY <2>2, <2>3 DEF Taken
  <2> QED BY <1>0, <2>2, <2>4
<1>2. ASSUME AllPlaced(uses) PROVE Acyclic(uses)
  <2>1. SUFFICES ASSUME NEW S \in (SUBSET Repos) \ {{}}
                 PROVE  \E r \in S : uses[r] \cap S = {}
    BY DEF Acyclic
  <2> DEFINE T == {n \in Nat : S \cap Placed(uses)[n] # {}}
  <2>2. N \in T
    BY <1>2, NIsNatural DEF AllPlaced, N
  <2>3. PICK m \in T : \A k \in T : m <= k
    <3>1. T \in SUBSET Nat
      OBVIOUS
    <3> QED BY <2>2, <3>1, Smallest
  <2>4. m # 0
    BY <2>3, PlacedUnfolds
  <2>5. m - 1 \in Nat /\ (m - 1) + 1 = m /\ m - 1 \notin T
    BY <2>3, <2>4
  <2>6. Placed(uses)[m] = Taken(uses, Placed(uses)[m - 1])
    BY <2>5, PlacedUnfolds
  <2>7. PICK r \in S : r \in Placed(uses)[m]
    BY <2>3
  <2>8. uses[r] \subseteq Placed(uses)[m - 1]
    BY <2>6, <2>7 DEF Taken
  <2> QED BY <2>5, <2>7, <2>8
<1> QED BY <1>1, <1>2

(* Round is the round in which a repository is taken. *)
LEMMA RoundIsFirst ==
  ASSUME NEW uses, NEW r, r \in Placed(uses)[N]
  PROVE  /\ Round(uses, r) \in 1 .. N
         /\ \A i \in Nat : r \in Placed(uses)[i] <=> Round(uses, r) <= i
<1> DEFINE T == {n \in Nat : r \in Placed(uses)[n]}
<1>1. PICK m \in T : \A k \in T : m <= k
  <2>1. T \in SUBSET Nat /\ N \in T
    BY NIsNatural
  <2> QED BY <2>1, Smallest
<1>2. m \in Nat /\ m <= N /\ m # 0
  BY <1>1, NIsNatural, PlacedUnfolds
<1>3. \A i \in Nat : r \in Placed(uses)[i] <=> m <= i
  BY <1>1, <1>2, PlacedIsChain, ChainMonotonic
<1>4. {n \in 0 .. N : r \notin Placed(uses)[n]} = 0 .. m - 1
  BY <1>2, <1>3, NIsNatural
<1>5. Cardinality(0 .. m - 1) = m
  BY <1>2, FS_Interval
<1>6. Round(uses, r) = m
  BY <1>4, <1>5 DEF Round, N
<1> QED BY <1>2, <1>3, <1>6, NIsNatural

LEMMA LevelOfAcyclic ==
  ASSUME NEW uses \in Graph, Acyclic(uses), NEW r \in Repos
  PROVE  /\ \A s \in uses[r] : Round(uses, s) < Round(uses, r)
         /\ Round(uses, r) = 1 \/ \E s \in uses[r] : Round(uses, s) + 1 = Round(uses, r)
<1>1. Placed(uses)[N] = Repos
  BY AllPlacedIffAcyclic DEF AllPlaced, N
<1>2. uses[r] \subseteq Repos
  BY DEF Graph
<1> DEFINE k == Round(uses, r)
<1>3. /\ k \in 1 .. N
      /\ \A i \in Nat : r \in Placed(uses)[i] <=> k <= i
  BY <1>1, RoundIsFirst
<1>4. \A s \in uses[r] :
        /\ Round(uses, s) \in 1 .. N
        /\ \A i \in Nat : s \in Placed(uses)[i] <=> Round(uses, s) <= i
  BY <1>1, <1>2, RoundIsFirst
<1> HIDE DEF k
<1>5. k \in Nat /\ k - 1 \in Nat /\ (k - 1) + 1 = k /\ k <= k
  BY <1>3, NIsNatural
<1>6. r \in Taken(uses, Placed(uses)[k - 1])
  BY <1>3, <1>5, PlacedUnfolds
<1>7. ASSUME NEW s \in uses[r] PROVE Round(uses, s) <= k - 1
  BY <1>4, <1>5, <1>6 DEF Taken
<1>8. ASSUME k # 1 PROVE \E s \in uses[r] : Round(uses, s) + 1 = k
  <2>1. k - 2 \in Nat /\ (k - 2) + 1 = k - 1
    BY <1>3, <1>5, <1>8, NIsNatural
  <2>2. r \notin Taken(uses, Placed(uses)[k - 2])
    <3>1. r \notin Placed(uses)[k - 1]
      BY <1>3, <1>5
    <3> QED BY <2>1, <3>1, PlacedUnfolds
  <2>3. PICK s \in uses[r] : s \notin Placed(uses)[k - 2]
    BY <2>2 DEF Taken
  <2>4. ~(Round(uses, s) <= k - 2)
    BY <1>4, <2>1, <2>3
  <2>5. Round(uses, s) \in Nat /\ Round(uses, s) <= k - 1
    BY <1>4, <1>7, NIsNatural
  <2> QED BY <1>5, <2>4, <2>5
<1>9. \A s \in uses[r] : Round(uses, s) \in Nat
  BY <1>4, NIsNatural
<1> QED BY <1>5, <1>7, <1>8, <1>9 DEF k

(* For every graph on every finite set of repositories: the levels exist exactly
   when there is no cycle, and a repository is one level above the highest it
   refers to (PersistRepositoryDependencyLevelAndDependenciesAsync). *)
THEOREM LevelsRight ==
  ASSUME NEW uses \in Graph
  PROVE  LevelsAreRight(uses)
<1>1. CASE Acyclic(uses)
  <2>1. \A r \in Repos : Levels(uses)[r] = Round(uses, r)
    BY <1>1, AllPlacedIffAcyclic DEF Levels
  <2>2. \A r \in Repos : uses[r] \subseteq Repos
    BY DEF Graph
  <2>3. ASSUME NEW r \in Repos
        PROVE  /\ \A s \in uses[r] : Levels(uses)[s] < Levels(uses)[r]
               /\ Levels(uses)[r] = 1 \/ \E s \in uses[r] : Levels(uses)[s] + 1 = Levels(uses)[r]
    <3>1. /\ \A s \in uses[r] : Round(uses, s) < Round(uses, r)
          /\ Round(uses, r) = 1 \/ \E s \in uses[r] : Round(uses, s) + 1 = Round(uses, r)
      BY <1>1, LevelOfAcyclic
    <3> QED BY <2>1, <2>2, <3>1
  <2> QED BY <1>1, <2>3 DEF LevelsAreRight
<1>2. CASE ~Acyclic(uses)
  BY <1>2, AllPlacedIffAcyclic DEF LevelsAreRight, Levels
<1> QED BY <1>1, <1>2

(* A level is a natural number. *)
LEMMA LevelsType ==
  ASSUME NEW uses
  PROVE  Levels(uses) \in [Repos -> Nat]
<1>1. \A r \in Repos : AllPlaced(uses) => Round(uses, r) \in Nat
  BY RoundIsFirst, NIsNatural DEF AllPlaced, N
<1> QED BY <1>1 DEF Levels, Unlevelled

-----------------------------------------------------------------------------
(* The steps of the search along the references are a chain as well. *)
Follow(uses) == [X \in SUBSET Repos |-> X \cup UNION {uses[r] : r \in X}]

(* What the search finds is closed under the references, and no more than any
   set that is. *)
Closed(uses, U) == \A r \in U \cap Repos : uses[r] \subseteq U

LEMMA ReachedIsClosure ==
  ASSUME NEW uses \in Graph, NEW c \in Repos
  PROVE  /\ Reached(uses, c) \in SUBSET Repos
         /\ c \in Reached(uses, c)
         /\ Closed(uses, Reached(uses, c))
         /\ \A U : c \in U /\ Closed(uses, U) => Reached(uses, c) \subseteq U
<1> DEFINE Body(p) ==
             [n \in Nat |-> IF n = 0 THEN {c}
                            ELSE p[n - 1] \cup UNION {uses[r] : r \in p[n - 1]}]
           V == CHOOSE p : p = Body(p)
<1>1. Reached(uses, c) = V[N]
  BY DEF Reached, N
<1>2. Follow(uses) \in [SUBSET Repos -> SUBSET Repos]
  BY DEF Follow, Graph
<1>3. PICK F \in [Nat -> SUBSET Repos] :
        F[0] = {c} /\ \A n \in Nat \ {0} : F[n] = Follow(uses)[F[n - 1]]
  <2>1. {c} \in SUBSET Repos
    OBVIOUS
  <2>2. Iterations(SUBSET Repos, Follow(uses), {c}) # {}
    BY <1>2, <2>1, IterationExists
  <2> QED BY <2>2 DEF Iterations
<1>4. F = Body(F)
  <2>1. ASSUME NEW n \in Nat \ {0} PROVE F[n] = F[n - 1] \cup UNION {uses[r] : r \in F[n - 1]}
    <3>1. n - 1 \in Nat
      OBVIOUS
    <3>2. F[n - 1] \in SUBSET Repos
      BY <3>1
    <3> QED BY <1>3, <3>2 DEF Follow
  <2>2. \A n \in Nat : F[n] = Body(F)[n]
    BY <1>3, <2>1
  <2>3. F = [n \in Nat |-> F[n]] /\ Body(F) = [n \in Nat |-> Body(F)[n]]
    OBVIOUS
  <2> HIDE DEF Body
  <2> QED BY <2>2, <2>3
<1>5. V = Body(V)
  <2> HIDE DEF Body
  <2> QED BY <1>4
<1>6. /\ V = [n \in Nat |-> V[n]]
      /\ V[0] = {c}
      /\ \A n \in Nat : n # 0 => V[n] = V[n - 1] \cup UNION {uses[r] : r \in V[n - 1]}
  BY <1>5
<1> HIDE DEF V
<1>7. ASSUME NEW n \in Nat PROVE V[n + 1] = V[n] \cup UNION {uses[r] : r \in V[n]}
  <2>1. n + 1 \in Nat /\ n + 1 # 0 /\ (n + 1) - 1 = n
    OBVIOUS
  <2> QED BY <1>6, <2>1
(* Every step stays in a closed set that c is in, as Repos is. *)
<1>8. ASSUME NEW U, c \in U, Closed(uses, U), NEW n \in Nat
      PROVE  V[n] \subseteq U \cap Repos
  <2> DEFINE T == {i \in Nat : ~(V[i] \subseteq U \cap Repos)}
  <2>1. SUFFICES ASSUME T # {} PROVE FALSE
    OBVIOUS
  <2>2. PICK m \in T : \A k \in T : m <= k
    <3>1. T \in SUBSET Nat
      OBVIOUS
    <3> QED BY <2>1, <3>1, Smallest
  <2>3. m # 0
    BY <1>6, <1>8, <2>2
  <2>4. m - 1 \in Nat /\ (m - 1) + 1 = m
    BY <2>2, <2>3
  <2>5. V[m - 1] \subseteq U \cap Repos
    BY <2>2, <2>4
  <2>6. V[m] = V[m - 1] \cup UNION {uses[r] : r \in V[m - 1]}
    BY <1>7, <2>4
  <2>7. \A r \in V[m - 1] : uses[r] \subseteq U \cap Repos
    BY <1>8, <2>5 DEF Closed, Graph
  <2>8. V[m] \subseteq U \cap Repos
    BY <2>5, <2>6, <2>7
  <2> QED BY <2>2, <2>8
<1>9. Closed(uses, Repos)
  BY DEF Closed, Graph
<1>10. V \in [Nat -> SUBSET Repos]
  <2>1. \A n \in Nat : V[n] \in SUBSET Repos
    BY <1>8, <1>9
  <2> QED BY <1>6, <2>1
<1>11. Chain(V, Follow(uses))
  <2>1. \A n \in Nat : V[n + 1] = Follow(uses)[V[n]]
    BY <1>7, <1>10 DEF Follow
  <2>2. \A n \in Nat : V[n] \subseteq V[n + 1]
    BY <1>7
  <2> QED BY <1>2, <1>10, <2>1, <2>2 DEF Chain
<1>12. V[N] \in SUBSET Repos /\ V[N] = Follow(uses)[V[N]]
  BY <1>10, <1>11, ChainStops, NIsNatural
<1>13. Closed(uses, V[N])
  <2>1. V[N] = V[N] \cup UNION {uses[r] : r \in V[N]}
    BY <1>12 DEF Follow
  <2> QED BY <2>1 DEF Closed
<1>14. c \in V[N]
  <2>1. 0 \in Nat /\ 0 <= N
    BY NIsNatural
  <2>2. V[0] \subseteq V[N]
    BY <1>11, <2>1, ChainMonotonic, NIsNatural
  <2> QED BY <1>6, <2>2
<1>15. \A U : c \in U /\ Closed(uses, U) => V[N] \subseteq U
  BY <1>8, NIsNatural
<1> QED BY <1>1, <1>12, <1>13, <1>14, <1>15

(* A search that finds d, and does not begin there, finds it from a reference. *)
LEMMA ReachedFromReference ==
  ASSUME NEW uses \in Graph, NEW x \in Repos, NEW d \in Reached(uses, x), x # d
  PROVE  \E y \in uses[x] : d \in Reached(uses, y)
<1> DEFINE U == {x} \cup UNION {Reached(uses, y) : y \in uses[x]}
<1>1. SUFFICES ASSUME \A y \in uses[x] : d \notin Reached(uses, y)
               PROVE  FALSE
  OBVIOUS
<1>2. \A y \in uses[x] : y \in Repos /\ y \in Reached(uses, y) /\ Closed(uses, Reached(uses, y))
  BY ReachedIsClosure DEF Graph
<1>3. Closed(uses, U)
  BY <1>2 DEF Closed
<1>4. d \notin U
  BY <1>1
<1>5. x \in U
  OBVIOUS
<1> HIDE DEF U
<1> QED BY <1>3, <1>4, <1>5, ReachedIsClosure

(* For every graph without cycles on every finite set of repositories: what the
   user picks of what is offered closes no cycle, all at once and though every
   repository was tested by itself, and nothing is left out that could be picked
   (GetCircularCustomDependencyRepoIdsAsync). *)
THEOREM PickerRight ==
  ASSUME NEW uses \in Graph
  PROVE  PickerIsRight(uses)
<1>1. SUFFICES ASSUME Acyclic(uses), NEW d \in Repos, NEW picked \in SUBSET (Repos \ {d})
               PROVE  Acyclic([uses EXCEPT ![d] = @ \cup picked])
                        <=> picked \cap Circular(uses, d) = {}
  BY DEF PickerIsRight
<1> DEFINE new == [uses EXCEPT ![d] = @ \cup picked]
<1>2. /\ new[d] = uses[d] \cup picked
      /\ \A r \in Repos : r # d => new[r] = uses[r]
      /\ \A r \in Repos : uses[r] \subseteq Repos
  BY DEF Graph
<1> HIDE DEF new
<1>3. ASSUME picked \cap Circular(uses, d) = {} PROVE Acyclic(new)
  <2>1. SUFFICES ASSUME NEW S \in (SUBSET Repos) \ {{}}, \A r \in S : new[r] \cap S # {}
                 PROVE  FALSE
    BY DEF Acyclic
  <2>2. PICK r \in S : uses[r] \cap S = {}
    BY <1>1 DEF Acyclic
  <2>3. r = d
    BY <1>2, <2>1, <2>2
  <2>4. PICK c \in S : c \in picked /\ c \notin uses[d]
    BY <1>2, <2>1, <2>2, <2>3
  <2>5. c \in Repos /\ d \notin Reached(uses, c)
    BY <1>3, <2>4 DEF Circular, WouldCreateCycle
  <2> DEFINE R == S \cap Reached(uses, c)
  <2>6. c \in R /\ d \notin R /\ Closed(uses, Reached(uses, c))
    BY <2>4, <2>5, ReachedIsClosure
  <2>7. PICK q \in R : uses[q] \cap R = {}
    BY <1>1, <2>6 DEF Acyclic
  <2>8. q # d /\ q \in Repos
    BY <2>6, <2>7
  <2>9. PICK y \in S : y \in uses[q]
    BY <1>2, <2>1, <2>7, <2>8
  <2>10. y \in R
    BY <2>6, <2>7, <2>8, <2>9 DEF Closed
  <2> QED BY <2>7, <2>9, <2>10
<1>4. ASSUME Acyclic(new), NEW c \in picked \cap Circular(uses, d) PROVE FALSE
  <2>1. c \in Repos /\ d \in Reached(uses, c)
    BY <1>4 DEF Circular, WouldCreateCycle
  <2> DEFINE S == {x \in Reached(uses, c) : d \in Reached(uses, x)}
  <2>2. /\ Reached(uses, c) \in SUBSET Repos
        /\ c \in Reached(uses, c)
        /\ Closed(uses, Reached(uses, c))
    BY <2>1, ReachedIsClosure
  <2>3. c \in S /\ S \in (SUBSET Repos) \ {{}}
    BY <2>1, <2>2
  <2>4. PICK x \in S : new[x] \cap S = {}
    BY <1>4, <2>3 DEF Acyclic
  <2>5. x # d
    BY <1>2, <1>4, <2>3, <2>4
  <2>6. x \in Repos /\ x \in Reached(uses, c) /\ d \in Reached(uses, x)
    BY <2>2, <2>4
  <2>7. PICK y \in uses[x] : d \in Reached(uses, y)
    BY <2>5, <2>6, ReachedFromReference
  <2>8. y \in Reached(uses, c)
    BY <2>2, <2>6, <2>7 DEF Closed
  <2> QED BY <1>2, <2>4, <2>5, <2>6, <2>7, <2>8
<1> QED BY <1>3, <1>4 DEF new
-----------------------------------------------------------------------------
(* What the work of every module that has jobs may do with them, and what then
   holds whatever the work is. *)
JobStep ==
  \/ \E j \in Jobs : StartJob(j)
  \/ \E j \in Jobs, how \in {"Completed", "Faulted", "Aborted"} : EndWork(j, how)
  \/ Abort
  \/ CloseTab

JobInv == JobsTypeOK /\ AbandonedIsCancelled

(* A job that has not been started does not work. *)
StartedInv == \A j \in Jobs : shown[j] = "None" => j \notin working

LEMMA JobInvInit == JobsInit => JobInv
BY DEF JobsInit, JobInv, JobsTypeOK, AbandonedIsCancelled, JobState

LEMMA JobInvStep == JobInv /\ (JobStep \/ UNCHANGED jobVars) => JobInv'
<1> SUFFICES ASSUME JobInv, JobStep \/ UNCHANGED jobVars PROVE JobInv'
  OBVIOUS
<1> USE DEF JobInv, JobsTypeOK, JobState
<1>1. ASSUME NEW j \in Jobs, StartJob(j) PROVE JobInv'
  <2>1. JobsTypeOK'
    BY <1>1 DEF StartJob
  (* No live work is left, or the job of the table would be running. *)
  <2>2. working \ cancelled = {}
    BY <1>1, JobsAssumption DEF StartJob, IsRunning, AbandonedIsCancelled
  <2>3. AbandonedIsCancelled'
    BY <1>1, <2>2 DEF StartJob, AbandonedIsCancelled
  <2> QED BY <2>1, <2>3
<1>2. ASSUME NEW j \in Jobs, NEW how \in {"Completed", "Faulted", "Aborted"}, EndWork(j, how)
      PROVE  JobInv'
  <2>1. JobsTypeOK'
    BY <1>2 DEF EndWork
  <2>2. AbandonedIsCancelled'
    BY <1>2 DEF EndWork, AbandonedIsCancelled
  <2> QED BY <2>1, <2>2
<1>3. ASSUME Abort PROVE JobInv'
  <2>1. JobsTypeOK'
    BY <1>3 DEF Abort
  <2>2. AbandonedIsCancelled'
    BY <1>3 DEF Abort, AbandonedIsCancelled
  <2> QED BY <2>1, <2>2
<1>4. ASSUME CloseTab PROVE JobInv'
  <2>1. JobsTypeOK'
    BY <1>4 DEF CloseTab
  <2>2. AbandonedIsCancelled'
    BY <1>4 DEF CloseTab, AbandonedIsCancelled
  <2> QED BY <2>1, <2>2
<1>5. ASSUME UNCHANGED jobVars PROVE JobInv'
  BY <1>5 DEF jobVars, AbandonedIsCancelled
<1> QED BY <1>1, <1>2, <1>3, <1>4, <1>5 DEF JobStep

(* The type of the jobs' variables needs the invariant on jobs no more than what
   a step of the jobs does. *)
LEMMA JobTypeStep == JobsTypeOK /\ (JobStep \/ UNCHANGED jobVars) => JobsTypeOK'
<1> SUFFICES ASSUME JobsTypeOK, JobStep \/ UNCHANGED jobVars PROVE JobsTypeOK'
  OBVIOUS
<1> USE DEF JobsTypeOK, JobState
<1>1. ASSUME NEW j \in Jobs, StartJob(j) PROVE JobsTypeOK'
  BY <1>1 DEF StartJob
<1>2. ASSUME NEW j \in Jobs, NEW how \in {"Completed", "Faulted", "Aborted"}, EndWork(j, how)
      PROVE  JobsTypeOK'
  BY <1>2 DEF EndWork
<1>3. ASSUME Abort \/ CloseTab PROVE JobsTypeOK'
  BY <1>3 DEF Abort, CloseTab
<1>4. ASSUME UNCHANGED jobVars PROVE JobsTypeOK'
  BY <1>4 DEF jobVars
<1> QED BY <1>1, <1>2, <1>3, <1>4 DEF JobStep

LEMMA StartedStep == JobsTypeOK /\ StartedInv /\ (JobStep \/ UNCHANGED jobVars) => StartedInv'
<1> SUFFICES ASSUME JobsTypeOK, StartedInv, JobStep \/ UNCHANGED jobVars PROVE StartedInv'
  OBVIOUS
<1> USE DEF JobsTypeOK, StartedInv
<1>1. ASSUME NEW j \in Jobs, StartJob(j) PROVE StartedInv'
  BY <1>1 DEF StartJob
<1>2. ASSUME NEW j \in Jobs, NEW how \in {"Completed", "Faulted", "Aborted"}, EndWork(j, how)
      PROVE  StartedInv'
  BY <1>2 DEF EndWork
<1>3. ASSUME Abort \/ CloseTab PROVE StartedInv'
  BY <1>3 DEF Abort, CloseTab
<1>4. ASSUME UNCHANGED jobVars PROVE StartedInv'
  BY <1>4 DEF jobVars
<1> QED BY <1>1, <1>2, <1>3, <1>4 DEF JobStep
===============================================================================
