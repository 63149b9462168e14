------------------------------ MODULE Recursion ------------------------------
(***************************************************************************)
(* Functions that are defined by recursion: the value at v is Body(v, f),  *)
(* which looks at the function f only at elements of a smaller rank.  An   *)
(* instance of this module with the set, the rank and the body of such a   *)
(* definition gives the equation it was meant to state.                    *)
(***************************************************************************)
EXTENDS Naturals, FiniteSetTheorems, WellFoundedInduction, TLAPS

CONSTANTS S, Rank(_), Body(_, _)

F[v \in S] == Body(v, F)

\* The elements below a rank, and a function that solves the equation there.
Below(n) == {v \in S : Rank(v) < n}
Solves(f, n) == f = [v \in Below(n) |-> Body(v, f)]
Solution(n) == CHOOSE f : Solves(f, n)

\* A set of numbers that is not empty has a least one.
LEMMA LeastRank ==
    ASSUME NEW T \in SUBSET Nat, T # {}
    PROVE  \E x \in T : \A y \in T : x <= y
<1> DEFINE Upto == {1 .. n : n \in T}
<1>1. Upto \subseteq FiniteSubsetsOf(Nat)
  BY FS_Interval DEF FiniteSubsetsOf
<1>2. Upto # {}
  OBVIOUS
<1>3. PICK A \in Upto : \A B \in Upto : ~(<<B, A>> \in StrictSubsetOrdering(Nat))
  BY <1>1, <1>2, WFMin, FS_StrictSubsetOrderingWellFounded
<1>4. PICK x \in T : A = 1 .. x
  BY <1>3
<1>5. ASSUME NEW y \in T PROVE x <= y
  <2>1. ~(<<1 .. y, 1 .. x>> \in StrictSubsetOrdering(Nat))
    BY <1>3, <1>4
  <2>2. SUFFICES ASSUME y < x PROVE FALSE
    OBVIOUS
  <2>3. 1 .. y \subseteq 1 .. x /\ x \in 1 .. x /\ x \notin 1 .. y
    BY <2>2
  <2> QED BY <2>1, <2>3 DEF StrictSubsetOrdering
<1> QED BY <1>5

\* Two functions that solve the equation agree as far as both do.
LEMMA SolutionsAgree ==
    ASSUME \A v \in S : Rank(v) \in Nat,
           \A v \in S : \A f, g :
             (\A w \in S : Rank(w) < Rank(v) => f[w] = g[w]) => Body(v, f) = Body(v, g),
           NEW m \in Nat, NEW n \in Nat, m <= n, NEW f, NEW g, Solves(f, m), Solves(g, n)
    PROVE  \A v \in Below(m) : f[v] = g[v]
<1> DEFINE Differ == {v \in Below(m) : f[v] # g[v]}
           Ranks  == {Rank(v) : v \in Differ}
<1>1. SUFFICES ASSUME Differ # {} PROVE FALSE
  OBVIOUS
<1>2. Ranks \in SUBSET Nat /\ Ranks # {}
  BY <1>1 DEF Below
<1>3. PICK x \in Ranks : \A y \in Ranks : x <= y
  BY <1>2, LeastRank
<1>4. PICK v \in Differ : x = Rank(v)
  OBVIOUS
<1>5. ASSUME NEW w \in S, Rank(w) < Rank(v) PROVE f[w] = g[w]
  <2>1. v \in S /\ Rank(v) \in Nat /\ Rank(w) \in Nat /\ Rank(v) < m
    BY DEF Below
  <2>2. w \in Below(m)
    BY <1>5, <2>1 DEF Below
  <2>3. w \in Differ => x <= Rank(w)
    BY <1>3
  <2> QED BY <1>4, <1>5, <2>1, <2>2, <2>3
<1>6. v \in S /\ v \in Below(m) /\ v \in Below(n)
  BY DEF Below
<1>7. Body(v, f) = Body(v, g)
  BY <1>5, <1>6
<1>8. f[v] = Body(v, f) /\ g[v] = Body(v, g)
  BY <1>6 DEF Solves
<1> QED BY <1>7, <1>8

\* The equation has a solution below every rank.
LEMMA Solvable ==
    ASSUME \A v \in S : Rank(v) \in Nat,
           \A v \in S : \A f, g :
             (\A w \in S : Rank(w) < Rank(v) => f[w] = g[w]) => Body(v, f) = Body(v, g)
    PROVE  \A n \in Nat : Solves(Solution(n), n)
<1> DEFINE Open == {n \in Nat : ~\E f : Solves(f, n)}
<1>1. SUFFICES ASSUME Open # {} PROVE FALSE
  BY DEF Solution
<1>2. PICK n \in Open : \A k \in Open : n <= k
  BY <1>1, LeastRank
<1>3. n # 0
  <2>1. Below(0) = {}
    BY DEF Below
  <2>2. Solves([v \in {} |-> v], 0)
    BY <2>1 DEF Solves
  <2> QED BY <2>2
<1>4. PICK f : Solves(f, n - 1)
  <2>1. n - 1 \in Nat /\ ~(n <= n - 1)
    BY <1>3
  <2> QED BY <1>2, <2>1
<1> DEFINE g == [v \in Below(n) |-> Body(v, f)]
<1>5. \A w \in Below(n - 1) : g[w] = f[w]
  <2>1. ASSUME NEW w \in Below(n - 1) PROVE w \in Below(n)
    BY <1>3 DEF Below
  <2> QED BY <1>4, <2>1 DEF Solves
<1>6. ASSUME NEW v \in Below(n) PROVE Body(v, f) = Body(v, g)
  <2>1. v \in S /\ Rank(v) \in Nat /\ Rank(v) < n
    BY DEF Below
  <2>2. ASSUME NEW w \in S, Rank(w) < Rank(v) PROVE f[w] = g[w]
    <3>1. Rank(w) \in Nat /\ Rank(w) < n - 1
      BY <1>3, <2>1, <2>2
    <3>2. w \in Below(n - 1)
      BY <3>1 DEF Below
    <3> QED BY <1>5, <3>2
  <2> HIDE DEF g
  <2> QED BY <2>1, <2>2
<1>7. Solves(g, n)
  <2>1. g = [v \in Below(n) |-> Body(v, g)]
    <3> DEFINE h == [v \in Below(n) |-> Body(v, g)]
    <3>1. \A v \in Below(n) : h[v] = Body(v, f)
      BY <1>6
    <3>2. DOMAIN h = Below(n)
      OBVIOUS
    <3> QED BY <1>6
  <2> QED BY <2>1 DEF Solves
<1> QED BY <1>7

\* The function is what its definition says: so the solutions below the ranks fit together.
THEOREM Unfold ==
    ASSUME \A v \in S : Rank(v) \in Nat,
           \A v \in S : \A f, g :
             (\A w \in S : Rank(w) < Rank(v) => f[w] = g[w]) => Body(v, f) = Body(v, g)
    PROVE  F = [v \in S |-> Body(v, F)]
<1> DEFINE G == [v \in S |-> Body(v, Solution(Rank(v)))]
<1>1. ASSUME NEW v \in S, NEW w \in S, Rank(w) < Rank(v) PROVE Solution(Rank(v))[w] = G[w]
  <2>1. Solves(Solution(Rank(v)), Rank(v)) /\ Solves(Solution(Rank(w)), Rank(w))
    BY Solvable
  <2>2. Solution(Rank(v))[w] = Body(w, Solution(Rank(v)))
    <3>1. w \in Below(Rank(v))
      BY <1>1 DEF Below
    <3> QED BY <2>1, <3>1 DEF Solves
  <2>3. \A u \in Below(Rank(w)) : Solution(Rank(w))[u] = Solution(Rank(v))[u]
    <3>1. Rank(w) \in Nat /\ Rank(v) \in Nat /\ Rank(w) <= Rank(v)
      BY <1>1
    <3> QED BY <2>1, <3>1, SolutionsAgree
  <2>4. Body(w, Solution(Rank(w))) = Body(w, Solution(Rank(v)))
    BY <2>3 DEF Below
  <2> QED BY <2>2, <2>4
<1>2. \A v \in S : Body(v, Solution(Rank(v))) = Body(v, G)
  <2> HIDE DEF G
  <2> QED BY <1>1
<1>3. G = [v \in S |-> Body(v, G)]
  BY <1>2
<1>4. F = CHOOSE f : f = [v \in S |-> Body(v, f)]
  BY DEF F
<1> HIDE DEF G
<1> QED BY <1>3, <1>4
=============================================================================
