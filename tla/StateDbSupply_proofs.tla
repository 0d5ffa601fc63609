----------------------- MODULE StateDbSupply_proofs -------------------------
(***************************************************************************)
(* The supply, for any finite set of addresses and any denoms and amounts. *)
(* Sums over a finite set come first: induction over the naturals and over *)
(* the subsets of a finite set, stated as facts about sets.                *)
(***************************************************************************)
EXTENDS StateDb_proofs, FiniteSetTheorems, WellFoundedInduction

(* A nonempty set of naturals has a least element.                         *)
LEMMA LeastNatural ==
    ASSUME NEW S, S \subseteq Nat, S # {}
    PROVE  \E m \in S : \A x \in S : m <= x
<1> DEFINE R == OpToRel(<, Nat)
<1>1. IsWellFoundedOn(R, Nat)
  BY NatLessThanWellFounded, Zenon
<1>2. \A x, y \in Nat : x < y => <<x, y>> \in R
  BY DEF OpToRel
<1> HIDE DEF R
<1>3. PICK m \in S : \A y \in S : ~(<<y, m>> \in R)
  BY <1>1, WFMin, Zenon
<1>4. \A x \in S : ~(x < m)
  BY <1>2, <1>3, Zenon
<1> QED
  BY <1>4

(* Induction, as a fact about sets.                                        *)
LEMMA Induct ==
    ASSUME NEW S, 0 \in S, \A n \in Nat : n \in S => n + 1 \in S
    PROVE  Nat \subseteq S
<1> SUFFICES ASSUME Nat \ S # {} PROVE FALSE
  OBVIOUS
<1> DEFINE T == Nat \ S
<1>1. PICK m \in T : \A x \in T : m <= x
  <2> HIDE DEF T
  <2>1. T \subseteq Nat BY DEF T
  <2>2. T # {} BY DEF T
  <2> QED BY <2>1, <2>2, LeastNatural, Zenon
<1>2. m \in Nat /\ m # 0
  BY <1>1
<1>3. m - 1 \in S
  BY <1>1, <1>2
<1> QED
  BY <1>1, <1>2, <1>3

(* What is left is smaller by one.                                         *)
LEMMA Smaller ==
    ASSUME NEW A, IsFiniteSet(A), NEW S \in SUBSET A, S # {}
    PROVE  /\ Pick(S) \in S /\ Pick(S) \in A /\ S \ {Pick(S)} \in SUBSET A
           /\ Cardinality(S) \in Nat /\ Cardinality(S \ {Pick(S)}) = Cardinality(S) - 1
<1>1. Pick(S) \in S
  BY DEF Pick
<1>2. IsFiniteSet(S)
  BY FS_Subset
<1> QED
  BY <1>1, <1>2, FS_RemoveElement, FS_CardinalityType

(* Induction over the subsets, along the elements a sum takes.             *)
LEMMA SubsetInduct ==
    ASSUME NEW A, IsFiniteSet(A), NEW T, {} \in T,
           \A S \in SUBSET A : S # {} /\ S \ {Pick(S)} \in T => S \in T
    PROVE  SUBSET A \subseteq T
<1> DEFINE N == {n \in Nat : \A S \in SUBSET A : Cardinality(S) = n => S \in T}
<1>1. \A S \in SUBSET A : IsFiniteSet(S) /\ Cardinality(S) \in Nat /\ (Cardinality(S) = 0 <=> S = {})
  BY FS_Subset, FS_CardinalityType, FS_EmptySet
<1>2. 0 \in N
  BY <1>1
<1>3. ASSUME NEW n \in Nat, n \in N PROVE n + 1 \in N
  <2> SUFFICES ASSUME NEW S \in SUBSET A, Cardinality(S) = n + 1 PROVE S \in T
    BY <1>3
  <2>1. S # {} /\ (n + 1) - 1 = n
    BY <1>1
  <2>2. S \ {Pick(S)} \in SUBSET A /\ Cardinality(S \ {Pick(S)}) = n
    BY <2>1, Smaller
  <2>3. S \ {Pick(S)} \in T
    BY <1>3, <2>2
  <2> QED
    BY <2>1, <2>3
<1>4. Nat \subseteq N
  <2> HIDE DEF N
  <2> QED
    BY <1>2, <1>3, Induct
<1> QED
  BY <1>1, <1>4

(* The subsets of at most k elements, and a sum over each of them.         *)
Within(A, k) == {S \in SUBSET A : Cardinality(S) <= k}
Adds(g, f, D) == g = [S \in D |-> IF S = {} THEN 0 ELSE f[Pick(S)] + g[S \ {Pick(S)}]]

(* There are such sums, whatever the bound.                                *)
LEMMA AddsExist ==
    ASSUME NEW A, IsFiniteSet(A), NEW f, NEW n \in Nat
    PROVE  \E g : Adds(g, f, Within(A, n))
<1> DEFINE N == {k \in Nat : \E g : Adds(g, f, Within(A, k))}
<1>1. \A S \in SUBSET A : IsFiniteSet(S) /\ Cardinality(S) \in Nat /\ (Cardinality(S) = 0 <=> S = {})
  BY FS_Subset, FS_CardinalityType, FS_EmptySet
<1>2. 0 \in N
  <2>1. \A S \in Within(A, 0) : S = {}
    BY <1>1 DEF Within
  <2>2. Adds([S \in Within(A, 0) |-> 0], f, Within(A, 0))
    BY <2>1 DEF Adds
  <2> QED
    BY <2>2
<1>3. ASSUME NEW k \in Nat, k \in N PROVE k + 1 \in N
  <2>1. PICK g : Adds(g, f, Within(A, k))
    BY <1>3
  <2> DEFINE h == [S \in Within(A, k + 1) |-> IF S = {} THEN 0 ELSE f[Pick(S)] + g[S \ {Pick(S)}]]
  <2>2. \A S \in Within(A, k) : g[S] = IF S = {} THEN 0 ELSE f[Pick(S)] + g[S \ {Pick(S)}]
    BY <2>1, Zenon DEF Adds
  <2>3. \A S \in Within(A, k) : S \in Within(A, k + 1)
    BY <1>1 DEF Within
  <2>4. \A S \in Within(A, k) : h[S] = g[S]
    BY <2>2, <2>3
  <2>5. \A S \in Within(A, k + 1) : S # {} => S \ {Pick(S)} \in Within(A, k)
    BY <1>1, Smaller DEF Within
  <2>6. Adds(h, f, Within(A, k + 1))
    BY <2>4, <2>5, Zenon DEF Adds
  <2> QED
    BY <2>6
<1>4. Nat \subseteq N
  <2> HIDE DEF N
  <2> QED
    BY <1>2, <1>3, Induct
<1> QED
  BY <1>4

(* The equations of Sum: g has the sums of f over the subsets of A.        *)
SumsOf(g, f, A) ==
    /\ Sum(f, A) = g[A] /\ g[{}] = 0
    /\ \A S \in SUBSET A : S # {} => g[S] = f[Pick(S)] + g[S \ {Pick(S)}]

(* Such a g exists.                                                        *)
LEMMA SumIs ==
    ASSUME NEW A, IsFiniteSet(A), NEW f
    PROVE  \E g : SumsOf(g, f, A)
<1> DEFINE sum == CHOOSE g : Adds(g, f, SUBSET A)
<1>1. Sum(f, A) = sum[A]
  BY DEF Sum, Adds, Pick
<1>2. Within(A, Cardinality(A)) = SUBSET A /\ Cardinality(A) \in Nat
  BY FS_Subset, FS_CardinalityType DEF Within
<1>3. Adds(sum, f, SUBSET A)
  <2>1. \E g : Adds(g, f, Within(A, Cardinality(A)))
    BY <1>2, AddsExist, Zenon
  <2>2. \E g : Adds(g, f, SUBSET A)
    BY <1>2, <2>1, Zenon
  <2> QED
    BY <2>2, Zenon
<1> HIDE DEF sum
<1> QED
  BY <1>1, <1>3, Zenon DEF Adds, SumsOf

(* A sum of integers is one.                                               *)
LEMMA SumType ==
    ASSUME NEW A, IsFiniteSet(A), NEW f \in [A -> Int]
    PROVE  Sum(f, A) \in Int
<1>1. PICK g : SumsOf(g, f, A)
  BY SumIs, Zenon
<1> DEFINE T == {S \in SUBSET A : g[S] \in Int}
<1>2. {} \in T
  BY <1>1 DEF SumsOf
<1>3. ASSUME NEW S \in SUBSET A, S # {}, S \ {Pick(S)} \in T PROVE S \in T
  <2>1. Pick(S) \in A /\ g[S] = f[Pick(S)] + g[S \ {Pick(S)}]
    BY <1>1, <1>3, Smaller, Zenon DEF SumsOf
  <2>2. f[Pick(S)] \in Int /\ g[S \ {Pick(S)}] \in Int
    BY <1>3, <2>1
  <2> QED
    BY <2>1, <2>2
<1>4. SUBSET A \subseteq T
  <2> HIDE DEF T
  <2> QED
    BY <1>2, <1>3, SubsetInduct
<1> QED
  BY <1>1, <1>4 DEF SumsOf

(* A sum changes by what one summand changes.                              *)
LEMMA SumChange ==
    ASSUME NEW A, IsFiniteSet(A), NEW f \in [A -> Int], NEW e \in [A -> Int], NEW a \in A,
           \A x \in A : x # a => e[x] = f[x]
    PROVE  Sum(e, A) = (Sum(f, A) - f[a]) + e[a]
<1>1. PICK g : SumsOf(g, f, A)
  BY SumIs, Zenon
<1>2. PICK h : SumsOf(h, e, A)
  BY SumIs, Zenon
<1> DEFINE T == {S \in SUBSET A : /\ g[S] \in Int
                                  /\ h[S] = IF a \in S THEN (g[S] - f[a]) + e[a] ELSE g[S]}
<1>3. {} \in T
  BY <1>1, <1>2 DEF SumsOf
<1>4. ASSUME NEW S \in SUBSET A, S # {}, S \ {Pick(S)} \in T PROVE S \in T
  <2> DEFINE x == Pick(S)
             R == S \ {x}
  <2>1. x \in S /\ x \in A /\ R \in SUBSET A
    BY <1>4, Smaller, Zenon
  <2>2. g[S] = f[x] + g[R] /\ h[S] = e[x] + h[R]
    BY <1>1, <1>2, <1>4 DEF SumsOf
  <2>3. g[R] \in Int /\ h[R] = IF a \in R THEN (g[R] - f[a]) + e[a] ELSE g[R]
    BY <1>4
  <2>4. f[x] \in Int /\ f[a] \in Int /\ e[a] \in Int
    BY <2>1
  <2>5. CASE x = a
    BY <2>1, <2>2, <2>3, <2>4, <2>5
  <2>6. CASE x # a
    <3>1. e[x] = f[x] /\ (a \in S <=> a \in R)
      BY <2>1, <2>6
    <3> QED
      BY <2>2, <2>3, <2>4, <3>1
  <2> QED
    BY <2>5, <2>6
<1>5. SUBSET A \subseteq T
  <2> HIDE DEF T
  <2> QED
    BY <1>3, <1>4, SubsetInduct
<1> QED
  BY <1>1, <1>2, <1>5 DEF SumsOf

(***************************************************************************)
(* The supply.  A world is backed if what the addresses hold of each denom *)
(* adds up to its supply; each keeper call that moves, mints or burns      *)
(* coins keeps a world backed, and so does the whole of every method.      *)
(***************************************************************************)

(* What each address holds of a denom.                                     *)
Column(w, d) == [a \in Addrs |-> w.bal[a][d]]

LEMMA ColumnFacts ==
    ASSUME NEW w \in World, NEW d \in Denoms
    PROVE  /\ Column(w, d) \in [Addrs -> Int]
           /\ \A a \in Addrs : Column(w, d)[a] = w.bal[a][d] /\ w.bal[a][d] \in Int
           /\ Held(w, d) = Sum(Column(w, d), Addrs)
           /\ Held(w, d) \in Int /\ w.supply[d] \in Int
<1>1. /\ w.bal \in [Addrs -> [Denoms -> Nat]] /\ w.supply[d] \in Int
    BY WorldFields
<1>2. Column(w, d) \in [Addrs -> Int] /\ \A a \in Addrs : Column(w, d)[a] = w.bal[a][d] /\ w.bal[a][d] \in Int
    BY <1>1 DEF Column
<1>3. Held(w, d) = Sum(Column(w, d), Addrs)
    BY DEF Held, Column
<1>4. Sum(Column(w, d), Addrs) \in Int
    BY <1>2, SumType, StateDbAssumption
<1> QED BY <1>1, <1>2, <1>3, <1>4

(* One balance changes by as much as the supply.                           *)
LEMMA BackedByOne ==
    ASSUME NEW w \in World, NEW v \in World, NEW a \in Addrs, Backed(w),
           \A b \in Addrs \ {a} : v.bal[b] = w.bal[b],
           \A d \in Denoms : v.supply[d] - w.supply[d] = v.bal[a][d] - w.bal[a][d]
    PROVE  Backed(v)
<1> SUFFICES ASSUME NEW d \in Denoms PROVE v.supply[d] = Held(v, d)
    BY DEF Backed
<1> DEFINE x == v.bal[a][d]
           f == Column(w, d)
<1>1. f \in [Addrs -> Int] /\ f[a] = w.bal[a][d] /\ Held(w, d) = Sum(f, Addrs)
      /\ Held(w, d) \in Int /\ w.supply[d] \in Int /\ w.bal[a][d] \in Int
    BY ColumnFacts
<1>2. x \in Int /\ v.supply[d] \in Int /\ Held(v, d) = Sum(Column(v, d), Addrs)
    BY ColumnFacts
<1>3. Column(v, d) \in [Addrs -> Int] /\ Column(v, d)[a] = x
      /\ \A b \in Addrs : b # a => Column(v, d)[b] = f[b]
    BY ColumnFacts
<1>4. w.supply[d] = Held(w, d) /\ v.supply[d] - w.supply[d] = x - w.bal[a][d]
    BY DEF Backed
<1> HIDE DEF f, x
<1>5. Sum(Column(v, d), Addrs) = (Sum(f, Addrs) - f[a]) + x
    BY <1>1, <1>3, SumChange, StateDbAssumption
<1> QED BY <1>1, <1>2, <1>4, <1>5

(* Coins of one denom move between two addresses.                          *)
Moves(w, v, from, to, d, n) ==
    \A b \in Addrs, e \in Denoms :
        v.bal[b][e] = IF e = d /\ b = from THEN w.bal[b][e] - n
                      ELSE IF e = d /\ b = to THEN w.bal[b][e] + n ELSE w.bal[b][e]

LEMMA BackedByMove ==
    ASSUME NEW w \in World, NEW v \in World, Backed(w), v.supply = w.supply,
           NEW from \in Addrs, NEW to \in Addrs, from # to, NEW d \in Denoms, NEW n \in Nat,
           Moves(w, v, from, to, d, n)
    PROVE  Backed(v)
<1> SUFFICES ASSUME NEW e \in Denoms PROVE v.supply[e] = Held(v, e)
    BY DEF Backed
<1>1. w.supply[e] = Held(w, e) /\ Held(v, e) = Sum(Column(v, e), Addrs)
      /\ Held(w, e) = Sum(Column(w, e), Addrs) /\ Held(w, e) \in Int
    BY ColumnFacts DEF Backed
<1>2. CASE e # d
    <2>1. Column(v, e) = Column(w, e) BY <1>2 DEF Column, Moves
    <2> QED BY <1>1, <2>1
<1>3. CASE e = d
    <2> DEFINE f == Column(w, e)
               x == w.bal[from][e] - n
               y == w.bal[to][e] + n
               g == [f EXCEPT ![from] = x]
    <2>1. f \in [Addrs -> Int] /\ f[from] = w.bal[from][e] /\ f[to] = w.bal[to][e]
          /\ w.bal[from][e] \in Int /\ w.bal[to][e] \in Int
        BY ColumnFacts
    <2>2. x \in Int /\ y \in Int BY <2>1
    <2>3. Column(v, e) \in [Addrs -> Int] /\ Column(v, e)[to] = y
          /\ \A b \in Addrs : b # to => Column(v, e)[b] = g[b]
        BY <1>3, <2>1, ColumnFacts DEF Moves
    <2> HIDE DEF f, x, y
    <2>4. g \in [Addrs -> Int] /\ g[from] = x /\ g[to] = f[to]
          /\ \A b \in Addrs : b # from => g[b] = f[b]
        BY <2>1, <2>2
    <2> HIDE DEF g
    <2>5. Sum(g, Addrs) = (Sum(f, Addrs) - f[from]) + x
        BY <2>1, <2>4, SumChange, StateDbAssumption
    <2>6. Sum(Column(v, e), Addrs) = (Sum(g, Addrs) - g[to]) + y
        BY <2>3, <2>4, SumChange, StateDbAssumption
    <2> QED BY <1>1, <2>1, <2>4, <2>5, <2>6 DEF f, x, y
<1> QED BY <1>2, <1>3

(* Nothing of it changes.                                                  *)
LEMMA BackedStill ==
    ASSUME NEW w, NEW v, Backed(w), v.bal = w.bal, v.supply = w.supply
    PROVE  Backed(v)
BY DEF Backed, Held

(* createAccountIfNotExists.                                               *)
LEMMA CreateBacked ==
    ASSUME NEW w \in World, NEW a \in Addrs, Backed(w)
    PROVE  /\ createAccountIfNotExists(w, a) \in World
           /\ createAccountIfNotExists(w, a).bal = w.bal
           /\ createAccountIfNotExists(w, a).supply = w.supply
           /\ Backed(createAccountIfNotExists(w, a))
<1> DEFINE v == createAccountIfNotExists(w, a)
<1>1. v \in World /\ v.bal = w.bal /\ v.supply = w.supply
    <2>1. CASE w.acc[a] = NoAcc BY <2>1, CreateMissing, Zenon
    <2>2. CASE w.acc[a] # NoAcc BY <2>2 DEF createAccountIfNotExists
    <2> QED BY <2>1, <2>2
<1> HIDE DEF v
<1>2. Backed(v) BY <1>1, BackedStill, Zenon
<1> QED BY <1>1, <1>2 DEF v

(* mintCoins.                                                              *)
LEMMA MintBacked ==
    ASSUME NEW w \in World, NEW a \in Addrs, NEW coins \in [Denoms -> Nat], Backed(w)
    PROVE  Backed(mintCoins(w, a, coins))
<1>1. CASE coins = NoCoins BY <1>1 DEF mintCoins
<1>2. CASE coins # NoCoins
    <2> DEFINE u == createAccountIfNotExists(w, a)
               more == [d \in Denoms |-> w.bal[a][d] + coins[d]]
               total == [d \in Denoms |-> u.supply[d] + coins[d]]
               v == mintCoins(w, a, coins)
    <2>1. u \in World /\ u.bal = w.bal /\ u.supply = w.supply BY CreateBacked
    <2>2. v = [u EXCEPT !.bal[a] = more, !.supply = total] BY <1>2 DEF mintCoins
    <2>3. v \in World /\ \A b \in Addrs \ {a} : v.bal[b] = w.bal[b] BY <1>2, MintGives
    <2> HIDE DEF u, more, total, v
    <2>4. v.bal = [u.bal EXCEPT ![a] = more] /\ v.supply = total BY <2>1, <2>2, Zenon DEF World
    <2>5. v.bal[a] = more BY <2>1, <2>4, WorldFields
    <2>6. \A d \in Denoms : v.supply[d] - w.supply[d] = v.bal[a][d] - w.bal[a][d]
        <3> SUFFICES ASSUME NEW d \in Denoms PROVE v.supply[d] - w.supply[d] = v.bal[a][d] - w.bal[a][d]
            OBVIOUS
        <3>1. v.supply[d] = w.supply[d] + coins[d] BY <2>1, <2>4 DEF total
        <3>2. v.bal[a][d] = w.bal[a][d] + coins[d] BY <2>5 DEF more
        <3>3. w.supply[d] \in Int /\ w.bal[a][d] \in Int /\ coins[d] \in Int BY ColumnFacts
        <3> QED BY <3>1, <3>2, <3>3
    <2>7. Backed(v) BY <2>3, <2>6, BackedByOne
    <2> QED BY <2>7 DEF v
<1> QED BY <1>1, <1>2

(* burnCoins.                                                              *)
LEMMA BurnBacked ==
    ASSUME NEW w \in World, NEW a \in Addrs, NEW coins \in [Denoms -> Nat], Backed(w),
           \A d \in Denoms : coins[d] <= w.bal[a][d]
    PROVE  Backed(burnCoins(w, a, coins))
<1> DEFINE left == [d \in Denoms |-> w.bal[a][d] - coins[d]]
           total == [d \in Denoms |-> w.supply[d] - coins[d]]
           v == burnCoins(w, a, coins)
<1>1. v = [w EXCEPT !.bal[a] = left, !.supply = total] BY DEF burnCoins
<1>2. v \in World BY BurnKeepsWorld
<1> HIDE DEF left, total, v
<1>3. v.bal = [w.bal EXCEPT ![a] = left] /\ v.supply = total BY <1>1, Zenon DEF World
<1>4. v.bal[a] = left /\ \A b \in Addrs \ {a} : v.bal[b] = w.bal[b] BY <1>3, WorldFields
<1>5. \A d \in Denoms : v.supply[d] - w.supply[d] = v.bal[a][d] - w.bal[a][d]
    <2> SUFFICES ASSUME NEW d \in Denoms PROVE v.supply[d] - w.supply[d] = v.bal[a][d] - w.bal[a][d]
        OBVIOUS
    <2>1. v.supply[d] = w.supply[d] - coins[d] BY <1>3 DEF total
    <2>2. v.bal[a][d] = w.bal[a][d] - coins[d] BY <1>4 DEF left
    <2>3. w.supply[d] \in Int /\ w.bal[a][d] \in Int /\ coins[d] \in Int BY ColumnFacts
    <2> QED BY <2>1, <2>2, <2>3
<1>6. Backed(v) BY <1>2, <1>4, <1>5, BackedByOne
<1> QED BY <1>6 DEF v

(* DestroyAccount burns all the account has.                               *)
LEMMA DestroyBacked ==
    ASSUME NEW w \in World, NEW a \in Addrs, Backed(w)
    PROVE  Backed(DestroyAccount(w, a))
<1> DEFINE u == burnCoins(w, a, w.bal[a])
<1>1. w.bal[a] \in [Denoms -> Nat] /\ \A d \in Denoms : w.bal[a][d] <= w.bal[a][d] BY WorldFields
<1>2. Backed(u) BY <1>1, BurnBacked
<1>3. u \in World BY <1>1, BurnKeepsWorld
<1>4. DestroyAccount(w, a) = [u EXCEPT !.acc[a] = NoAcc, !.code[a] = NoCode, !.stor[a] = NoStorage]
    BY DEF DestroyAccount
<1> HIDE DEF u
<1>5. DestroyAccount(w, a).bal = u.bal /\ DestroyAccount(w, a).supply = u.supply
    BY <1>3, <1>4, Zenon DEF World
<1> QED BY <1>2, <1>5, BackedStill, Zenon

(* Every world a StateDB shows, has committed or may revert to is backed.  *)
AllBacked ==
    /\ Backed(store) /\ Backed(world)
    /\ \A i \in 1..Len(saved) : Backed(saved[i].w)

(* A panic or a discard goes back to the store.                            *)
LEMMA DropBacked ==
    ASSUME AllBacked, Drop
    PROVE  AllBacked'
<1>1. store' = store /\ world' = store /\ saved' = <<>> BY DEF Drop
<1>2. Len(saved') = 0 BY <1>1, EmptySeq, SMTT(60)
<1> QED BY <1>1, <1>2 DEF AllBacked

(* A method that panics or moves to a backed world.                        *)
LEMMA OperationBacked ==
    ASSUME AllBacked, NEW panics \in BOOLEAN, NEW w, NEW t, Operation(panics, w, t),
           ~panics => Backed(w)
    PROVE  AllBacked'
<1>1. CASE panics BY <1>1, DropBacked, SMTT(60) DEF Operation
<1>2. CASE ~panics
    <2>1. world' = w /\ store' = store /\ saved' = saved BY <1>2 DEF Operation
    <2>2. Backed(world') BY <1>2, <2>1, Zenon
    <2> QED BY <2>1, <2>2 DEF AllBacked
<1> QED BY <1>1, <1>2

(* A method that writes accounts, code or storage, but no coins.           *)
LEMMA PlainBacked ==
    ASSUME NEW w \in World, Backed(w), NEW a \in Addrs, NEW v,
           LET u == createAccountIfNotExists(w, a)
           IN  v.bal = u.bal /\ v.supply = u.supply
    PROVE  Backed(v)
<1>1. v.bal = w.bal /\ v.supply = w.supply BY CreateBacked
<1> QED BY <1>1, BackedStill, Zenon

(* The ERC-20 transfer.                                                    *)
LEMMA TransferBacked ==
    ASSUME NEW w \in World, Backed(w), NEW from \in Addrs, NEW to \in Addrs, from # to,
           NEW d \in Denoms, NEW n \in Nat, n <= w.bal[from][d]
    PROVE  Backed([createAccountIfNotExists(w, to) EXCEPT
                     !.bal[from][d] = @ - n, !.bal[to][d] = @ + n])
<1> DEFINE u == createAccountIfNotExists(w, to)
           v == [u EXCEPT !.bal[from][d] = @ - n, !.bal[to][d] = @ + n]
           bal == [[u.bal EXCEPT ![from][d] = @ - n] EXCEPT ![to][d] = @ + n]
<1>1. u \in World /\ u.bal = w.bal /\ u.supply = w.supply /\ Backed(u) BY CreateBacked
<1> HIDE DEF u
<1>2. u.bal \in [Addrs -> [Denoms -> Nat]] /\ n <= u.bal[from][d] BY <1>1, WorldFields
<1>3. v = [u EXCEPT !.bal = bal] BY <1>1, Zenon DEF World
<1>4. \A b \in Addrs, e \in Denoms :
        bal[b][e] = IF e = d /\ b = from THEN u.bal[b][e] - n
                    ELSE IF e = d /\ b = to THEN u.bal[b][e] + n ELSE u.bal[b][e]
    BY <1>2
<1>5. bal \in [Addrs -> [Denoms -> Nat]]
    BY <1>2
<1> HIDE DEF bal, v
<1>6. v \in World /\ v.bal = bal /\ v.supply = u.supply BY <1>1, <1>3, <1>5, Zenon DEF World
<1>7. Moves(u, v, from, to, d, n) BY <1>4, <1>6 DEF Moves
<1>8. Backed(v) BY <1>1, <1>6, <1>7, BackedByMove
<1> QED BY <1>8 DEF v, u

(* Every method that changes the world.                                    *)
LEMMA WorldOpBacked ==
    ASSUME IInv, AllBacked, WorldOp
    PROVE  AllBacked'
<1>0. world \in World /\ Backed(world) /\ \A a \in Addrs : world.bal[a] \in [Denoms -> Nat]
    BY WorldFields DEF IInv, TypeOK, AllBacked
<1>1. ASSUME NEW a \in Addrs, CreateAccount(a) PROVE AllBacked'
    <2> DEFINE e == DestroyAccount(world, a)
               v == createAccountIfNotExists(e, a)
               w == mintCoins(v, a, world.bal[a])
               t == [Touch(a) EXCEPT !.born = @ \cup {a}]
               panics == DestroyFails(world, a) \/ MintFails(a, world.bal[a])
    <2>1. Operation(panics, w, t) BY <1>1 DEF CreateAccount
    <2>2. panics \in BOOLEAN BY DEF DestroyFails, MintFails
    <2>3. e \in World /\ Backed(e) BY <1>0, DestroyLeavesNothing, DestroyBacked, Zenon
    <2> HIDE DEF e
    <2>4. v \in World /\ Backed(v) BY <2>3, CreateBacked
    <2> HIDE DEF v
    <2>5. Backed(w) BY <1>0, <2>4, MintBacked
    <2> HIDE DEF w, t, panics
    <2> QED BY <2>1, <2>2, <2>5, OperationBacked
<1>2. ASSUME NEW a \in Addrs, NEW n \in Nat, n <= world.bal[a][EvmDenom]
      PROVE  Backed(burnCoins(world, a, EvmCoins(n)))
    <2>1. EvmCoins(n) \in [Denoms -> Nat] BY EvmCoinsType
    <2>2. \A d \in Denoms : EvmCoins(n)[d] <= world.bal[a][d] BY <1>0, <1>2, EvmCoinsType
    <2> QED BY <1>0, <2>1, <2>2, BurnBacked
<1>3. ASSUME NEW a \in Addrs, Suicide(a) PROVE AllBacked'
    <2> DEFINE n == world.bal[a][EvmDenom]
               panics == n > 0 /\ SpendableCoins(world, a, EvmDenom) < n
               t == [Touch(a) EXCEPT !.destructed = @ \cup {a}]
    <2>1. CASE world.acc[a] = NoAcc
        <3>1. Operation(FALSE, world, Touch(a)) BY <1>3, <2>1, Zenon DEF Suicide
        <3> QED BY <1>0, <3>1, OperationBacked, Zenon
    <2>2. CASE world.acc[a] # NoAcc
        <3>1. Operation(panics, burnCoins(world, a, EvmCoins(n)), t) BY <1>3, <2>2 DEF Suicide
        <3>2. n \in Nat /\ n <= n BY <1>0, StateDbAssumption
        <3>3. Backed(burnCoins(world, a, EvmCoins(n))) BY <1>2, <3>2
        <3>4. panics \in BOOLEAN OBVIOUS
        <3> HIDE DEF panics, n, t
        <3> QED BY <3>1, <3>3, <3>4, OperationBacked
    <2> QED BY <2>1, <2>2
<1>4. ASSUME NEW a \in Addrs, NEW n \in Amounts, SubBalance(a, n) PROVE AllBacked'
    <2> DEFINE panics == n > 0 /\ SpendableCoins(world, a, EvmDenom) < n
    <2>1. /\ Operation(panics, burnCoins(world, a, EvmCoins(n)), Touch(a))
          /\ n <= world.bal[a][EvmDenom]
        BY <1>4 DEF SubBalance
    <2>2. n \in Nat BY StateDbAssumption
    <2>3. Backed(burnCoins(world, a, EvmCoins(n))) BY <1>2, <2>1, <2>2
    <2>4. panics \in BOOLEAN OBVIOUS
    <2> HIDE DEF panics
    <2> QED BY <2>1, <2>3, <2>4, OperationBacked
<1>5. ASSUME NEW a \in Addrs, NEW n \in Amounts, AddBalance(a, n) PROVE AllBacked'
    <2> DEFINE panics == MintFails(a, EvmCoins(n))
    <2>1. Operation(panics, mintCoins(world, a, EvmCoins(n)), Touch(a)) BY <1>5 DEF AddBalance
    <2>2. EvmCoins(n) \in [Denoms -> Nat] BY EvmCoinsType, StateDbAssumption
    <2>3. Backed(mintCoins(world, a, EvmCoins(n))) BY <1>0, <2>2, MintBacked
    <2>4. panics \in BOOLEAN BY DEF MintFails
    <2> HIDE DEF panics
    <2> QED BY <2>1, <2>3, <2>4, OperationBacked
<1>6. ASSUME NEW a \in Addrs, NEW n \in Nonces, SetNonce(a, n) PROVE AllBacked'
    <2> DEFINE u == createAccountIfNotExists(world, a)
               w == [u EXCEPT !.acc[a].seq = n]
    <2>1. Operation(FALSE, w, Touch(a)) BY <1>6, Zenon DEF SetNonce
    <2>2. u \in World BY <1>0, CreateBacked
    <2>3. w.bal = u.bal /\ w.supply = u.supply BY <2>2, Zenon DEF World
    <2> HIDE DEF w
    <2>4. Backed(w) BY <1>0, <2>3, PlainBacked
    <2> QED BY <2>1, <2>4, OperationBacked, Zenon
<1>7. ASSUME NEW a \in Addrs, NEW c \in Codes \cup {NoCode}, SetCode(a, c) PROVE AllBacked'
    <2> DEFINE u == createAccountIfNotExists(world, a)
               w == [u EXCEPT !.code[a] = c]
    <2>1. Operation(FALSE, w, Touch(a)) BY <1>7, Zenon DEF SetCode
    <2>2. u \in World BY <1>0, CreateBacked
    <2>3. w.bal = u.bal /\ w.supply = u.supply BY <2>2, Zenon DEF World
    <2> HIDE DEF w
    <2>4. Backed(w) BY <1>0, <2>3, PlainBacked
    <2> QED BY <2>1, <2>4, OperationBacked, Zenon
<1>8. ASSUME NEW a \in Addrs, NEW s \in Slots, NEW x \in Words, SetState(a, s, x)
      PROVE  AllBacked'
    <2> DEFINE u == createAccountIfNotExists(world, a)
               w == [u EXCEPT !.stor[a][s] = x]
    <2>1. Operation(FALSE, w, Touch(a)) BY <1>8, Zenon DEF SetState
    <2>2. u \in World BY <1>0, CreateBacked
    <2>3. w.bal = u.bal /\ w.supply = u.supply BY <2>2, Zenon DEF World
    <2> HIDE DEF w
    <2>4. Backed(w) BY <1>0, <2>3, PlainBacked
    <2> QED BY <2>1, <2>4, OperationBacked, Zenon
<1>9. ASSUME NEW from \in Addrs, NEW to \in Addrs, NEW d \in Denoms, NEW n \in Amounts,
             NEW l \in Logs, Erc20Transfer(from, to, d, n, l)
      PROVE  AllBacked'
    <2> DEFINE t == [trk EXCEPT !.logs = Append(@, l)]
               moved == [createAccountIfNotExists(world, to) EXCEPT
                           !.bal[from][d] = @ - n, !.bal[to][d] = @ + n]
               w == IF n > 0 /\ from # to THEN moved ELSE world
    <2>1. Operation(FALSE, w, t) BY <1>9, Zenon DEF Erc20Transfer
    <2>2. n <= world.bal[from][d] /\ n \in Nat BY <1>9, StateDbAssumption DEF Erc20Transfer
    <2>3. from # to => Backed(moved) BY <1>0, <2>2, TransferBacked, Zenon
    <2> HIDE DEF moved
    <2>4. Backed(w) BY <1>0, <2>3
    <2> HIDE DEF w, t
    <2> QED BY <2>1, <2>4, OperationBacked, Zenon
<1> QED BY <1>1, <1>3, <1>4, <1>5, <1>6, <1>7, <1>8, <1>9 DEF WorldOp, Selfdestruct6780

(* The methods of the trackers leave the world as it is, or panic.         *)
LEMMA TrackerOpBacked ==
    ASSUME IInv, AllBacked, TrackerOp
    PROVE  AllBacked'
<1>0. ASSUME NEW panics, NEW t, Operation(panics, world, t) PROVE AllBacked'
    <2>1. Drop \/ UNCHANGED <<store, world, saved>> BY <1>0, Zenon DEF Operation
    <2>2. CASE Drop BY <2>2, DropBacked
    <2>3. CASE UNCHANGED <<store, world, saved>> BY <2>3 DEF AllBacked
    <2> QED BY <2>1, <2>2, <2>3
<1>1. ASSUME NEW a \in Addrs, AddAddressToAccessList(a) PROVE AllBacked'
    BY <1>0, <1>1, Zenon DEF AddAddressToAccessList
<1>2. ASSUME NEW a \in Addrs, NEW s \in Slots, AddSlotToAccessList(a, s) PROVE AllBacked'
    BY <1>0, <1>2, Zenon DEF AddSlotToAccessList
<1>3. ASSUME NEW a \in Addrs, NEW s \in Slots, NEW x \in Words, SetTransientState(a, s, x)
      PROVE  AllBacked'
    BY <1>0, <1>3, Zenon DEF SetTransientState
<1>4. ASSUME NEW a, NEW dst, NEW list, PrepareAccessList(a, dst, list) PROVE AllBacked'
    BY <1>0, <1>4, Zenon DEF PrepareAccessList
<1>5. ASSUME NEW g \in Gas, AddRefund(g) \/ SubRefund(g) PROVE AllBacked'
    BY <1>0, <1>5, Zenon DEF AddRefund, SubRefund
<1>6. ASSUME NEW l \in Logs, AddLog(l) PROVE AllBacked'
    BY <1>0, <1>6, Zenon DEF AddLog
<1> QED BY <1>1, <1>2, <1>3, <1>4, <1>5, <1>6, Zenon DEF TrackerOp

(* Snapshots, the commit loop and the rest.                                *)
LEMMA LifecycleBacked ==
    ASSUME IInv, AllBacked, Lifecycle
    PROVE  AllBacked'
<1>0. /\ world \in World /\ saved \in Seq([w : World, t : Trackers]) /\ Len(saved) \in Nat
      /\ Backed(store) /\ Backed(world) /\ \A i \in 1..Len(saved) : Backed(saved[i].w)
    BY LenProperties DEF IInv, TypeOK, AllBacked
<1>1. CASE Snapshot
    <2>1. saved' = Append(saved, Live(world, trk)) /\ store' = store /\ world' = world
        BY <1>1, SMTT(60) DEF Snapshot
    <2>2. Live(world, trk) \in [w : World, t : Trackers] /\ Live(world, trk).w = world
        BY DEF IInv, TypeOK, Live
    <2>3. /\ Len(saved') = Len(saved) + 1 /\ saved'[Len(saved) + 1] = Live(world, trk)
          /\ \A i \in 1..Len(saved) : saved'[i] = saved[i]
        BY <1>0, <2>1, <2>2, AppendProperties, SMTT(60)
    <2>4. \A i \in 1..Len(saved') : Backed(saved'[i].w) BY <1>0, <2>2, <2>3
    <2> QED BY <1>0, <2>1, <2>4 DEF AllBacked
<1>2. CASE \E id \in 0..MaxSnapshots : RevertToSnapshot(id)
    <2>1. PICK id \in 0..MaxSnapshots : RevertToSnapshot(id) BY <1>2
    <2>2. /\ id \in Nat /\ id + 1 \in 1..Len(saved) /\ store' = store
          /\ world' = saved[id + 1].w /\ saved' = SubSeq(saved, 1, id + 1)
        BY <1>0, <2>1, StateDbAssumption DEF RevertToSnapshot
    <2>3. Len(saved') = id + 1 /\ \A i \in 1..(id + 1) : saved'[i] = saved[i]
        BY <1>0, <2>2
    <2>4. \A i \in 1..Len(saved') : Backed(saved'[i].w) BY <1>0, <2>2, <2>3
    <2>5. Backed(world') BY <1>0, <2>2
    <2> QED BY <1>0, <2>2, <2>4, <2>5 DEF AllBacked
<1>3. ASSUME NEW a \in Addrs, VisitTouched(a) PROVE AllBacked'
    <2>1. CASE Drop BY <2>1, DropBacked
    <2>2. CASE ~Drop
        <3>1. /\ world' = IF Doomed(world, trk, a) THEN DestroyAccount(world, a) ELSE world
              /\ store' = store /\ saved' = saved
            BY <1>3, <2>2, Zenon DEF VisitTouched
        <3>2. Backed(world') BY <1>0, <3>1, DestroyBacked, Zenon
        <3> QED BY <1>0, <3>1, <3>2 DEF AllBacked
    <2> QED BY <2>1, <2>2
<1>4. CASE WriteChanges \/ NewStateDB
    <2>1. /\ store' \in {store, world} /\ world' \in {store, world} /\ saved' = <<>>
        BY <1>4, Zenon DEF WriteChanges, NewStateDB
    <2>2. Len(saved') = 0 BY <2>1, EmptySeq, SMTT(60)
    <2>3. Backed(store') /\ Backed(world') BY <1>0, <2>1
    <2> QED BY <2>2, <2>3 DEF AllBacked
<1>5. CASE CommitMultiStore \/ ClockPassesVestingEnd
    <2>1. store' = store /\ world' = world /\ saved' = saved
        BY <1>5, Zenon DEF CommitMultiStore, ClockPassesVestingEnd
    <2> QED BY <1>0, <2>1 DEF AllBacked
<1>6. CASE Discard BY <1>6, DropBacked, Zenon DEF Discard
<1> QED BY <1>1, <1>2, <1>3, <1>4, <1>5, <1>6, Zenon DEF Lifecycle

(* Minting and burning through the evm module account, CreateAccount,      *)
(* Suicide, DestroyAccount, the transfers of a precompile and every revert *)
(* keep the supply of each denom equal to what the addresses hold.         *)
THEOREM SupplyRight == Spec => []SupplyBacked
<1>1. Init => AllBacked
    <2> SUFFICES ASSUME Init PROVE AllBacked OBVIOUS
    <2>1. store \in Genesis /\ world = store /\ saved = <<>> BY Zenon DEF Init
    <2>2. Backed(store) BY <2>1, GenesisAssumption, Zenon
    <2>3. Len(saved) = 0 BY <2>1, EmptySeq, SMTT(60)
    <2> QED BY <2>1, <2>2, <2>3 DEF AllBacked
<1>2. IInv /\ AllBacked /\ [Next]_vars => AllBacked'
    <2> SUFFICES ASSUME IInv, AllBacked, [Next]_vars PROVE AllBacked' OBVIOUS
    <2>1. CASE UNCHANGED vars
        <3>1. store' = store /\ world' = world /\ saved' = saved BY <2>1, Zenon DEF vars
        <3> QED BY <3>1 DEF AllBacked
    <2> QED BY <2>1, WorldOpBacked, TrackerOpBacked, LifecycleBacked, Zenon DEF Next
<1>3. AllBacked => SupplyBacked BY DEF AllBacked, SupplyBacked
<1> QED BY <1>1, <1>2, <1>3, InitIInv, NextIInv, PTL DEF Spec

=============================================================================
