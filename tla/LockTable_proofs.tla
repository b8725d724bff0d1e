-------------------------- MODULE LockTable_proofs --------------------------
(***************************************************************************)
(* Proofs about LockTable for any threads, any modes they ask for and any  *)
(* bounds: the entry outlives those that use it, and no two threads hold   *)
(* conflicting modes, unless a sleeper that was granted its lock is        *)
(* cancelled and dequeued a second time, which assertions do not let pass. *)
(*                                                                         *)
(* Neither is inductive.  HASH_REMOVE looks at two counters only, so that  *)
(* the entry stays for its users has to be read off the counters: every    *)
(* thread has a claim on lock->refs, what it may still give back with      *)
(* HASH_FIND, or a share in lock->removing, and the counters cover the     *)
(* sums.  A sleeper granted its mode by somebody else's walk has its claim *)
(* turned into a hold by a step it does not take, so what the place of a   *)
(* thread says depends on whether it is still in the queue.  Grants go by  *)
(* activeHolders, nActive and nHolding of the lock, which are the sums of  *)
(* what the threads hold and wait for as long as nobody is counted off     *)
(* twice.                                                                  *)
(*                                                                         *)
(* First come lemmas about the operators of LockTable: what the sums of    *)
(* holders come to, and what the walks of ThreadEnqueue, ThreadLockWakeup  *)
(* and ThreadDequeue along the queue leave.  A fold is a recursion over the *)
(* subsets of a finite set; SubsetInduction is the induction for it, from  *)
(* the least cardinality that would fail.                                  *)
(***************************************************************************)
EXTENDS LockTable, FiniteSetTheorems, SequenceTheorems, WellFoundedInduction, TLAPS

-----------------------------------------------------------------------------
(* Induction over the subsets of a finite set, and what it gives for the   *)
(* folds the model is built from.                                          *)

\* A set of numbers that is not empty has a least one.
LEMMA LeastNumber ==
  ASSUME NEW B \in SUBSET Nat, B # {}
  PROVE  \E n \in B : \A k \in B : n <= k
<1>1. PICK n \in B : \A k \in B : ~(<<k, n>> \in OpToRel(<, Nat))
  BY NatLessThanWellFounded, WFMin, Zenon
<1>2. \A k \in B : n <= k
  <2> TAKE k \in B
  <2>1. ~(k < n)
    BY <1>1, Zenon DEF OpToRel
  <2> QED
    BY <2>1
<1> QED
  BY <1>2, Zenon

\* What holds of {} and is passed on by adding some element holds of all subsets.
LEMMA SubsetInduction ==
  ASSUME NEW S, IsFiniteSet(S), NEW G, {} \in G,
         \A s \in SUBSET S : s # {} => \E x \in s : s \ {x} \in G => s \in G
  PROVE  \A s \in SUBSET S : s \in G
<1> DEFINE B == {n \in Nat : \E s \in SUBSET S : Cardinality(s) = n /\ s \notin G}
<1> SUFFICES ASSUME NEW s0 \in SUBSET S, s0 \notin G PROVE FALSE
  BY Zenon
<1>1. \A s \in SUBSET S : IsFiniteSet(s) /\ Cardinality(s) \in Nat
  BY FS_Subset, FS_CardinalityType, Zenon
<1>2. B \in SUBSET Nat /\ B # {}
  BY <1>1, Zenon
<1>3. PICK n \in B : \A k \in B : n <= k
  BY <1>2, LeastNumber, Zenon
<1>4. PICK s \in SUBSET S : Cardinality(s) = n /\ s \notin G
  BY Zenon
<1>a. n \in Nat
  BY <1>2, Zenon
<1>b. \A k \in Nat : \A r \in SUBSET S : Cardinality(r) = k /\ r \notin G => k \in B
  BY Zenon
<1> HIDE DEF B
<1>5. s # {}
  <2>1. \A r : r = {} => r \in G
    OBVIOUS
  <2> QED
    BY <2>1, <1>4, Zenon
<1>6. PICK x \in s : s \ {x} \in G => s \in G
  BY <1>5, Zenon
<1>7. Cardinality(s \ {x}) = n - 1 /\ n \in Nat /\ n # 0
  <2>1. IsFiniteSet(s) /\ Cardinality(s) # 0
    BY <1>1, <1>5, FS_EmptySet, Zenon
  <2>2. Cardinality(s \ {x}) = Cardinality(s) - 1
    BY <2>1, FS_RemoveElement, Zenon
  <2> QED
    BY <2>1, <2>2, <1>4, <1>a, Zenon
<1>8. s \ {x} \notin G /\ s \ {x} \in SUBSET S
  BY <1>4, <1>6, Zenon
<1>9. n - 1 \in Nat /\ n - 1 \in B
  <2>1. n - 1 \in Nat
    BY <1>7
  <2> QED
    BY <2>1, <1>7, <1>8, <1>b, Zenon
<1> QED
  BY <1>3, <1>7, <1>9

\* The function a fold recurs on exists.
FoldsTo(it, S, V, base, pick, step) ==
  /\ it \in [S -> V]
  /\ \A s \in S : it[s] = IF s = {} THEN base ELSE step[pick[s], it[s \ {pick[s]}]]

\* A step on the picked element and the result of the rest defines a function.
LEMMA FoldExists ==
  ASSUME NEW S, IsFiniteSet(S), NEW V, NEW base \in V, NEW pick,
         \A s \in SUBSET S : s # {} => pick[s] \in s,
         NEW step \in [S \X V -> V]
  PROVE  \E it : FoldsTo(it, SUBSET S, V, base, pick, step)
<1> DEFINE Sub(n) == {s \in SUBSET S : Cardinality(s) <= n}
           B == {n \in Nat : ~\E it : FoldsTo(it, Sub(n), V, base, pick, step)}
<1>1. \A s \in SUBSET S : IsFiniteSet(s) /\ Cardinality(s) \in Nat
  BY FS_Subset, FS_CardinalityType, Zenon
<1>2. \A s \in SUBSET S : s # {} =>
        /\ pick[s] \in S /\ s \ {pick[s]} \in SUBSET S
        /\ Cardinality(s) # 0 /\ Cardinality(s \ {pick[s]}) = Cardinality(s) - 1
  BY <1>1, FS_RemoveElement, FS_EmptySet, Zenon
<1>3. Cardinality({}) = 0
  BY FS_EmptySet, Zenon
<1>a. B \in SUBSET Nat
  BY Zenon
<1>b. \A n \in B : ~\E it : FoldsTo(it, Sub(n), V, base, pick, step)
  BY Zenon
<1>c. \A n \in Nat : n \notin B => \E it : FoldsTo(it, Sub(n), V, base, pick, step)
  BY Zenon
<1> HIDE DEF B
<1>4. B = {}
  <2> SUFFICES ASSUME B # {} PROVE FALSE
    BY Zenon
  <2>1. PICK n \in B : \A k \in B : n <= k
    BY <1>a, LeastNumber, Zenon
  <2>2. n \in Nat
    BY <1>a, Zenon
  <2>3. CASE n = 0
    <3> DEFINE it == [s \in Sub(0) |-> base]
    <3>1. \A s \in Sub(0) : s = {}
      <4> SUFFICES ASSUME NEW s \in SUBSET S, Cardinality(s) <= 0 PROVE s = {}
        BY Zenon
      <4>1. Cardinality(s) = 0
        BY <1>1
      <4> QED
        BY <4>1, <1>2, Zenon
    <3>2. FoldsTo(it, Sub(0), V, base, pick, step)
      BY <3>1, Zenon DEF FoldsTo
    <3> QED
      BY <2>3, <3>2, <1>b, Zenon
  <2>4. CASE n # 0
    <3>1. n - 1 \in Nat /\ n - 1 \notin B
      BY <2>1, <2>2, <2>4
    <3>2. PICK g : FoldsTo(g, Sub(n - 1), V, base, pick, step)
      BY <3>1, <1>c, Zenon
    <3> DEFINE it == [s \in Sub(n) |-> IF s = {} THEN base ELSE step[pick[s], g[s \ {pick[s]}]]]
    <3>3. \A s \in Sub(n) : s # {} => s \ {pick[s]} \in Sub(n - 1) /\ s \ {pick[s]} \in Sub(n)
      BY <1>1, <1>2, <2>2
    <3>4. \A s \in Sub(n - 1) : s \in Sub(n)
      BY <1>1, <2>2
    <3>5. \A s \in Sub(n - 1) : g[s] \in V /\ g[s] = IF s = {} THEN base ELSE step[pick[s], g[s \ {pick[s]}]]
      BY <3>2, Zenon DEF FoldsTo
    <3> HIDE DEF Sub
    <3>6. \A s \in Sub(n - 1) : it[s] = g[s]
      BY <3>4, <3>5, Zenon
    <3>7. \A s \in Sub(n) : s # {} => pick[s] \in S
      BY <1>2, Zenon DEF Sub
    <3>8. ASSUME NEW s \in Sub(n)
          PROVE  it[s] \in V /\ it[s] = IF s = {} THEN base ELSE step[pick[s], it[s \ {pick[s]}]]
      <4>1. CASE s = {}
        BY <4>1, Zenon
      <4>2. CASE s # {}
        <5>1. /\ it[s] = step[pick[s], g[s \ {pick[s]}]] /\ g[s \ {pick[s]}] \in V
              /\ it[s \ {pick[s]}] = g[s \ {pick[s]}] /\ pick[s] \in S
          BY <4>2, <3>3, <3>5, <3>6, <3>7, Zenon
        <5> QED
          BY <5>1, <4>2, Zenon
      <4> QED
        BY <4>1, <4>2, Zenon
    <3>9. it \in [Sub(n) -> V]
      BY <3>8, Zenon
    <3> HIDE DEF it
    <3>10. FoldsTo(it, Sub(n), V, base, pick, step)
      BY <3>8, <3>9, Zenon DEF FoldsTo
    <3> QED
      BY <3>10, <1>b, Zenon
  <2> QED
    BY <2>3, <2>4, Zenon
<1>5. Cardinality(S) \in Nat /\ Sub(Cardinality(S)) = SUBSET S
  BY <1>1, FS_CardinalityType, FS_Subset, Zenon
<1>6. Cardinality(S) \notin B
  BY <1>4, Zenon
<1>7. \E it : FoldsTo(it, Sub(Cardinality(S)), V, base, pick, step)
  BY <1>5, <1>6, <1>c, Zenon
<1> HIDE DEF Sub
<1> QED
  BY <1>5, <1>7

-----------------------------------------------------------------------------
(* Sums.                                                                   *)

\* it adds up f over every subset of S, the way MapThenSumSet does.
IsSum(it, f, S) ==
  it = [s \in SUBSET S |-> IF s = {} THEN 0
                           ELSE f[CHOOSE x \in s : TRUE] + it[s \ {CHOOSE x \in s : TRUE}]]

\* So the function that MapThenSumSet chooses exists.
LEMMA SumExists ==
  ASSUME NEW S, IsFiniteSet(S), NEW f \in [S -> Nat]
  PROVE  \E it : IsSum(it, f, S)
<1> DEFINE pick == [s \in SUBSET S |-> CHOOSE x \in s : TRUE]
           step == [a \in S \X Nat |-> f[a[1]] + a[2]]
<1>1. \A s \in SUBSET S : s # {} => pick[s] \in s
  BY Zenon
<1>2. step \in [S \X Nat -> Nat]
  OBVIOUS
<1>3. \A x \in S, n \in Nat : step[x, n] = f[x] + n
  BY Zenon
<1>4. \A s \in SUBSET S : pick[s] = CHOOSE x \in s : TRUE
  BY Zenon
<1> HIDE DEF pick, step
<1>5. PICK it : FoldsTo(it, SUBSET S, Nat, 0, pick, step)
  BY <1>1, <1>2, FoldExists, Zenon
<1>6. it = [s \in SUBSET S |-> it[s]] /\ \A s \in SUBSET S : it[s] \in Nat
  BY <1>5, Zenon DEF FoldsTo
<1>7. ASSUME NEW s \in SUBSET S
      PROVE  it[s] = IF s = {} THEN 0 ELSE f[CHOOSE x \in s : TRUE] + it[s \ {CHOOSE x \in s : TRUE}]
  <2>1. CASE s = {}
    BY <2>1, <1>5, Zenon DEF FoldsTo
  <2>2. CASE s # {}
    <3>1. it[s] = step[pick[s], it[s \ {pick[s]}]]
      BY <2>2, <1>5, Zenon DEF FoldsTo
    <3>2. pick[s] \in S /\ s \ {pick[s]} \in SUBSET S
      BY <2>2, <1>1, Zenon
    <3>3. it[s] = f[pick[s]] + it[s \ {pick[s]}]
      BY <3>1, <3>2, <1>3, <1>6, Zenon
    <3> QED
      BY <2>2, <3>3, <1>4, Zenon
  <2> QED
    BY <2>1, <2>2, Zenon
<1>8. it = [s \in SUBSET S |-> IF s = {} THEN 0 ELSE f[CHOOSE x \in s : TRUE] + it[s \ {CHOOSE x \in s : TRUE}]]
  BY <1>6, <1>7, Zenon
<1> QED
  BY <1>8, Zenon DEF IsSum

\* One turn of the sum.
LEMMA SumStep ==
  ASSUME NEW S, NEW f, NEW it, IsSum(it, f, S)
  PROVE  /\ it[{}] = 0
         /\ \A s \in SUBSET S : s # {} => \E x \in s : it[s] = f[x] + it[s \ {x}] /\ x \in S /\ s \ {x} \in SUBSET S
<1>1. \A s \in SUBSET S : it[s] = IF s = {} THEN 0 ELSE f[CHOOSE x \in s : TRUE] + it[s \ {CHOOSE x \in s : TRUE}]
  BY Zenon DEF IsSum
<1>2. {} \in SUBSET S
  BY Zenon
<1>3. it[{}] = 0
  BY <1>1, <1>2, Zenon
<1>4. ASSUME NEW s \in SUBSET S, s # {}
      PROVE  \E x \in s : it[s] = f[x] + it[s \ {x}] /\ x \in S /\ s \ {x} \in SUBSET S
  <2> DEFINE x == CHOOSE x \in s : TRUE
  <2>1. x \in s
    BY <1>4, Zenon
  <2>2. it[s] = f[x] + it[s \ {x}]
    BY <1>1, <1>4, Zenon
  <2> HIDE DEF x
  <2>3. x \in S /\ s \ {x} \in SUBSET S
    BY <2>1, Zenon
  <2> QED
    BY <2>1, <2>2, <2>3, Zenon
<1> QED
  BY <1>3, <1>4, Zenon

\* A sum of numbers is a number that bounds every term and every two terms.
LEMMA SumBounds ==
  ASSUME NEW S, IsFiniteSet(S), NEW f \in [S -> Nat], NEW it, IsSum(it, f, S)
  PROVE  /\ it[S] \in Nat
         /\ \A t \in S : f[t] <= it[S]
         /\ \A t, u \in S : t # u => f[t] + f[u] <= it[S]
         /\ (\A t \in S : f[t] = 0) => it[S] = 0
<1> DEFINE G == {s \in SUBSET S : /\ it[s] \in Nat
                                  /\ \A t \in s : f[t] <= it[s]
                                  /\ \A t, u \in s : t # u => f[t] + f[u] <= it[s]
                                  /\ (\A t \in s : f[t] = 0) => it[s] = 0}
<1>1. {} \in G
  BY SumStep
<1>2. ASSUME NEW s \in SUBSET S, s # {} PROVE \E x \in s : s \ {x} \in G => s \in G
  <2>1. PICK x \in s : it[s] = f[x] + it[s \ {x}] /\ x \in S /\ s \ {x} \in SUBSET S
    BY <1>2, SumStep
  <2>2. ASSUME s \ {x} \in G PROVE s \in G
    <3>1. /\ it[s \ {x}] \in Nat
          /\ \A t \in s \ {x} : f[t] <= it[s \ {x}]
          /\ \A t, u \in s \ {x} : t # u => f[t] + f[u] <= it[s \ {x}]
          /\ (\A t \in s \ {x} : f[t] = 0) => it[s \ {x}] = 0
      BY <2>2, Zenon
    <3>2. \A t \in s : f[t] \in Nat
      BY Zenon
    <3>3. it[s] \in Nat
      BY <2>1, <3>1, <3>2
    <3>4. ASSUME NEW t \in s PROVE f[t] <= it[s]
      BY <2>1, <3>1, <3>2
    <3>5. ASSUME NEW t \in s, NEW u \in s, t # u PROVE f[t] + f[u] <= it[s]
      <4>0. /\ \A a, b, c \in Nat : b <= c => a + b <= a + c /\ b + a <= a + c
            /\ \A a, b, c, d \in Nat : a + b <= c => a + b <= d + c
        OBVIOUS
      <4>1. CASE t = x
        <5>1. f[u] <= it[s \ {x}]
          BY <4>1, <3>1, <3>5, Zenon
        <5> QED
          BY <4>0, <4>1, <5>1, <2>1, <3>1, <3>2, Zenon
      <4>2. CASE u = x
        <5>1. f[t] <= it[s \ {x}]
          BY <4>2, <3>1, <3>5, Zenon
        <5> QED
          BY <4>0, <4>2, <5>1, <2>1, <3>1, <3>2, Zenon
      <4>3. CASE t # x /\ u # x
        <5>1. f[t] + f[u] <= it[s \ {x}]
          BY <4>3, <3>1, <3>5, Zenon
        <5> QED
          BY <4>0, <5>1, <2>1, <3>1, <3>2, Zenon
      <4> QED
        BY <4>1, <4>2, <4>3, Zenon
    <3>6. ASSUME \A t \in s : f[t] = 0 PROVE it[s] = 0
      BY <3>6, <2>1, <3>1
    <3> QED
      BY <3>3, <3>4, <3>5, <3>6, Zenon
  <2> QED
    BY <2>2, Zenon
<1> HIDE DEF G
<1>3. \A s \in SUBSET S : s \in G
  BY <1>1, <1>2, SubsetInduction, Zenon
<1>4. S \in G
  BY <1>3, Zenon
<1> QED
  BY <1>4, Zenon DEF G

\* Two sums over the same set pick the same element.
LEMMA SumBothStep ==
  ASSUME NEW S, NEW f \in [S -> Nat], NEW g \in [S -> Nat], NEW it, NEW it2,
         IsSum(it, f, S), IsSum(it2, g, S), NEW t \in S
  PROVE  /\ it[{}] = 0 /\ it2[{}] = 0 /\ f[t] \in Nat /\ g[t] \in Nat
         /\ \A s \in SUBSET S : s # {} =>
              \E x \in s : /\ it[s] = f[x] + it[s \ {x}] /\ it2[s] = g[x] + it2[s \ {x}]
                          /\ x \in S /\ s \ {x} \in SUBSET S
<1>1. \A s \in SUBSET S :
        /\ it[s] = IF s = {} THEN 0 ELSE f[CHOOSE x \in s : TRUE] + it[s \ {CHOOSE x \in s : TRUE}]
        /\ it2[s] = IF s = {} THEN 0 ELSE g[CHOOSE x \in s : TRUE] + it2[s \ {CHOOSE x \in s : TRUE}]
  BY Zenon DEF IsSum
<1>2. it[{}] = 0 /\ it2[{}] = 0
  BY SumStep, Zenon
<1>3. ASSUME NEW s \in SUBSET S, s # {}
      PROVE  \E x \in s : /\ it[s] = f[x] + it[s \ {x}] /\ it2[s] = g[x] + it2[s \ {x}]
                          /\ x \in S /\ s \ {x} \in SUBSET S
  <2> DEFINE x == CHOOSE x \in s : TRUE
  <2>1. x \in s
    BY <1>3, Zenon
  <2>2. it[s] = f[x] + it[s \ {x}] /\ it2[s] = g[x] + it2[s \ {x}]
    BY <1>1, <1>3, Zenon
  <2> HIDE DEF x
  <2>3. x \in S /\ s \ {x} \in SUBSET S
    BY <2>1, Zenon
  <2> QED
    BY <2>1, <2>2, <2>3, Zenon
<1> QED
  BY <1>2, <1>3, Zenon

\* The sum changes by as much as the one summand that changes.
LEMMA SumChange ==
  ASSUME NEW S, IsFiniteSet(S), NEW f \in [S -> Nat], NEW g \in [S -> Nat], NEW it, NEW it2,
         IsSum(it, f, S), IsSum(it2, g, S), NEW t \in S, \A u \in S : u # t => f[u] = g[u]
  PROVE  it2[S] + f[t] = it[S] + g[t]
<1> DEFINE G == {s \in SUBSET S : /\ it[s] \in Nat /\ it2[s] \in Nat
                                  /\ t \in s => it2[s] + f[t] = it[s] + g[t]
                                  /\ t \notin s => it2[s] = it[s]}
<1>0. /\ it[{}] = 0 /\ it2[{}] = 0 /\ f[t] \in Nat /\ g[t] \in Nat
      /\ \A s \in SUBSET S : s # {} =>
           \E x \in s : /\ it[s] = f[x] + it[s \ {x}] /\ it2[s] = g[x] + it2[s \ {x}]
                       /\ x \in S /\ s \ {x} \in SUBSET S
  BY SumBothStep, SMTT(30)
<1>1. {} \in G
  BY <1>0
<1>2. ASSUME NEW s \in SUBSET S, s # {} PROVE \E x \in s : s \ {x} \in G => s \in G
  <2>1. PICK x \in s : /\ it[s] = f[x] + it[s \ {x}] /\ it2[s] = g[x] + it2[s \ {x}]
                       /\ x \in S /\ s \ {x} \in SUBSET S
    BY <1>0, <1>2, Zenon
  <2>2. ASSUME s \ {x} \in G PROVE s \in G
    <3>1. /\ it[s \ {x}] \in Nat /\ it2[s \ {x}] \in Nat
          /\ t \in s \ {x} => it2[s \ {x}] + f[t] = it[s \ {x}] + g[t]
          /\ t \notin s \ {x} => it2[s \ {x}] = it[s \ {x}]
      BY <2>2, Zenon
    <3>2. f[x] \in Nat /\ g[x] \in Nat /\ (x # t => f[x] = g[x])
      BY <2>1, Zenon
    <3>3. it[s] \in Nat /\ it2[s] \in Nat
      BY <2>1, <3>1, <3>2
    <3>4. ASSUME t \in s PROVE it2[s] + f[t] = it[s] + g[t]
      <4>1. CASE x = t
        <5>1. it2[s \ {x}] = it[s \ {x}]
          BY <4>1, <3>1, Zenon
        <5>2. it[s] = f[t] + it[s \ {x}] /\ it2[s] = g[t] + it[s \ {x}]
          BY <4>1, <5>1, <2>1, Zenon
        <5>3. (g[t] + it[s \ {x}]) + f[t] = (f[t] + it[s \ {x}]) + g[t]
          BY <1>0, <3>1
        <5> QED
          BY <5>2, <5>3, Zenon
      <4>2. CASE x # t
        <5>1. it2[s \ {x}] + f[t] = it[s \ {x}] + g[t]
          BY <4>2, <3>1, <3>4, Zenon
        <5>2. it[s] = f[x] + it[s \ {x}] /\ it2[s] = f[x] + it2[s \ {x}]
          BY <4>2, <2>1, <3>2, Zenon
        <5>3. (f[x] + it2[s \ {x}]) + f[t] = (f[x] + it[s \ {x}]) + g[t]
          <6>1. /\ it2[s \ {x}] \in Nat /\ it[s \ {x}] \in Nat /\ f[t] \in Nat /\ g[t] \in Nat /\ f[x] \in Nat
            BY <1>0, <3>1, <3>2, Zenon
          <6>2. \A a, b, c, d, e \in Nat : c + a = d + b => (e + c) + a = (e + d) + b
            OBVIOUS
          <6> QED
            BY <5>1, <6>1, <6>2
        <5> QED
          BY <5>2, <5>3, Zenon
      <4> QED
        BY <4>1, <4>2, Zenon
    <3>5. ASSUME t \notin s PROVE it2[s] = it[s]
      BY <3>5, <2>1, <3>1, <3>2, Zenon
    <3> QED
      BY <3>3, <3>4, <3>5, Zenon
  <2> QED
    BY <2>2, Zenon
<1> HIDE DEF G
<1>3. \A s \in SUBSET S : s \in G
  BY <1>1, <1>2, SubsetInduction, Zenon
<1>4. S \in G
  BY <1>3, Zenon
<1> QED
  BY <1>4, Zenon DEF G

SumOver(f) == MapThenSumSet(LAMBDA x : f[x], DOMAIN f)

\* SumOver in terms of the function the fold chooses.
LEMMA SumOverFold ==
  ASSUME NEW S, NEW f \in [S -> Nat]
  PROVE  SumOver(f) = (CHOOSE it : IsSum(it, f, S))[S]
BY Zenon DEF SumOver, MapThenSumSet, MapThenFoldSet, IsSum

\* The bounds, for the sum of the model.
LEMMA SumOverBounds ==
  ASSUME NEW S, IsFiniteSet(S), NEW f \in [S -> Nat]
  PROVE  /\ SumOver(f) \in Nat
         /\ \A t \in S : f[t] <= SumOver(f)
         /\ \A t, u \in S : t # u => f[t] + f[u] <= SumOver(f)
         /\ (\A t \in S : f[t] = 0) => SumOver(f) = 0
<1> DEFINE it == CHOOSE it : IsSum(it, f, S)
<1>1. IsSum(it, f, S)
  BY SumExists, Zenon
<1>2. SumOver(f) = it[S]
  BY SumOverFold, Zenon
<1> HIDE DEF it
<1> QED
  BY <1>1, <1>2, SumBounds

\* Changing one term changes the sum by as much.
LEMMA SumOverChange ==
  ASSUME NEW S, IsFiniteSet(S), NEW f \in [S -> Nat], NEW g \in [S -> Nat],
         NEW t \in S, \A u \in S : u # t => f[u] = g[u]
  PROVE  SumOver(g) + f[t] = SumOver(f) + g[t]
<1> DEFINE it == CHOOSE it : IsSum(it, f, S)
           it2 == CHOOSE i2 : IsSum(i2, g, S)
<1>1. IsSum(it, f, S) /\ IsSum(it2, g, S)
  BY SumExists, Zenon
<1>2. SumOver(f) = it[S] /\ SumOver(g) = it2[S]
  BY SumOverFold, Zenon
<1> HIDE DEF it, it2
<1> QED
  BY <1>1, <1>2, SumChange

\* Any way of adding up gives the same sum.
LEMMA SumUnique ==
  ASSUME NEW S, IsFiniteSet(S), S # {}, NEW f \in [S -> Nat], NEW it, IsSum(it, f, S)
  PROVE  it[S] = SumOver(f)
<1> DEFINE it2 == CHOOSE i2 : IsSum(i2, f, S)
<1>1. IsSum(it2, f, S)
  BY SumExists, Zenon
<1>2. SumOver(f) = it2[S]
  BY SumOverFold, Zenon
<1> HIDE DEF it2
<1>3. PICK t \in S : TRUE
  BY Zenon
<1>4. it2[S] + f[t] = it[S] + f[t]
  BY <1>1, SumChange
<1>5. it[S] \in Nat /\ it2[S] \in Nat /\ f[t] \in Nat
  BY <1>1, SumBounds, Zenon
<1> QED
  BY <1>2, <1>4, <1>5

\* There are finitely many lock modes.
LEMMA ModesFinite == IsFiniteSet(Modes) /\ Modes # {}
<1>1. /\ IsFiniteSet({"AccessShare", "RowShare"}) /\ IsFiniteSet({"RowExclusive", "ShareUpdateExclusive"})
      /\ IsFiniteSet({"Share", "ShareRowExclusive"}) /\ IsFiniteSet({"Exclusive", "AccessExclusive"})
  <2>1. \A a, b : IsFiniteSet({a, b})
    <3> TAKE a, b
    <3>1. IsFiniteSet({a}) /\ IsFiniteSet({b}) /\ {a, b} = {a} \cup {b}
      BY FS_Singleton, Zenon
    <3> QED
      BY <3>1, FS_Union, Zenon
  <2> QED
    BY <2>1, Zenon
<1>2. /\ IsFiniteSet({"AccessShare", "RowShare"} \cup {"RowExclusive", "ShareUpdateExclusive"})
      /\ IsFiniteSet({"Share", "ShareRowExclusive"} \cup {"Exclusive", "AccessExclusive"})
  BY <1>1, FS_Union, Zenon
<1>3. Modes = ({"AccessShare", "RowShare"} \cup {"RowExclusive", "ShareUpdateExclusive"})
               \cup ({"Share", "ShareRowExclusive"} \cup {"Exclusive", "AccessExclusive"})
  BY Zenon DEF Modes
<1> QED
  BY <1>2, <1>3, FS_Union, Zenon

HoldsType == [Threads -> [Modes -> Nat]]

\* holder->nHolding is the sum of the counts of the holder.
LEMMA nHoldingSum ==
  ASSUME NEW h \in HoldsType, NEW t \in Threads
  PROVE  nHolding(h, t) = SumOver(h[t])
<1>1. h[t] \in [Modes -> Nat]
  BY Zenon DEF HoldsType
<1>2. PICK it0 : IsSum(it0, h[t], Modes)
  BY <1>1, ModesFinite, SumExists, Zenon
<1>3. PICK it : IsSum(it, h[t], Modes) /\ nHolding(h, t) = it[Modes]
  BY <1>2, Zenon DEF nHolding, MapThenSumSet, MapThenFoldSet, IsSum
<1> QED
  BY <1>1, <1>3, ModesFinite, SumUnique, Zenon

\* The counts of a holder are numbers, and none exceeds their sum.
LEMMA CountType ==
  ASSUME NEW h \in HoldsType, NEW t \in Threads
  PROVE  nHolding(h, t) \in Nat /\ \A m \in Modes : h[t][m] \in Nat /\ h[t][m] <= nHolding(h, t)
<1>1. h[t] \in [Modes -> Nat]
  BY Zenon DEF HoldsType
<1>2. nHolding(h, t) = SumOver(h[t])
  BY nHoldingSum, Zenon
<1> QED
  BY <1>1, <1>2, ModesFinite, SumOverBounds, Zenon

\* The sum of a holder depends on its counts alone.
LEMMA CountSame ==
  ASSUME NEW h \in HoldsType, NEW g \in HoldsType, NEW t \in Threads, g[t] = h[t]
  PROVE  nHolding(g, t) = nHolding(h, t)
BY nHoldingSum, Zenon

\* What the threads hold of one mode and of all, which lock->activeHolders and
\* lock->nActive are to say.
HeldOf(h, m) == SumOver([t \in Threads |-> h[t][m]])
HeldAll(h) == SumOver([t \in Threads |-> nHolding(h, t)])

\* Two holders of a mode are no more than all holders of it.
LEMMA HeldOfBounds ==
  ASSUME NEW h \in HoldsType, NEW m \in Modes
  PROVE  /\ HeldOf(h, m) \in Nat
         /\ \A t, u \in Threads : t # u => h[t][m] + h[u][m] <= HeldOf(h, m)
         /\ (\A t \in Threads : h[t][m] = 0) => HeldOf(h, m) = 0
<1> DEFINE f == [t \in Threads |-> h[t][m]]
<1>1. f \in [Threads -> Nat] /\ \A t \in Threads : f[t] = h[t][m]
  BY Zenon DEF HoldsType
<1>2. HeldOf(h, m) = SumOver(f)
  BY Zenon DEF HeldOf
<1> HIDE DEF f
<1>3. /\ SumOver(f) \in Nat
      /\ \A t, u \in Threads : t # u => f[t] + f[u] <= SumOver(f)
      /\ (\A t \in Threads : f[t] = 0) => SumOver(f) = 0
  BY <1>1, LockAssumption, SumOverBounds, Zenon
<1> QED
  BY <1>1, <1>2, <1>3, Zenon

\* The same for all modes.
LEMMA HeldAllBounds ==
  ASSUME NEW h \in HoldsType
  PROVE  /\ HeldAll(h) \in Nat
         /\ \A t, u \in Threads : t # u => nHolding(h, t) + nHolding(h, u) <= HeldAll(h)
         /\ (\A t \in Threads : nHolding(h, t) = 0) => HeldAll(h) = 0
<1> DEFINE f == [t \in Threads |-> nHolding(h, t)]
<1>1. f \in [Threads -> Nat] /\ \A t \in Threads : f[t] = nHolding(h, t)
  BY CountType, Zenon
<1>2. HeldAll(h) = SumOver(f)
  BY Zenon DEF HeldAll
<1> HIDE DEF f
<1>3. /\ SumOver(f) \in Nat
      /\ \A t, u \in Threads : t # u => f[t] + f[u] <= SumOver(f)
      /\ (\A t \in Threads : f[t] = 0) => SumOver(f) = 0
  BY <1>1, LockAssumption, SumOverBounds, Zenon
<1> QED
  BY <1>1, <1>2, <1>3, Zenon

\* What is held of a mode changes by as much as the one holder that changes.
LEMMA HeldOfChange ==
  ASSUME NEW h \in HoldsType, NEW g \in HoldsType, NEW t \in Threads, NEW m \in Modes,
         \A u \in Threads : u # t => g[u] = h[u]
  PROVE  HeldOf(g, m) + h[t][m] = HeldOf(h, m) + g[t][m]
<1> DEFINE a == [u \in Threads |-> h[u][m]]
           b == [u \in Threads |-> g[u][m]]
<1>1. /\ a \in [Threads -> Nat] /\ b \in [Threads -> Nat] /\ a[t] = h[t][m] /\ b[t] = g[t][m]
      /\ \A u \in Threads : u # t => a[u] = b[u]
  BY Zenon DEF HoldsType
<1>2. HeldOf(h, m) = SumOver(a) /\ HeldOf(g, m) = SumOver(b)
  BY Zenon DEF HeldOf
<1> HIDE DEF a, b
<1>0. IsFiniteSet(Threads)
  BY LockAssumption, Zenon
<1>3. SumOver(b) + a[t] = SumOver(a) + b[t]
  BY <1>0, <1>1, SumOverChange, SMTT(30)
<1> QED
  BY <1>1, <1>2, <1>3, Zenon

\* The same for all modes.
LEMMA HeldAllChange ==
  ASSUME NEW h \in HoldsType, NEW g \in HoldsType, NEW t \in Threads,
         \A u \in Threads : u # t => g[u] = h[u]
  PROVE  HeldAll(g) + nHolding(h, t) = HeldAll(h) + nHolding(g, t)
<1> DEFINE a == [u \in Threads |-> nHolding(h, u)]
           b == [u \in Threads |-> nHolding(g, u)]
<1>1. /\ a \in [Threads -> Nat] /\ b \in [Threads -> Nat]
      /\ a[t] = nHolding(h, t) /\ b[t] = nHolding(g, t)
      /\ \A u \in Threads : u # t => a[u] = b[u]
  BY CountType, CountSame, Zenon
<1>2. HeldAll(h) = SumOver(a) /\ HeldAll(g) = SumOver(b)
  BY Zenon DEF HeldAll
<1> HIDE DEF a, b
<1>0. IsFiniteSet(Threads)
  BY LockAssumption, Zenon
<1>3. SumOver(b) + a[t] = SumOver(a) + b[t]
  BY <1>0, <1>1, SumOverChange, SMTT(30)
<1> QED
  BY <1>1, <1>2, <1>3, Zenon

-----------------------------------------------------------------------------
(* Walks along the queue.                                                  *)

\* The last of the places visited.
LEMMA MaxMember ==
  ASSUME NEW n \in Nat, NEW s \in SUBSET (1 .. n), s # {}
  PROVE  Max(s) \in s
<1> DEFINE B == {k \in Nat : \E x \in s : k = n - x}
<1>1. \A x \in s : n - x \in B
  OBVIOUS
<1>2. B \in SUBSET Nat /\ B # {}
  BY <1>1, Zenon
<1>3. PICK k \in B : \A j \in B : k <= j
  BY <1>2, LeastNumber, Zenon
<1>4. PICK x \in s : k = n - x
  BY Zenon
<1> HIDE DEF B
<1>5. \A y \in s : x >= y
  BY <1>1, <1>3, <1>4
<1> QED
  BY <1>5, Zenon DEF Max

\* it[s] is the state of a walk that has visited the places s of q.
Walks(it, q, base, step) ==
  it = [s \in SUBSET DOMAIN q |-> IF s = {} THEN base ELSE step[it[s \ {Max(s)}], q[Max(s)]]]

\* A walk from the first place of the queue to the last exists.
LEMMA WalkStep ==
  ASSUME NEW q \in Seq(Threads), NEW V, NEW base \in V,
         NEW step \in [V \X Range(q) -> V]
  PROVE  \E it \in [SUBSET DOMAIN q -> V] : Walks(it, q, base, step)
<1> DEFINE D == DOMAIN q
           pick == [s \in SUBSET D |-> Max(s)]
           st == [a \in D \X V |-> step[a[2], q[a[1]]]]
<1>1. Len(q) \in Nat /\ D = 1 .. Len(q) /\ \A i \in D : q[i] \in Range(q)
  BY DEF Range
<1>2. IsFiniteSet(D)
  BY <1>1, FS_Interval
<1>3. \A s \in SUBSET D : s # {} => pick[s] \in s
  BY <1>1, MaxMember, Zenon
<1>4. st \in [D \X V -> V]
  BY <1>1, Zenon
<1>5. \A i \in D : \A v \in V : st[i, v] = step[v, q[i]]
  BY <1>1, Zenon
<1>6. \A s \in SUBSET D : pick[s] = Max(s)
  BY Zenon
<1> HIDE DEF D, pick, st
<1>7. PICK it : FoldsTo(it, SUBSET D, V, base, pick, st)
  BY <1>2, <1>3, <1>4, FoldExists, Zenon
<1>8. it \in [SUBSET D -> V]
  BY <1>7, Zenon DEF FoldsTo
<1>9. ASSUME NEW s \in SUBSET D
      PROVE  it[s] = IF s = {} THEN base ELSE step[it[s \ {Max(s)}], q[Max(s)]]
  <2>1. CASE s = {}
    BY <2>1, <1>7, Zenon DEF FoldsTo
  <2>2. CASE s # {}
    <3>1. it[s] = st[pick[s], it[s \ {pick[s]}]]
      BY <2>2, <1>7, Zenon DEF FoldsTo
    <3>2. pick[s] \in D /\ s \ {pick[s]} \in SUBSET D
      BY <2>2, <1>3, Zenon
    <3>3. it[s \ {pick[s]}] \in V
      BY <3>2, <1>8, Zenon
    <3>4. it[s] = step[it[s \ {pick[s]}], q[pick[s]]]
      BY <3>1, <3>2, <3>3, <1>5, Zenon
    <3> QED
      BY <2>2, <3>4, <1>6, Zenon
  <2> QED
    BY <2>1, <2>2, Zenon
<1>10. it = [s \in SUBSET D |-> IF s = {} THEN base ELSE step[it[s \ {Max(s)}], q[Max(s)]]]
  BY <1>8, <1>9, Zenon
<1> QED
  BY <1>8, <1>10, Zenon DEF D, Walks

\* The conflict table is symmetric.
LEMMA ConflictsSymmetric ==
  ASSUME NEW m \in Modes, NEW n \in Modes, n \in LockConflicts[m]
  PROVE  m \in LockConflicts[n]
BY Zenon DEF Modes, LockConflicts

ConflictFree(h) ==
  \A t, u \in Threads :
    t # u => \A m \in HoldLock(h, t) : LockConflicts[m] \cap HoldLock(h, u) = {}

\* No thread but t holds a mode that conflicts with m.
Compatible(h, t, m) == \A u \in Threads : u # t => LockConflicts[m] \cap HoldLock(h, u) = {}

\* A grant that conflicts with no other thread leaves no conflict.
LEMMA GrantKeeps ==
  ASSUME NEW h \in HoldsType, NEW t \in Threads, NEW m \in Modes
  PROVE  /\ GrantLock(h, t, m) \in HoldsType
         /\ ConflictFree(h) /\ Compatible(h, t, m) => ConflictFree(GrantLock(h, t, m))
         /\ \A u \in Threads : u # t => GrantLock(h, t, m)[u] = h[u]
         /\ GrantLock(h, t, m)[t] = [h[t] EXCEPT ![m] = @ + 1]
<1> DEFINE g == GrantLock(h, t, m)
<1>1. g \in HoldsType
  BY DEF HoldsType, GrantLock
<1>2. \A u \in Threads : u # t => g[u] = h[u]
  BY Zenon DEF HoldsType, GrantLock
<1>3. g[t] = [h[t] EXCEPT ![m] = @ + 1]
  BY Zenon DEF HoldsType, GrantLock
<1> HIDE DEF g
<1>4. \A u \in Threads : u # t => HoldLock(g, u) = HoldLock(h, u)
  BY <1>2, Zenon DEF HoldLock
<1>5. HoldLock(g, t) \in SUBSET (HoldLock(h, t) \cup {m})
  BY <1>3, Zenon DEF HoldLock, HoldsType
<1>6. \A u \in Threads : HoldLock(g, u) \in SUBSET Modes
  BY Zenon DEF HoldLock
<1>7. ASSUME ConflictFree(h), Compatible(h, t, m), NEW u \in Threads, NEW v \in Threads, u # v,
             NEW x \in HoldLock(g, u), NEW y \in LockConflicts[x] \cap HoldLock(g, v)
      PROVE  FALSE
  <2>1. x \in Modes /\ y \in Modes /\ x \in LockConflicts[y]
    BY <1>6, <1>7, ConflictsSymmetric, Zenon
  <2>2. /\ \A a, b \in Threads : a # b => \A z \in HoldLock(h, a) : LockConflicts[z] \cap HoldLock(h, b) = {}
        /\ \A a \in Threads : a # t => LockConflicts[m] \cap HoldLock(h, a) = {}
    BY <1>7, Zenon DEF ConflictFree, Compatible
  <2>3. CASE u # t /\ v # t
    BY <2>3, <2>2, <1>4, <1>7, Zenon
  <2>4. CASE u = t
    <3>1. x \in HoldLock(h, t) \/ x = m
      BY <2>4, <1>5, <1>7, Zenon
    <3>2. y \in HoldLock(h, v)
      BY <2>4, <1>4, <1>7, Zenon
    <3> QED
      BY <3>1, <3>2, <2>4, <2>2, <1>7, Zenon
  <2>5. CASE v = t /\ u # t
    <3>1. y \in HoldLock(h, t) \/ y = m
      BY <2>5, <1>5, <1>7, Zenon
    <3>2. x \in HoldLock(h, u)
      BY <2>5, <1>4, <1>7, Zenon
    <3> QED
      BY <3>1, <3>2, <2>1, <2>5, <2>2, <1>7, Zenon
  <2> QED
    BY <2>3, <2>4, <2>5, Zenon
<1>8. ConflictFree(h) /\ Compatible(h, t, m) => ConflictFree(g)
  BY <1>7, Zenon DEF ConflictFree
<1> QED
  BY <1>1, <1>2, <1>3, <1>8, Zenon DEF g

\* Changing one count changes the sum by as much.
LEMMA CountChange ==
  ASSUME NEW h \in HoldsType, NEW g \in HoldsType, NEW t \in Threads, NEW m \in Modes,
         \A x \in Modes : x # m => g[t][x] = h[t][x]
  PROVE  nHolding(g, t) + h[t][m] = nHolding(h, t) + g[t][m]
<1>1. h[t] \in [Modes -> Nat] /\ g[t] \in [Modes -> Nat]
  BY Zenon DEF HoldsType
<1>2. SumOver(g[t]) + h[t][m] = SumOver(h[t]) + g[t][m]
  <2> DEFINE a == h[t]
             b == g[t]
  <2>1. a \in [Modes -> Nat] /\ b \in [Modes -> Nat] /\ \A x \in Modes : x # m => a[x] = b[x]
    BY <1>1, Zenon
  <2> HIDE DEF a, b
  <2>2. SumOver(b) + a[m] = SumOver(a) + b[m]
    BY <2>1, ModesFinite, SumOverChange
  <2> QED
    BY <2>2, Zenon DEF a, b
<1> QED
  BY <1>2, nHoldingSum, Zenon

\* GrantLock adds one to what its thread holds.
LEMMA CountGrant ==
  ASSUME NEW h \in HoldsType, NEW g \in HoldsType, NEW t \in Threads, NEW m \in Modes,
         g[t] = [h[t] EXCEPT ![m] = @ + 1]
  PROVE  nHolding(g, t) = nHolding(h, t) + 1
<1>1. h[t] \in [Modes -> Nat]
  BY Zenon DEF HoldsType
<1>2. (\A x \in Modes : x # m => g[t][x] = h[t][x]) /\ g[t][m] = h[t][m] + 1 /\ h[t][m] \in Nat
  <2> DEFINE a == h[t]
  <2>1. a \in [Modes -> Nat]
    BY <1>1, Zenon
  <2> HIDE DEF a
  <2>2. \A x \in Modes : [a EXCEPT ![m] = @ + 1][x] = IF x = m THEN a[m] + 1 ELSE a[x]
    BY <2>1, Zenon
  <2>3. g[t] = [a EXCEPT ![m] = @ + 1] /\ a[m] \in Nat
    BY <2>1, Zenon DEF a
  <2> QED
    BY <2>2, <2>3, Zenon DEF a
<1>a. \A x \in Modes : x # m => g[t][x] = h[t][x]
  BY <1>2, Zenon
<1>3. nHolding(g, t) + h[t][m] = nHolding(h, t) + g[t][m]
  BY ONLY <1>a, h \in HoldsType, g \in HoldsType, t \in Threads, m \in Modes, CountChange, Zenon
<1>4. nHolding(g, t) \in Nat /\ nHolding(h, t) \in Nat
  BY CountType, Zenon
<1> QED
  BY <1>2, <1>3, <1>4
-----------------------------------------------------------------------------
(* The counters of the lock.                                               *)

LockRecord == [mask : SUBSET Modes, holders : [Modes -> Int], nHolding : Int,
               activeHolders : [Modes -> Int], nActive : Int]

\* The counters say what the threads hold, which is free of conflicts; lock->mask has
\* the modes that are held, and may have more.
Exact(l, h) ==
  /\ \A m \in Modes : l.activeHolders[m] = HeldOf(h, m) /\ (l.activeHolders[m] > 0 => m \in l.mask)
  /\ l.nActive = HeldAll(h)
  /\ ConflictFree(h)

\* What GrantLock does to the lock.
LEMMA GrantFields ==
  ASSUME NEW l \in LockRecord, NEW m \in Modes
  PROVE  /\ GrantCounts(l, m) \in LockRecord
         /\ GrantCounts(l, m).mask = l.mask \cup {m}
         /\ GrantCounts(l, m).nHolding = l.nHolding
         /\ GrantCounts(l, m).nActive = l.nActive + 1
         /\ GrantCounts(l, m).activeHolders[m] = l.activeHolders[m] + 1
         /\ \A x \in Modes : x # m => GrantCounts(l, m).activeHolders[x] = l.activeHolders[x]
<1> DEFINE a == l.activeHolders
           b == [a EXCEPT ![m] = @ + 1]
           n == l.nActive
           k == n + 1
           w == l.mask \cup {m}
<1>1. a \in [Modes -> Int] /\ n \in Int /\ w \in SUBSET Modes
  BY Zenon DEF LockRecord
<1>2. GrantCounts(l, m) = [l EXCEPT !.nActive = k, !.activeHolders = b, !.mask = w]
  BY Zenon DEF GrantCounts, LockRecord
<1> HIDE DEF a, n, w
<1>3. b \in [Modes -> Int] /\ b[m] = a[m] + 1 /\ (\A x \in Modes : x # m => b[x] = a[x]) /\ k \in Int
  BY <1>1
<1> HIDE DEF b, k
<1>4. /\ [l EXCEPT !.nActive = k, !.activeHolders = b, !.mask = w] \in LockRecord
      /\ [l EXCEPT !.nActive = k, !.activeHolders = b, !.mask = w].mask = w
      /\ [l EXCEPT !.nActive = k, !.activeHolders = b, !.mask = w].nHolding = l.nHolding
      /\ [l EXCEPT !.nActive = k, !.activeHolders = b, !.mask = w].nActive = k
      /\ [l EXCEPT !.nActive = k, !.activeHolders = b, !.mask = w].activeHolders = b
  BY <1>1, <1>3, Zenon DEF LockRecord
<1> QED
  BY <1>2, <1>3, <1>4, Zenon DEF a, n, w, k

\* What asking for a lock and taking that back do to the lock.
LEMMA AskFields ==
  ASSUME NEW l \in LockRecord, NEW m \in Modes
  PROVE  /\ Asked(l, m) \in LockRecord /\ Unasked(l, m) \in LockRecord
         /\ Asked(l, m).nHolding = l.nHolding + 1 /\ Unasked(l, m).nHolding = l.nHolding - 1
         /\ Asked(l, m).mask = l.mask /\ Unasked(l, m).mask = l.mask
         /\ Asked(l, m).nActive = l.nActive /\ Unasked(l, m).nActive = l.nActive
         /\ Asked(l, m).activeHolders = l.activeHolders /\ Unasked(l, m).activeHolders = l.activeHolders
<1> DEFINE a == l.holders
           b == [a EXCEPT ![m] = @ + 1]
           c == [a EXCEPT ![m] = @ - 1]
           n == l.nHolding
           k == n + 1
           j == n - 1
<1>1. a \in [Modes -> Int] /\ n \in Int
  BY Zenon DEF LockRecord
<1>2. /\ Asked(l, m) = [l EXCEPT !.nHolding = k, !.holders = b]
      /\ Unasked(l, m) = [l EXCEPT !.nHolding = j, !.holders = c]
  BY Zenon DEF Asked, Unasked, LockRecord
<1> HIDE DEF a, n
<1>3. b \in [Modes -> Int] /\ c \in [Modes -> Int] /\ k \in Int /\ j \in Int
  BY <1>1
<1> HIDE DEF b, c, k, j
<1>4. /\ [l EXCEPT !.nHolding = k, !.holders = b] \in LockRecord /\ [l EXCEPT !.nHolding = k, !.holders = b].nHolding = k
      /\ [l EXCEPT !.nHolding = k, !.holders = b].mask = l.mask /\ [l EXCEPT !.nHolding = k, !.holders = b].nActive = l.nActive
      /\ [l EXCEPT !.nHolding = k, !.holders = b].activeHolders = l.activeHolders
  BY <1>1, <1>3, Zenon DEF LockRecord
<1>5. /\ [l EXCEPT !.nHolding = j, !.holders = c] \in LockRecord /\ [l EXCEPT !.nHolding = j, !.holders = c].nHolding = j
      /\ [l EXCEPT !.nHolding = j, !.holders = c].mask = l.mask /\ [l EXCEPT !.nHolding = j, !.holders = c].nActive = l.nActive
      /\ [l EXCEPT !.nHolding = j, !.holders = c].activeHolders = l.activeHolders
  BY <1>1, <1>3, Zenon DEF LockRecord
<1> QED
  BY <1>2, <1>4, <1>5, Zenon DEF n, k, j

\* Which does not touch what is held.
LEMMA AskExact ==
  ASSUME NEW l \in LockRecord, NEW m \in Modes, NEW h, Exact(l, h)
  PROVE  Exact(Asked(l, m), h) /\ Exact(Unasked(l, m), h)
BY AskFields, Zenon DEF Exact

\* A mode that LockResolveConflicts lets pass conflicts with no other thread.
LEMMA ResolveSound ==
  ASSUME NEW l, NEW h \in HoldsType, NEW t \in Threads, NEW m \in Modes,
         Exact(l, h), LockResolveConflicts(l, h, t, m)
  PROVE  Compatible(h, t, m)
<1> SUFFICES ASSUME NEW u \in Threads, u # t, NEW x \in LockConflicts[m] \cap HoldLock(h, u)
             PROVE  FALSE
  BY Zenon DEF Compatible
<1>1. x \in Modes /\ h[u][x] > 0 /\ h[u][x] \in Nat /\ h[t][x] \in Nat
  BY Zenon DEF HoldLock, HoldsType
<1>2. HeldOf(h, x) \in Nat /\ h[t][x] + h[u][x] <= HeldOf(h, x)
  BY <1>1, HeldOfBounds, Zenon
<1>3. l.activeHolders[x] = HeldOf(h, x) /\ (l.activeHolders[x] > 0 => x \in l.mask)
  BY <1>1, Zenon DEF Exact
<1>4. HeldOf(h, x) > 0 /\ HeldOf(h, x) # h[t][x]
  BY <1>1, <1>2
<1> QED
  BY <1>3, <1>4, Zenon DEF LockResolveConflicts

\* A grant that conflicts with no other thread is counted.
LEMMA GrantExact ==
  ASSUME NEW l \in LockRecord, NEW h \in HoldsType, NEW t \in Threads, NEW m \in Modes,
         Exact(l, h), Compatible(h, t, m)
  PROVE  Exact(GrantCounts(l, m), GrantLock(h, t, m))
<1> DEFINE g == GrantLock(h, t, m)
           k == GrantCounts(l, m)
<1>1. /\ g \in HoldsType /\ ConflictFree(g) /\ \A u \in Threads : u # t => g[u] = h[u]
      /\ g[t] = [h[t] EXCEPT ![m] = @ + 1]
  <2>1. ConflictFree(h)
    BY Zenon DEF Exact
  <2> QED
    BY <2>1, GrantKeeps, SMTT(30)
<1>2. /\ k.mask = l.mask \cup {m} /\ k.nActive = l.nActive + 1
      /\ k.activeHolders[m] = l.activeHolders[m] + 1
      /\ \A x \in Modes : x # m => k.activeHolders[x] = l.activeHolders[x]
  BY GrantFields, Zenon
<1> HIDE DEF g, k
<1>3. h[t] \in [Modes -> Nat]
  BY Zenon DEF HoldsType
<1>4. g[t][m] = h[t][m] + 1 /\ \A x \in Modes : x # m => g[t][x] = h[t][x]
  BY <1>1, <1>3, Zenon
<1>5. ASSUME NEW x \in Modes PROVE k.activeHolders[x] = HeldOf(g, x) /\ (k.activeHolders[x] > 0 => x \in k.mask)
  <2>1. HeldOf(g, x) + h[t][x] = HeldOf(h, x) + g[t][x]
    <3>1. g \in HoldsType /\ \A u \in Threads : u # t => g[u] = h[u]
      BY <1>1, Zenon
    <3> QED
      BY <3>1, HeldOfChange, SMTT(30)
  <2>2. HeldOf(h, x) \in Nat /\ HeldOf(g, x) \in Nat /\ h[t][x] \in Nat
    BY <1>1, <1>3, HeldOfBounds, Zenon
  <2>3. l.activeHolders[x] = HeldOf(h, x) /\ (l.activeHolders[x] > 0 => x \in l.mask)
    BY Zenon DEF Exact
  <2>4. CASE x = m
    <3>1. HeldOf(g, x) = HeldOf(h, x) + 1
      <4>1. HeldOf(g, x) + h[t][x] = HeldOf(h, x) + (h[t][x] + 1)
        BY <2>1, <2>4, <1>4, Zenon
      <4> QED
        BY <4>1, <2>2
    <3> QED
      BY <3>1, <2>3, <2>4, <1>2, Zenon
  <2>5. CASE x # m
    <3>1. HeldOf(g, x) = HeldOf(h, x)
      <4>1. HeldOf(g, x) + h[t][x] = HeldOf(h, x) + h[t][x]
        BY <2>1, <2>5, <1>4, Zenon
      <4> QED
        BY <4>1, <2>2
    <3> QED
      BY <3>1, <2>3, <2>5, <1>2, Zenon
  <2> QED
    BY <2>4, <2>5, Zenon
<1>6. k.nActive = HeldAll(g)
  <2>1. HeldAll(g) + nHolding(h, t) = HeldAll(h) + nHolding(g, t)
    BY <1>1, HeldAllChange, Zenon
  <2>2. nHolding(g, t) = nHolding(h, t) + 1
    BY <1>1, CountGrant, Zenon
  <2>3. HeldAll(h) \in Nat /\ HeldAll(g) \in Nat /\ nHolding(h, t) \in Nat
    BY <1>1, HeldAllBounds, CountType, Zenon
  <2>4. l.nActive = HeldAll(h)
    BY Zenon DEF Exact
  <2> QED
    BY <2>1, <2>2, <2>3, <2>4, <1>2
<1> QED
  BY <1>1, <1>5, <1>6, Zenon DEF Exact, g, k


-----------------------------------------------------------------------------
(* What the walks leave.                                                   *)

\* The part of the queue that lock->waitThreads.size lets a walk see.
Walked == SubSeq(queue, 1, size)

\* It is the queue or a part of it.
LEMMA WalkedPart ==
  ASSUME queue \in Seq(Threads), IsInjective(queue), twice \in Nat
  PROVE  /\ Walked \in Seq(Threads) /\ IsInjective(Walked)
         /\ Range(Walked) \in SUBSET Range(queue) /\ Len(Walked) <= Len(queue)
<1> DEFINE n == size
<1>1. n \in Int /\ n <= Len(queue) /\ Len(queue) \in Nat /\ DOMAIN queue = 1 .. Len(queue)
  BY DEF size
<1>2. Walked = SubSeq(queue, 1, n)
  BY Zenon DEF Walked
<1> HIDE DEF n
<1>3. \A i \in 1 .. n : i \in DOMAIN queue /\ queue[i] \in Threads
  BY <1>1
<1>4. /\ SubSeq(queue, 1, n) \in Seq(Threads)
      /\ Len(SubSeq(queue, 1, n)) = (IF 1 <= n THEN n - 1 + 1 ELSE 0)
      /\ \A i \in 1 .. n - 1 + 1 : SubSeq(queue, 1, n)[i] = queue[1 + i - 1]
  <2>1. \A i \in 1 .. n : queue[i] \in Threads
    BY <1>3, Zenon
  <2> QED
    BY <2>1, <1>1, SubSeqProperties
<1>5. /\ Walked \in Seq(Threads) /\ Len(Walked) <= Len(queue)
      /\ DOMAIN Walked = 1 .. Len(Walked)
      /\ \A i \in 1 .. Len(Walked) : i \in 1 .. n
      /\ \A i \in 1 .. n : i \in 1 .. n - 1 + 1 /\ 1 + i - 1 = i
  BY <1>1, <1>2, <1>4
<1>6. \A i \in DOMAIN Walked : Walked[i] = queue[i] /\ i \in DOMAIN queue
  BY <1>2, <1>3, <1>4, <1>5, Zenon
<1>7. IsInjective(Walked)
  BY <1>6, Zenon DEF IsInjective
<1>8. Range(Walked) \in SUBSET Range(queue)
  BY <1>6, Zenon DEF Range
<1> QED
  BY <1>5, <1>7, <1>8, Zenon

WakeType == [lock : LockRecord, holds : HoldsType, woken : SUBSET Threads,
             last : Modes \cup {NoMode}, stop : BOOLEAN]

\* The types of a turn of ThreadLockWakeup.
LEMMA WakeStepType ==
  ASSUME NEW w \in WakeType, NEW p \in Threads, want[p] \in Modes
  PROVE  WakeStep(w, p) \in WakeType
<1>1. w.holds \in HoldsType /\ w.lock \in LockRecord
  BY Zenon DEF WakeType
<1>2. GrantLock(w.holds, p, want[p]) \in HoldsType
  BY <1>1, GrantKeeps, Zenon
<1>3. GrantCounts(w.lock, want[p]) \in LockRecord
  BY <1>1, GrantFields, Zenon
<1> QED
  BY <1>2, <1>3, Zenon DEF WakeType, WakeStep

\* ThreadLockWakeup is such a walk.
LEMMA WakeWalk ==
  ASSUME Walked \in Seq(Threads), \A t \in Range(Walked) : want[t] \in Modes,
         NEW l \in LockRecord, NEW h \in HoldsType
  PROVE  \E it :
            /\ it[DOMAIN Walked] = ThreadLockWakeup(l, h)
            /\ it[{}] = WakeStart(l, h)
            /\ \A s \in SUBSET DOMAIN Walked :
                 s # {} => \E i \in s : it[s] = WakeStep(it[s \ {i}], Walked[i])
<1> DEFINE D == DOMAIN Walked
           step == [a \in WakeType \X Range(Walked) |-> WakeStep(a[1], a[2])]
           P(it) == it = [s \in SUBSET D |-> IF s = {} THEN WakeStart(l, h)
                                             ELSE WakeStep(it[s \ {Max(s)}], Walked[Max(s)])]
<1>1. Len(Walked) \in Nat /\ D = 1 .. Len(Walked) /\ \A i \in D : Walked[i] \in Range(Walked)
  BY DEF Range
<1>2. \A p \in Range(Walked) : p \in Threads
  BY DEF Range
<1>3. step \in [WakeType \X Range(Walked) -> WakeType]
  BY <1>2, WakeStepType, Zenon
<1>4. \A w \in WakeType : \A p \in Range(Walked) : step[w, p] = WakeStep(w, p)
  BY Zenon
<1>5. WakeStart(l, h) \in WakeType
  BY Zenon DEF WakeStart, WakeType
<1>6. \A s \in SUBSET D : s # {} => Max(s) \in s
  BY <1>1, MaxMember, Zenon
<1> HIDE DEF step
<1>7. PICK it \in [SUBSET DOMAIN Walked -> WakeType] : Walks(it, Walked, WakeStart(l, h), step)
  BY <1>3, <1>5, WalkStep, Zenon
<1> HIDE DEF D
<1>8. \A s \in SUBSET D : s # {} =>
         step[it[s \ {Max(s)}], Walked[Max(s)]] = WakeStep(it[s \ {Max(s)}], Walked[Max(s)])
  <2> SUFFICES ASSUME NEW s \in SUBSET D, s # {}
               PROVE  step[it[s \ {Max(s)}], Walked[Max(s)]] = WakeStep(it[s \ {Max(s)}], Walked[Max(s)])
    BY Zenon
  <2>1. Max(s) \in D /\ s \ {Max(s)} \in SUBSET D
    BY <1>6, Zenon
  <2>2. it[s \ {Max(s)}] \in WakeType
    BY <2>1, <1>7, Zenon DEF D
  <2> QED
    BY <2>1, <2>2, <1>1, <1>4, Zenon
<1>9. \E i : P(i)
  <2>1. it = [s \in SUBSET D |->
                IF s = {} THEN WakeStart(l, h) ELSE step[it[s \ {Max(s)}], Walked[Max(s)]]]
    BY <1>7, Zenon DEF D, Walks
  <2>2. P(it)
    BY <2>1, <1>8, Zenon
  <2> QED
    BY <2>2, Zenon
<1>10. ThreadLockWakeup(l, h) = (CHOOSE i : P(i))[D]
  BY Zenon DEF ThreadLockWakeup, WalkQueue, MapThenFoldSet, Walked, D
<1> HIDE DEF P
<1>11. P(CHOOSE i : P(i))
  BY <1>9, Zenon
<1> DEFINE f == CHOOSE i : P(i)
<1>12. f = [s \in SUBSET D |-> IF s = {} THEN WakeStart(l, h)
                                ELSE WakeStep(f[s \ {Max(s)}], Walked[Max(s)])]
  BY <1>11, Zenon DEF P
<1>13. f[D] = ThreadLockWakeup(l, h)
  BY <1>10, Zenon
<1> HIDE DEF f
<1>14. \A s \in SUBSET D : f[s] = IF s = {} THEN WakeStart(l, h)
                                ELSE WakeStep(f[s \ {Max(s)}], Walked[Max(s)])
  BY <1>12, Zenon
<1>15. f[{}] = WakeStart(l, h)
  BY <1>14, Zenon
<1>16. \A s \in SUBSET D : s # {} => \E i \in s : f[s] = WakeStep(f[s \ {i}], Walked[i])
  BY <1>14, <1>6, Zenon
<1> QED
  BY <1>13, <1>15, <1>16, Zenon DEF D

\* ThreadLockWakeup grants their mode to some threads of the queue, and where the
\* counters were exact they are again.
LEMMA WakeupGrants ==
  ASSUME Walked \in Seq(Threads), IsInjective(Walked),
         \A t \in Range(Walked) : want[t] \in Modes,
         NEW l \in LockRecord, NEW h \in HoldsType
  PROVE  LET w == ThreadLockWakeup(l, h)
         IN  /\ w.holds \in HoldsType /\ w.lock \in LockRecord
             /\ w.lock.nHolding = l.nHolding
             /\ Exact(l, h) => Exact(w.lock, w.holds)
             /\ w.woken \in SUBSET Range(Walked)
             /\ \A u \in Threads : u \notin w.woken => w.holds[u] = h[u]
             /\ \A u \in w.woken : w.holds[u] = [h[u] EXCEPT ![want[u]] = @ + 1]
<1> DEFINE D == DOMAIN Walked
<1>1. PICK it : /\ it[D] = ThreadLockWakeup(l, h)
                /\ it[{}] = WakeStart(l, h)
                /\ \A s \in SUBSET D : s # {} => \E i \in s : it[s] = WakeStep(it[s \ {i}], Walked[i])
  BY WakeWalk, Zenon
<1> DEFINE Good(w, s) ==
             /\ w \in WakeType /\ w.lock.nHolding = l.nHolding
             /\ Exact(l, h) => Exact(w.lock, w.holds)
             /\ w.woken \in SUBSET {Walked[i] : i \in s}
             /\ \A u \in Threads : u \notin w.woken => w.holds[u] = h[u]
             /\ \A u \in w.woken : w.holds[u] = [h[u] EXCEPT ![want[u]] = @ + 1]
           G == {s \in SUBSET D : Good(it[s], s)}
<1>2. \A i \in D : Walked[i] \in Range(Walked) /\ Walked[i] \in Threads /\ want[Walked[i]] \in Modes
  BY DEF Range
<1>3. IsFiniteSet(D)
  BY FS_Interval
<1>4. \A i, j \in D : Walked[i] = Walked[j] => i = j
  BY Zenon DEF IsInjective
<1>5. {} \in G
  <2>1. Good(WakeStart(l, h), {})
    BY Zenon DEF WakeStart, WakeType
  <2> HIDE DEF Good
  <2> QED
    BY <2>1, <1>1, Zenon
<1> HIDE DEF D
<1>6. ASSUME NEW s \in SUBSET D, s # {}
      PROVE  \E x \in s : s \ {x} \in G => s \in G
  <2>1. PICK i \in s : it[s] = WakeStep(it[s \ {i}], Walked[i])
    BY <1>1, <1>6, Zenon
  <2> DEFINE w == it[s \ {i}]
             p == Walked[i]
  <2>2. ASSUME Good(w, s \ {i}) PROVE Good(WakeStep(w, p), s)
    <3>1. i \in D /\ p \in Threads /\ want[p] \in Modes
      BY <1>2, Zenon
    <3>2. /\ w \in WakeType /\ w.lock.nHolding = l.nHolding
          /\ Exact(l, h) => Exact(w.lock, w.holds)
          /\ w.lock \in LockRecord /\ w.holds \in HoldsType /\ w.woken \in SUBSET Threads
          /\ w.woken \in SUBSET {Walked[j] : j \in s \ {i}}
          /\ \A u \in Threads : u \notin w.woken => w.holds[u] = h[u]
          /\ \A u \in w.woken : w.holds[u] = [h[u] EXCEPT ![want[u]] = @ + 1]
      BY <2>2, Zenon DEF WakeType
    <3> HIDE DEF w
    <3>a. w \in WakeType
      BY <3>2, Zenon
    <3>b. w.woken \in SUBSET {Walked[j] : j \in s \ {i}}
      BY <3>2, Zenon
    <3>3. p \notin w.woken
      <4>1. p \notin {Walked[j] : j \in s \ {i}}
        BY <1>4, <3>1, Zenon
      <4> QED
        BY <4>1, <3>b, Zenon
    <3> DEFINE v == WakeStep(w, p)
    <3> HIDE DEF p
    <3>4. v \in WakeType
      BY <3>1, <3>a, WakeStepType, Zenon
    <3>5. w.woken \in SUBSET {Walked[j] : j \in s} /\ p \in {Walked[j] : j \in s}
      BY <3>b, Zenon DEF p
    <3> DEFINE g == GrantLock(w.holds, p, want[p])
               k == GrantCounts(w.lock, want[p])
    <3>6. CASE v.woken = w.woken /\ v.holds = w.holds /\ v.lock = w.lock
      BY <3>6, <3>2, <3>4, <3>5, Zenon
    <3>7. CASE /\ v.woken = w.woken \cup {p} /\ v.holds = g /\ v.lock = k
               /\ LockResolveConflicts(w.lock, w.holds, p, want[p])
      <4>1. /\ Exact(l, h) => Exact(k, g)
            /\ \A u \in Threads : u # p => g[u] = w.holds[u]
            /\ g[p] = [w.holds[p] EXCEPT ![want[p]] = @ + 1]
            /\ k.nHolding = l.nHolding
        <5> DEFINE wl == w.lock
                   wh == w.holds
                   m == want[p]
        <5>1. /\ wl \in LockRecord /\ wh \in HoldsType /\ p \in Threads /\ m \in Modes
              /\ LockResolveConflicts(wl, wh, p, m) /\ wl.nHolding = l.nHolding
              /\ Exact(l, h) => Exact(wl, wh)
          BY <3>1, <3>2, <3>7, Zenon
        <5>2. g = GrantLock(wh, p, m) /\ k = GrantCounts(wl, m)
          BY Zenon
        <5> HIDE DEF wl, wh, m, g, k
        <5>3. Exact(l, h) => Exact(GrantCounts(wl, m), GrantLock(wh, p, m))
          BY <5>1, ResolveSound, GrantExact, Zenon
        <5>4. /\ \A u \in Threads : u # p => GrantLock(wh, p, m)[u] = wh[u]
              /\ GrantLock(wh, p, m)[p] = [wh[p] EXCEPT ![m] = @ + 1]
          BY <5>1, GrantKeeps
        <5>5. GrantCounts(wl, m).nHolding = wl.nHolding
          BY <5>1, GrantFields, Zenon
        <5> QED
          BY <5>1, <5>2, <5>3, <5>4, <5>5, Zenon DEF wl, wh, m
      <4> HIDE DEF g, k, v
      <4>2. v.woken \in SUBSET {Walked[j] : j \in s}
        BY <3>5, <3>7, Zenon
      <4>3. \A u \in Threads : u \notin v.woken => v.holds[u] = h[u]
        BY <3>2, <3>7, <4>1, Zenon
      <4>4. g[p] = [h[p] EXCEPT ![want[p]] = @ + 1]
        BY <3>1, <3>2, <3>3, <4>1, Zenon
      <4>5. \A u \in v.woken : v.holds[u] = [h[u] EXCEPT ![want[u]] = @ + 1]
        <5> SUFFICES ASSUME NEW u \in v.woken
                     PROVE  v.holds[u] = [h[u] EXCEPT ![want[u]] = @ + 1]
          OBVIOUS
        <5>1. CASE u = p
          BY <5>1, <3>7, <4>4, Zenon
        <5>2. CASE u # p
          <6>1. u \in w.woken /\ u \in Threads
            BY <5>2, <3>2, <3>7, Zenon
          <6> QED
            BY <6>1, <5>2, <3>2, <3>7, <4>1, Zenon
        <5> QED
          BY <5>1, <5>2, Zenon
      <4> QED
        BY <3>4, <3>7, <4>1, <4>2, <4>3, <4>5, ZenonT(30) DEF v
    <3>8. \/ v.woken = w.woken /\ v.holds = w.holds /\ v.lock = w.lock
          \/ /\ v.woken = w.woken \cup {p} /\ v.holds = g /\ v.lock = k
             /\ LockResolveConflicts(w.lock, w.holds, p, want[p])
      BY <3>2, Zenon DEF WakeStep, WakeType
    <3> QED
      BY <3>6, <3>7, <3>8, Zenon
  <2> HIDE DEF Good
  <2> QED
    BY <2>1, <2>2, Zenon
<1> HIDE DEF G
<1>7. \A s \in SUBSET D : s \in G
  BY <1>3, <1>5, <1>6, SubsetInduction, Zenon
<1>8. Good(it[D], D)
  <2> HIDE DEF Good
  <2> QED
    BY <1>7, Zenon DEF G
<1>9. {Walked[i] : i \in D} = Range(Walked)
  BY Zenon DEF Range, D
<1> QED
  BY <1>1, <1>8, <1>9, Zenon DEF WakeType

DequeueStep(r, p, gone) == IF p \in gone THEN r ELSE Append(r, p)

\* ThreadDequeue is such a walk.
LEMMA DequeueWalk ==
  ASSUME NEW q \in Seq(Threads), NEW gone
  PROVE  \E it :
            /\ it[DOMAIN q] = ThreadDequeue(q, gone)
            /\ it[{}] = <<>>
            /\ \A s \in SUBSET DOMAIN q :
                 s # {} => \E i \in s : it[s] = DequeueStep(it[s \ {i}], q[i], gone)
<1> DEFINE D == DOMAIN q
           V == Seq(Threads)
           base == << >>
           step == [a \in V \X Range(q) |-> DequeueStep(a[1], a[2], gone)]
           P(it) == it = [s \in SUBSET D |-> IF s = {} THEN base
                                             ELSE DequeueStep(it[s \ {Max(s)}], q[Max(s)], gone)]
<1>1. Len(q) \in Nat /\ D = 1 .. Len(q) /\ \A i \in D : q[i] \in Range(q)
  BY DEF Range
<1>2. \A p \in Range(q) : p \in Threads
  BY DEF Range
<1>3. step \in [V \X Range(q) -> V]
  BY <1>2 DEF DequeueStep
<1>4. \A w \in V : \A p \in Range(q) : step[w, p] = DequeueStep(w, p, gone)
  BY Zenon
<1>5. base \in V
  OBVIOUS
<1>6. \A s \in SUBSET D : s # {} => Max(s) \in s
  BY <1>1, MaxMember, Zenon
<1>10. ThreadDequeue(q, gone) = (CHOOSE i : P(i))[D]
  BY Zenon DEF ThreadDequeue, WalkQueue, MapThenFoldSet, DequeueStep, D
<1> HIDE DEF step, base, V
<1>7. PICK it \in [SUBSET DOMAIN q -> V] : Walks(it, q, base, step)
  BY <1>3, <1>5, WalkStep, Zenon
<1> HIDE DEF D
<1>8. \A s \in SUBSET D : s # {} =>
         step[it[s \ {Max(s)}], q[Max(s)]] = DequeueStep(it[s \ {Max(s)}], q[Max(s)], gone)
  <2> SUFFICES ASSUME NEW s \in SUBSET D, s # {}
               PROVE  step[it[s \ {Max(s)}], q[Max(s)]] = DequeueStep(it[s \ {Max(s)}], q[Max(s)], gone)
    BY Zenon
  <2>1. Max(s) \in D /\ s \ {Max(s)} \in SUBSET D
    BY <1>6, Zenon
  <2>2. it[s \ {Max(s)}] \in V
    BY <2>1, <1>7, Zenon DEF D
  <2> QED
    BY <2>1, <2>2, <1>1, <1>4, Zenon
<1>9. \E i : P(i)
  <2>1. it = [s \in SUBSET D |->
                IF s = {} THEN base ELSE step[it[s \ {Max(s)}], q[Max(s)]]]
    BY <1>7, Zenon DEF D, Walks
  <2>2. P(it)
    BY <2>1, <1>8, Zenon
  <2> QED
    BY <2>2, Zenon
<1> HIDE DEF P
<1>11. P(CHOOSE i : P(i))
  BY <1>9, Zenon
<1> DEFINE f == CHOOSE i : P(i)
<1>12. f = [s \in SUBSET D |-> IF s = {} THEN base
                                ELSE DequeueStep(f[s \ {Max(s)}], q[Max(s)], gone)]
  BY <1>11, Zenon DEF P
<1>13. f[D] = ThreadDequeue(q, gone)
  BY <1>10, Zenon
<1> HIDE DEF f
<1>14. \A s \in SUBSET D : f[s] = IF s = {} THEN base
                                ELSE DequeueStep(f[s \ {Max(s)}], q[Max(s)], gone)
  BY <1>12, Zenon
<1>15. f[{}] = base
  BY <1>14, Zenon
<1>16. \A s \in SUBSET D : s # {} => \E i \in s : f[s] = DequeueStep(f[s \ {i}], q[i], gone)
  BY <1>14, <1>6, Zenon
<1> QED
  BY <1>13, <1>15, <1>16, Zenon DEF D, base

\* Appending a thread that is not there keeps the threads of a queue apart.
LEMMA AppendNew ==
  ASSUME NEW r \in Seq(Threads), NEW x \in Threads, x \notin Range(r), IsInjective(r)
  PROVE  /\ Append(r, x) \in Seq(Threads) /\ IsInjective(Append(r, x))
         /\ Range(Append(r, x)) = Range(r) \cup {x}
<1> DEFINE a == Append(r, x)
<1>1. /\ a \in Seq(Threads) /\ Len(a) = Len(r) + 1 /\ a[Len(r) + 1] = x
      /\ \A i \in 1 .. Len(r) : a[i] = r[i]
  BY AppendProperties
<1>2. Len(r) \in Nat /\ DOMAIN r = 1 .. Len(r) /\ DOMAIN a = 1 .. Len(r) + 1
  BY <1>1
<1> HIDE DEF a
<1>3. \A i \in DOMAIN a : i \in DOMAIN r \/ i = Len(r) + 1
  BY <1>2
<1>4. \A i \in DOMAIN r : r[i] # x
  BY Zenon DEF Range
<1>5. IsInjective(a)
  <2> SUFFICES ASSUME NEW i \in DOMAIN a, NEW j \in DOMAIN a, a[i] = a[j] PROVE i = j
    BY Zenon DEF IsInjective
  <2>1. \A k, l \in DOMAIN r : r[k] = r[l] => k = l
    BY Zenon DEF IsInjective
  <2> QED
    BY <1>1, <1>2, <1>3, <1>4, <2>1, Zenon
<1>6. Range(a) = Range(r) \cup {x}
  BY <1>1, <1>2, <1>3 DEF Range
<1> QED
  BY <1>1, <1>5, <1>6, Zenon DEF a

\* ThreadDequeue keeps the others.
LEMMA DequeueKeeps ==
  ASSUME NEW q \in Seq(Threads), IsInjective(q), NEW gone
  PROVE  /\ ThreadDequeue(q, gone) \in Seq(Threads)
         /\ IsInjective(ThreadDequeue(q, gone))
         /\ Range(ThreadDequeue(q, gone)) = Range(q) \ gone
<1> DEFINE D == DOMAIN q
<1>1. PICK it : /\ it[D] = ThreadDequeue(q, gone)
                /\ it[{}] = <<>>
                /\ \A s \in SUBSET D : s # {} => \E i \in s : it[s] = DequeueStep(it[s \ {i}], q[i], gone)
  BY DequeueWalk, Zenon
<1> DEFINE Good(r, s) == r \in Seq(Threads) /\ IsInjective(r) /\ Range(r) = {q[i] : i \in s} \ gone
           G == {s \in SUBSET D : Good(it[s], s)}
<1>2. \A i \in D : q[i] \in Threads
  OBVIOUS
<1>3. IsFiniteSet(D)
  BY FS_Interval
<1>4. \A i, j \in D : q[i] = q[j] => i = j
  BY Zenon DEF IsInjective
<1>5. {} \in G
  <2>1. Good(<< >>, {})
    BY DEF IsInjective, Range
  <2> HIDE DEF Good
  <2> QED
    BY <2>1, <1>1, Zenon
<1> HIDE DEF D
<1>6. ASSUME NEW s \in SUBSET D, s # {}
      PROVE  \E x \in s : s \ {x} \in G => s \in G
  <2>1. PICK i \in s : it[s] = DequeueStep(it[s \ {i}], q[i], gone)
    BY <1>1, <1>6, Zenon
  <2>2. ASSUME NEW r, Good(r, s \ {i}) PROVE Good(DequeueStep(r, q[i], gone), s)
    <3>1. q[i] \notin {q[j] : j \in s \ {i}} /\ {q[j] : j \in s} = {q[j] : j \in s \ {i}} \cup {q[i]}
      BY <1>4, Zenon
    <3>2. CASE q[i] \in gone
      BY <2>2, <3>1, <3>2, Zenon DEF DequeueStep
    <3>3. CASE q[i] \notin gone
      <4>1. r \in Seq(Threads) /\ IsInjective(r) /\ q[i] \in Threads /\ q[i] \notin Range(r)
        BY <2>2, <3>1, <1>2, Zenon
      <4>2. /\ Append(r, q[i]) \in Seq(Threads) /\ IsInjective(Append(r, q[i]))
            /\ Range(Append(r, q[i])) = Range(r) \cup {q[i]}
        BY <4>1, AppendNew, Zenon
      <4>3. DequeueStep(r, q[i], gone) = Append(r, q[i])
        BY <3>3, Zenon DEF DequeueStep
      <4>4. Range(r) \cup {q[i]} = {q[j] : j \in s} \ gone
        BY <2>2, <3>1, <3>3, Zenon
      <4> QED
        BY <4>2, <4>3, <4>4, Zenon
    <3> QED
      BY <3>2, <3>3, Zenon
  <2> HIDE DEF Good
  <2> QED
    BY <2>1, <2>2, Zenon
<1> HIDE DEF G
<1>7. \A s \in SUBSET D : s \in G
  BY <1>3, <1>5, <1>6, SubsetInduction, Zenon
<1>8. Good(it[D], D)
  <2> HIDE DEF Good
  <2> QED
    BY <1>7, Zenon DEF G
<1>9. {q[i] : i \in D} = Range(q)
  BY Zenon DEF Range, D
<1> QED
  BY <1>1, <1>8, <1>9, Zenon

EnqueueType == [at : Nat, mask : SUBSET Modes, same : BOOLEAN, stop : BOOLEAN, dead : BOOLEAN,
                ahead : [Modes -> Int]]
EnqueueStart(m) ==
  [at |-> 1, mask |-> waitMask, same |-> FALSE, stop |-> FALSE, dead |-> FALSE,
   ahead |-> [lock.activeHolders EXCEPT ![m] = @ + 1]]

\* The types of a turn of ThreadEnqueue, which goes on by at most one place.
LEMMA EnqueueStepType ==
  ASSUME NEW w \in EnqueueType, NEW t, NEW m, NEW p, want[p] \in Modes
  PROVE  /\ EnqueueStep(t, m, w, p) \in EnqueueType
         /\ EnqueueStep(t, m, w, p).at \in {w.at, w.at + 1}
<1> DEFINE pm == want[p]
           ahead == [w.ahead EXCEPT ![pm] = @ + 1]
           same == (pm = m)
           out == w.mask \ {pm}
           x0 == [w EXCEPT !.stop = TRUE, !.dead = TRUE]
           x1 == [w EXCEPT !.stop = TRUE]
           x2 == [w EXCEPT !.at = @ + 1, !.same = same, !.ahead = ahead, !.mask = out]
           x3 == [w EXCEPT !.at = @ + 1, !.same = same, !.ahead = ahead, !.mask = @]
           v == EnqueueStep(t, m, w, p)
<1>1. v \in {w, x0, x1, x2, x3}
  BY Zenon DEF EnqueueStep
<1>2. ahead \in [Modes -> Int] /\ out \in SUBSET Modes /\ w.at \in Nat /\ w.at + 1 \in Nat
  BY DEF EnqueueType
<1>3. same \in BOOLEAN
  BY Zenon
<1> HIDE DEF ahead, same, out, v, pm
<1>4. x0 \in EnqueueType /\ x0.at = w.at
  BY Zenon DEF EnqueueType
<1>5. x1 \in EnqueueType /\ x1.at = w.at
  BY Zenon DEF EnqueueType
<1>6. x2 \in EnqueueType /\ x2.at = w.at + 1
  BY <1>2, <1>3, Zenon DEF EnqueueType
<1>7. x3 \in EnqueueType /\ x3.at = w.at + 1
  BY <1>2, <1>3, Zenon DEF EnqueueType
<1> HIDE DEF x0, x1, x2, x3
<1>8. v \in EnqueueType /\ v.at \in {w.at, w.at + 1}
  BY <1>1, <1>4, <1>5, <1>6, <1>7, Zenon
<1> QED
  BY <1>8, Zenon DEF v

EnqueueWalks(it, t, m) ==
  /\ it[DOMAIN Walked] = ThreadEnqueue(t, m)
  /\ it[{}] = EnqueueStart(m)
  /\ \A s \in SUBSET DOMAIN Walked :
       s # {} => \E i \in s : it[s] = EnqueueStep(t, m, it[s \ {i}], Walked[i])

\* ThreadEnqueue is a walk, unless waitMask lets it stop at once.
LEMMA EnqueueWalk ==
  ASSUME Walked \in Seq(Threads), \A p \in Range(Walked) : want[p] \in Modes,
         NEW t, NEW m, EnqueueStart(m) \in EnqueueType,
         LockConflicts[m] \cap waitMask # {}
  PROVE  \E it : EnqueueWalks(it, t, m)
<1> DEFINE D == DOMAIN Walked
           V == EnqueueType
           base == EnqueueStart(m)
           step == [a \in V \X Range(Walked) |-> EnqueueStep(t, m, a[1], a[2])]
           P(it) == it = [s \in SUBSET D |-> IF s = {} THEN base
                                             ELSE EnqueueStep(t, m, it[s \ {Max(s)}], Walked[Max(s)])]
<1>1. Len(Walked) \in Nat /\ D = 1 .. Len(Walked) /\ \A i \in D : Walked[i] \in Range(Walked)
  BY DEF Range
<1>2. \A p \in Range(Walked) : want[p] \in Modes
  BY Zenon
<1>3. step \in [V \X Range(Walked) -> V]
  BY <1>2, EnqueueStepType, Zenon
<1>4. \A w \in V : \A p \in Range(Walked) : step[w, p] = EnqueueStep(t, m, w, p)
  BY Zenon
<1>5. base \in V
  BY Zenon
<1>6. \A s \in SUBSET D : s # {} => Max(s) \in s
  BY <1>1, MaxMember, Zenon
<1>10. ThreadEnqueue(t, m) = (CHOOSE i : P(i))[D]
  BY Zenon DEF ThreadEnqueue, WalkQueue, MapThenFoldSet, EnqueueStart, Walked, D
<1> HIDE DEF step, base, V
<1>7. PICK it \in [SUBSET DOMAIN Walked -> V] : Walks(it, Walked, base, step)
  BY <1>3, <1>5, WalkStep, Zenon
<1> HIDE DEF D
<1>8. \A s \in SUBSET D : s # {} =>
         step[it[s \ {Max(s)}], Walked[Max(s)]] = EnqueueStep(t, m, it[s \ {Max(s)}], Walked[Max(s)])
  <2> SUFFICES ASSUME NEW s \in SUBSET D, s # {}
               PROVE  step[it[s \ {Max(s)}], Walked[Max(s)]] = EnqueueStep(t, m, it[s \ {Max(s)}], Walked[Max(s)])
    BY Zenon
  <2>1. Max(s) \in D /\ s \ {Max(s)} \in SUBSET D
    BY <1>6, Zenon
  <2>2. it[s \ {Max(s)}] \in V
    BY <2>1, <1>7, Zenon DEF D
  <2> QED
    BY <2>1, <2>2, <1>1, <1>4, Zenon
<1>9. \E i : P(i)
  <2>1. it = [s \in SUBSET D |->
                IF s = {} THEN base ELSE step[it[s \ {Max(s)}], Walked[Max(s)]]]
    BY <1>7, Zenon DEF D, Walks
  <2>2. P(it)
    BY <2>1, <1>8, Zenon
  <2> QED
    BY <2>2, Zenon
<1> HIDE DEF P
<1>11. P(CHOOSE i : P(i))
  BY <1>9, Zenon
<1> DEFINE f == CHOOSE i : P(i)
<1>12. f = [s \in SUBSET D |-> IF s = {} THEN base
                                ELSE EnqueueStep(t, m, f[s \ {Max(s)}], Walked[Max(s)])]
  BY <1>11, Zenon DEF P
<1>13. f[D] = ThreadEnqueue(t, m)
  BY <1>10, Zenon
<1> HIDE DEF f
<1>14. \A s \in SUBSET D : f[s] = IF s = {} THEN base
                                ELSE EnqueueStep(t, m, f[s \ {Max(s)}], Walked[Max(s)])
  BY <1>12, Zenon
<1>15. f[{}] = base
  BY <1>14, Zenon
<1>16. \A s \in SUBSET D : s # {} => \E i \in s : f[s] = EnqueueStep(t, m, f[s \ {i}], Walked[i])
  BY <1>14, <1>6, Zenon
<1> QED
  BY <1>13, <1>15, <1>16, Zenon DEF D, base, EnqueueWalks


\* The walk of ThreadEnqueue stops in the queue or at its end.
LEMMA EnqueueStops ==
  ASSUME Walked \in Seq(Threads), \A p \in Range(Walked) : want[p] \in Modes,
         lock \in LockRecord, waitMask \in SUBSET Modes, NEW t, NEW m \in Modes
  PROVE  /\ ThreadEnqueue(t, m).at \in 1 .. Len(Walked) + 1
         /\ ThreadEnqueue(t, m).mask \in SUBSET Modes
<1>1. EnqueueStart(m) \in EnqueueType /\ EnqueueStart(m).at = 1
  <2> DEFINE a == [lock.activeHolders EXCEPT ![m] = @ + 1]
  <2>1. a \in [Modes -> Int]
    BY DEF LockRecord
  <2> HIDE DEF a
  <2>2. EnqueueStart(m) = [at |-> 1, mask |-> waitMask, same |-> FALSE, stop |-> FALSE, dead |-> FALSE,
                           ahead |-> a]
    BY Zenon DEF EnqueueStart, a
  <2> QED
    BY <2>1, <2>2 DEF EnqueueType
<1>2. Len(Walked) \in Nat /\ DOMAIN Walked = 1 .. Len(Walked) /\ \A i \in DOMAIN Walked : want[Walked[i]] \in Modes
  BY DEF Range
<1>3. CASE LockConflicts[m] \cap waitMask = {}
  <2>1. ThreadEnqueue(t, m) = EnqueueStart(m)
    BY <1>3, Zenon DEF ThreadEnqueue, EnqueueStart
  <2>2. 1 \in 1 .. Len(Walked) + 1
    BY <1>2
  <2> QED
    BY <2>1, <2>2, <1>1, Zenon DEF EnqueueType
<1>4. CASE LockConflicts[m] \cap waitMask # {}
  <2> DEFINE D == DOMAIN Walked
             Good(w, s) == w \in EnqueueType /\ 1 <= w.at /\ w.at <= Cardinality(s) + 1
  <2>1. PICK it : /\ it[D] = ThreadEnqueue(t, m)
                  /\ it[{}] = EnqueueStart(m)
                  /\ \A s \in SUBSET D : s # {} => \E i \in s : it[s] = EnqueueStep(t, m, it[s \ {i}], Walked[i])
    <3>1. \E i : EnqueueWalks(i, t, m)
      BY <1>1, <1>4, EnqueueWalk, Zenon
    <3> QED
      BY <3>1, Zenon DEF EnqueueWalks
  <2> DEFINE G == {s \in SUBSET D : Good(it[s], s)}
  <2>2. IsFiniteSet(D) /\ Cardinality(D) = Len(Walked)
    <3>1. \A n \in Nat : IsFiniteSet(1 .. n) /\ Cardinality(1 .. n) = n
      BY FS_Interval
    <3> QED
      BY <1>2, <3>1, Zenon
  <2>3. {} \in G
    <3>1. Good(EnqueueStart(m), {})
      BY <1>1, FS_EmptySet
    <3> HIDE DEF Good
    <3> QED
      BY <3>1, <2>1, Zenon
  <2> HIDE DEF D
  <2>4. ASSUME NEW s \in SUBSET D, s # {}
        PROVE  \E x \in s : s \ {x} \in G => s \in G
    <3>1. PICK i \in s : it[s] = EnqueueStep(t, m, it[s \ {i}], Walked[i])
      BY <2>1, <2>4, Zenon
    <3>2. Cardinality(s) \in Nat /\ Cardinality(s \ {i}) = Cardinality(s) - 1
      BY <2>2, FS_Subset, FS_CardinalityType, FS_RemoveElement, Zenon
    <3>3. want[Walked[i]] \in Modes
      BY <1>2, Zenon DEF D
    <3>4. ASSUME NEW w, Good(w, s \ {i}) PROVE Good(EnqueueStep(t, m, w, Walked[i]), s)
      <4> DEFINE v == EnqueueStep(t, m, w, Walked[i])
      <4>1. v \in EnqueueType /\ v.at \in {w.at, w.at + 1}
        BY <3>3, <3>4, EnqueueStepType, Zenon
      <4>2. w.at \in Nat /\ 1 <= w.at /\ w.at <= Cardinality(s \ {i}) + 1
        BY <3>4, Zenon DEF EnqueueType
      <4> HIDE DEF v
      <4>3. 1 <= v.at /\ v.at <= Cardinality(s) + 1
        BY <4>1, <4>2, <3>2
      <4> QED
        BY <4>1, <4>3, Zenon DEF v
    <3> HIDE DEF Good
    <3> QED
      BY <3>1, <3>4, Zenon
  <2> HIDE DEF G
  <2>5. \A s \in SUBSET D : s \in G
    BY <2>2, <2>3, <2>4, SubsetInduction, Zenon
  <2>6. Good(it[D], D)
    <3> HIDE DEF Good
    <3> QED
      BY <2>5, Zenon DEF G
  <2>7. /\ ThreadEnqueue(t, m) \in EnqueueType
        /\ 1 <= ThreadEnqueue(t, m).at /\ ThreadEnqueue(t, m).at <= Len(Walked) + 1
    BY <2>1, <2>2, <2>6, Zenon
  <2> QED
    BY <2>7, <1>2 DEF EnqueueType
<1> QED
  BY <1>3, <1>4, Zenon

\* A thread put into the queue is in it, and in it once.
LEMMA InsertNew ==
  ASSUME NEW q \in Seq(Threads), NEW x \in Threads, x \notin Range(q), IsInjective(q),
         NEW k \in 1 .. Len(q) + 1
  PROVE  /\ SHMQueueInsertTL(q, k, x) \in Seq(Threads) /\ IsInjective(SHMQueueInsertTL(q, k, x))
         /\ Range(SHMQueueInsertTL(q, k, x)) = Range(q) \cup {x}
<1> DEFINE a == SHMQueueInsertTL(q, k, x)
           n == Len(q)
<1>0. n \in Nat /\ k \in Nat /\ k >= 1 /\ k <= n + 1 /\ DOMAIN q = 1 .. n
  OBVIOUS
<1>1. /\ a \in Seq(Threads) /\ Len(a) = n + 1 /\ a[k] = x
      /\ \A i \in 1 .. k - 1 : a[i] = q[i]
      /\ \A i \in k + 1 .. n + 1 : a[i] = q[i - 1]
  <2> DEFINE l == SubSeq(q, 1, k - 1)
             r == SubSeq(q, k, n)
             lx == l \o <<x>>
  <2>1. /\ l \in Seq(Threads) /\ Len(l) = k - 1
        /\ \A i \in 1 .. k - 1 : l[i] = q[i]
    <3>1. k - 1 \in 1 - 1 .. n
      BY <1>0
    <3> QED
      BY <3>1, <1>0, SubSeqProperties
  <2>2. /\ r \in Seq(Threads) /\ Len(r) = n - k + 1
        /\ \A i \in 1 .. n - k + 1 : r[i] = q[k + i - 1]
    BY <1>0, SubSeqProperties
  <2>3. <<x>> \in Seq(Threads) /\ Len(<<x>>) = 1 /\ <<x>>[1] = x
    OBVIOUS
  <2> HIDE DEF l, r
  <2>4. /\ lx \in Seq(Threads) /\ Len(lx) = k /\ lx[k] = x
        /\ \A i \in 1 .. k - 1 : lx[i] = q[i]
    BY <2>1, <2>3, <1>0, ConcatProperties
  <2>5. a = lx \o r
    BY Zenon DEF SHMQueueInsertTL, l, r
  <2> HIDE DEF lx, a
  <2>6. /\ lx \o r \in Seq(Threads) /\ Len(lx \o r) = n + 1
        /\ \A i \in 1 .. k : (lx \o r)[i] = lx[i]
        /\ \A i \in k + 1 .. n + 1 : (lx \o r)[i] = r[i - k]
    BY <2>2, <2>4, <1>0, ConcatProperties, SMTT(30)
  <2>7. \A i \in k + 1 .. n + 1 : i - k \in 1 .. n - k + 1 /\ k + (i - k) - 1 = i - 1
    BY <1>0
  <2>8. \A i \in k + 1 .. n + 1 : a[i] = q[i - 1]
    BY <2>2, <2>5, <2>6, <2>7, SMTT(30)
  <2>9. k \in 1 .. k /\ \A i \in 1 .. k - 1 : i \in 1 .. k
    BY <1>0
  <2>10. a \in Seq(Threads) /\ Len(a) = n + 1 /\ \A i \in 1 .. k : a[i] = lx[i]
    BY <2>5, <2>6, Zenon
  <2>11. a[k] = x /\ \A i \in 1 .. k - 1 : a[i] = q[i]
    BY <2>4, <2>9, <2>10, Zenon
  <2> QED
    BY <2>8, <2>10, <2>11, Zenon
<1>2. DOMAIN a = 1 .. n + 1
  BY <1>1
<1> HIDE DEF a, n
<1>3. \A i \in DOMAIN q : q[i] # x
  BY Zenon DEF Range
<1>4. \A i \in DOMAIN a : i \in 1 .. k - 1 \/ i = k \/ i \in k + 1 .. n + 1
  BY <1>0, <1>2
<1>5. (\A i \in 1 .. k - 1 : i \in DOMAIN q) /\ \A i \in k + 1 .. n + 1 : i - 1 \in DOMAIN q
  BY <1>0
<1>6. IsInjective(a)
  <2> SUFFICES ASSUME NEW i \in DOMAIN a, NEW j \in DOMAIN a, a[i] = a[j] PROVE i = j
    BY Zenon DEF IsInjective
  <2>1. \A u, v \in DOMAIN q : q[u] = q[v] => u = v
    BY Zenon DEF IsInjective
  <2>2. ASSUME NEW u \in 1 .. k - 1, NEW v \in k + 1 .. n + 1 PROVE a[u] # a[v]
    <3>1. a[u] = q[u] /\ a[v] = q[v - 1] /\ u \in DOMAIN q /\ v - 1 \in DOMAIN q
      BY <1>1, <1>5, Zenon
    <3>2. u # v - 1
      BY <1>0
    <3> QED
      BY <3>1, <3>2, <2>1, Zenon
  <2>3. CASE i = k \/ j = k
    BY <2>3, <1>0, <1>1, <1>3, <1>4, <1>5, ZenonT(30)
  <2>4. CASE i # k /\ j # k
    <3>1. CASE i \in 1 .. k - 1 /\ j \in 1 .. k - 1
      BY <3>1, <2>1, <1>1, <1>5, Zenon
    <3>2. CASE i \in k + 1 .. n + 1 /\ j \in k + 1 .. n + 1
      <4>1. i - 1 = j - 1
        <5>1. a[i] = q[i - 1] /\ a[j] = q[j - 1] /\ i - 1 \in DOMAIN q /\ j - 1 \in DOMAIN q
          BY <3>2, <1>1, <1>5, Zenon
        <5> QED
          BY <5>1, <2>1, Zenon
      <4> QED
        BY <4>1, <3>2, <1>0
    <3>3. ~(i \in 1 .. k - 1 /\ j \in k + 1 .. n + 1) /\ ~(j \in 1 .. k - 1 /\ i \in k + 1 .. n + 1)
      BY <2>2, Zenon
    <3> QED
      BY <3>1, <3>2, <3>3, <2>4, <1>4, Zenon
  <2> QED
    BY <2>3, <2>4, Zenon
<1>7. Range(a) = Range(q) \cup {x}
  <2>1. \A i \in DOMAIN a : a[i] \in Range(q) \cup {x}
    BY <1>1, <1>4, <1>5, Zenon DEF Range
  <2>2. \A j \in DOMAIN q : \E i \in DOMAIN a : a[i] = q[j]
    <3> TAKE j \in DOMAIN q
    <3>1. CASE j < k
      <4>1. j \in 1 .. k - 1 /\ j \in DOMAIN a
        BY <3>1, <1>0, <1>2
      <4> QED
        BY <4>1, <1>1, Zenon
    <3>2. CASE j >= k
      <4>1. j + 1 \in k + 1 .. n + 1 /\ j + 1 \in DOMAIN a /\ (j + 1) - 1 = j
        BY <3>2, <1>0, <1>2, SMTT(30)
      <4> QED
        BY <4>1, <1>1, Zenon
    <3> QED
      BY <3>1, <3>2, <1>0, SMTT(30)
  <2>3. k \in DOMAIN a /\ a[k] = x
    BY <1>0, <1>1, <1>2
  <2> QED
    BY <2>1, <2>2, <2>3, Zenon DEF Range
<1> QED
  BY <1>1, <1>6, <1>7, Zenon DEF a


-----------------------------------------------------------------------------
(* The invariant.                                                          *)

\* The types, without the bounds that only the model has.
LockTypes ==
  /\ entry \in BOOLEAN /\ refs \in Nat /\ removing \in Nat
  /\ lpc \in [Threads -> {"out", "acquire", "asleep", "failed", "release", "releaseAll"}]
  /\ want \in [Threads -> Modes \cup {NoMode}]
  /\ holder \in [Threads -> BOOLEAN]
  /\ holds \in HoldsType /\ lock \in LockRecord
  /\ queue \in Seq(Threads) /\ twice \in Nat
  /\ waitMask \in SUBSET Modes /\ orig \in [Threads -> SUBSET Modes]

\* The queue holds sleeping threads, each once.
WaitersInv ==
  /\ IsInjective(queue)
  /\ \A t \in Range(queue) : lpc[t] = "asleep"

\* What the place of a thread says of its mode and its holder.
ThreadInv(t) ==
  /\ lpc[t] \in {"acquire", "asleep"} => want[t] \in Modes
  /\ lpc[t] = "release" => want[t] \in Modes /\ holds[t][want[t]] > 0
  /\ lpc[t] \in {"acquire", "asleep", "failed"} => holder[t]
  /\ nHolding(holds, t) > 0 => holder[t]
  /\ lpc[t] = "out" /\ holder[t] => nHolding(holds, t) > 0
  /\ lpc[t] = "asleep" /\ t \notin Range(queue) => nHolding(holds, t) > 0

\* A thread that has been counted for a lock it has not got.
Asks(t) ==
  \/ lpc[t] = "acquire"
  \/ lpc[t] = "asleep" /\ t \in Range(queue)

\* A thread between HASH_FIND and HASH_REMOVE, and its share in lock->removing.
Releases(t) == lpc[t] \in {"release", "releaseAll"}

\* The references to the entry that t may still give back with HASH_FIND.  A thread
\* that failed has one for the lock it asked for, or was granted it after all.
Claim(t) ==
  LET n == nHolding(holds, t)
  IN  IF Releases(t) THEN IF n = 0 THEN 0 ELSE n - 1
      ELSE IF Asks(t) THEN n + 1
      ELSE IF lpc[t] = "failed" /\ n = 0 THEN 1 ELSE n

Claims == [t \in Threads |-> Claim(t)]
Share(t) == IF Releases(t) THEN 1 ELSE 0
Leaving == [t \in Threads |-> Share(t)]

\* The counters of the entry cover the threads that are about.
TableInv == SumOver(Claims) <= refs /\ SumOver(Leaving) <= removing

\* An entry that has gone was left by everybody.
EmptyInv == ~entry => refs = 0 /\ removing = 0

\* What t has in lock->nHolding: what it holds, and what it waits for.
Count(t) == nHolding(holds, t) + (IF t \in Range(queue) THEN 1 ELSE 0)
Counts == [t \in Threads |-> Count(t)]

\* The counters of the lock are exact until a thread is dequeued twice.
CountsInv == twice = 0 => Exact(lock, holds) /\ lock.nHolding = SumOver(Counts)

\* What every step of the lock manager keeps.
LockInv ==
  /\ LockTypes /\ WaitersInv /\ TableInv /\ EmptyInv
  /\ \A t \in Threads : ThreadInv(t)
  /\ CountsInv /\ (Asserts => twice = 0)
  /\ EntryOutlivesUsers

-----------------------------------------------------------------------------
(* How the counts of a thread change.                                      *)

\* LockRelease takes one from what its thread holds, and from nobody else.
LEMMA CountDrop ==
  ASSUME NEW h \in HoldsType, NEW t \in Threads, NEW m \in Modes, h[t][m] > 0
  PROVE  LET g == [h EXCEPT ![t][m] = @ - 1]
         IN  /\ g \in HoldsType /\ nHolding(g, t) = nHolding(h, t) - 1
             /\ \A u \in Threads : u # t => g[u] = h[u]
             /\ \A u \in Threads : HoldLock(g, u) \in SUBSET HoldLock(h, u)
<1> DEFINE g == [h EXCEPT ![t][m] = @ - 1]
<1>1. h[t] \in [Modes -> Nat] /\ h[t][m] \in Nat /\ h[t][m] - 1 \in Nat
  BY DEF HoldsType
<1>2. g \in HoldsType
  BY <1>1, Zenon DEF HoldsType
<1>3. (\A x \in Modes : x # m => g[t][x] = h[t][x]) /\ g[t][m] = h[t][m] - 1
  BY <1>1, Zenon DEF HoldsType
<1>4. \A u \in Threads : u # t => g[u] = h[u]
  BY Zenon DEF HoldsType
<1> HIDE DEF g
<1>5. nHolding(g, t) + h[t][m] = nHolding(h, t) + g[t][m]
  BY <1>2, <1>3, CountChange, Zenon
<1>6. nHolding(g, t) \in Nat /\ nHolding(h, t) \in Nat
  BY <1>2, CountType, Zenon
<1>7. nHolding(g, t) = nHolding(h, t) - 1
  BY <1>1, <1>3, <1>5, <1>6
<1>8. \A u \in Threads : HoldLock(g, u) \in SUBSET HoldLock(h, u)
  <2>1. ASSUME NEW x \in Modes, g[t][x] > 0 PROVE h[t][x] > 0
    BY <2>1, <1>3, Zenon
  <2>2. HoldLock(g, t) \in SUBSET HoldLock(h, t)
    BY <2>1, Zenon DEF HoldLock
  <2>3. \A u \in Threads : u # t => HoldLock(g, u) = HoldLock(h, u)
    BY <1>4, Zenon DEF HoldLock
  <2> QED
    BY <2>2, <2>3, Zenon
<1> QED
  BY <1>2, <1>4, <1>7, <1>8, Zenon DEF g

\* LockReleaseAll leaves its thread without holds, and the others theirs.
LEMMA CountNone ==
  ASSUME NEW h \in HoldsType, NEW t \in Threads
  PROVE  LET g == [h EXCEPT ![t] = NoHolds]
         IN  /\ g \in HoldsType /\ nHolding(g, t) = 0
             /\ \A u \in Threads : u # t => g[u] = h[u]
             /\ \A u \in Threads : HoldLock(g, u) \in SUBSET HoldLock(h, u)
<1> DEFINE g == [h EXCEPT ![t] = NoHolds]
<1>1. NoHolds \in [Modes -> Nat] /\ \A m \in Modes : NoHolds[m] = 0
  BY Zenon DEF NoHolds
<1>2. g \in HoldsType /\ g[t] = NoHolds /\ \A u \in Threads : u # t => g[u] = h[u]
  BY <1>1, Zenon DEF HoldsType
<1> HIDE DEF g
<1>3. nHolding(g, t) = SumOver(NoHolds)
  BY <1>2, nHoldingSum, Zenon
<1>4. SumOver(NoHolds) = 0
  BY <1>1, ModesFinite, SumOverBounds, Zenon
<1>5. HoldLock(g, t) = {}
  BY <1>1, <1>2 DEF HoldLock
<1>6. \A u \in Threads : HoldLock(g, u) \in SUBSET HoldLock(h, u)
  BY <1>2, <1>5, Zenon DEF HoldLock
<1> QED
  BY <1>2, <1>3, <1>4, <1>6, Zenon DEF g

\* Giving up modes brings no conflict about.
LEMMA FewerConflicts ==
  ASSUME NEW h, NEW g, ConflictFree(h), \A u \in Threads : HoldLock(g, u) \in SUBSET HoldLock(h, u)
  PROVE  ConflictFree(g)
BY Zenon DEF ConflictFree

-----------------------------------------------------------------------------
(* What a step has to show.                                                *)

\* What the invariant says, with the counts as numbers.
LEMMA InvariantParts ==
  ASSUME LockInv
  PROVE  /\ LockTypes /\ WaitersInv /\ TableInv /\ EmptyInv
         /\ CountsInv /\ (Asserts => twice = 0) /\ EntryOutlivesUsers
         /\ \A t \in Threads : ThreadInv(t) /\ nHolding(holds, t) \in Nat
<1>1. \A t \in Threads : nHolding(holds, t) \in Nat
  BY CountType, Zenon DEF LockInv, LockTypes
<1> QED
  BY <1>1, Zenon DEF LockInv

\* The counters bound the share of each thread.
LEMMA TableBounds ==
  ASSUME LockInv, NEW t \in Threads
  PROVE  /\ Claim(t) \in Nat /\ Claim(t) <= refs /\ refs \in Nat
         /\ Releases(t) => removing >= 1
         /\ removing \in Nat
<1>1. LockTypes /\ TableInv /\ \A u \in Threads : nHolding(holds, u) \in Nat
  BY InvariantParts, Zenon
<1>2. Claims \in [Threads -> Nat] /\ Leaving \in [Threads -> Nat]
  BY <1>1 DEF Claims, Claim, Leaving, Share
<1>3. IsFiniteSet(Threads)
  BY LockAssumption, Zenon
<1>4. /\ SumOver(Claims) \in Nat /\ Claims[t] <= SumOver(Claims)
      /\ SumOver(Leaving) \in Nat /\ Leaving[t] <= SumOver(Leaving)
  BY <1>2, <1>3, SumOverBounds, Zenon
<1>5. Claims[t] = Claim(t) /\ Claims[t] \in Nat /\ (Releases(t) => Leaving[t] = 1)
  BY <1>2, Zenon DEF Claims, Leaving, Share
<1>6. /\ refs \in Nat /\ removing \in Nat
      /\ SumOver(Claims) <= refs /\ SumOver(Leaving) <= removing
  BY <1>1, Zenon DEF LockTypes, TableInv
<1> QED
  BY <1>4, <1>5, <1>6

\* What a thread that takes no step keeps.
Kept(u) ==
  /\ ThreadInv(u)' /\ Claim(u)' = Claim(u) /\ (Releases(u)' <=> Releases(u))
  /\ Count(u)' = Count(u)
  /\ lpc'[u] = lpc[u] /\ holder'[u] = holder[u]

\* A thread that a step leaves alone keeps its claim.
LEMMA OtherKept ==
  ASSUME LockInv, holds' \in HoldsType, NEW u \in Threads,
         lpc'[u] = lpc[u], want'[u] = want[u], holder'[u] = holder[u], holds'[u] = holds[u],
         u \in Range(queue') <=> u \in Range(queue)
  PROVE  Kept(u)
<1>1. ThreadInv(u) /\ holds \in HoldsType
  BY InvariantParts, Zenon DEF LockTypes
<1>2. nHolding(holds', u) = nHolding(holds, u)
  BY <1>1, CountSame, Zenon
<1>3. ThreadInv(u)'
  BY <1>1, <1>2, Zenon DEF ThreadInv
<1>4. (Releases(u)' <=> Releases(u)) /\ (Asks(u)' <=> Asks(u))
  BY Zenon DEF Releases, Asks
<1>5. Claim(u)' = Claim(u)
  BY <1>2, <1>4, Zenon DEF Claim
<1>6. Count(u)' = Count(u)
  BY <1>2, Zenon DEF Count
<1> QED
  BY <1>3, <1>4, <1>5, <1>6, Zenon DEF Kept

\* A thread granted its mode by ThreadLockWakeup keeps its claim too.
LEMMA WokenKept ==
  ASSUME LockInv, holds' \in HoldsType, NEW u \in Range(queue),
         lpc'[u] = lpc[u], want'[u] = want[u], holder'[u] = holder[u],
         holds'[u] = [holds[u] EXCEPT ![want[u]] = @ + 1], u \notin Range(queue')
  PROVE  Kept(u)
<1>1. u \in Threads /\ lpc[u] = "asleep"
  BY InvariantParts DEF LockTypes, WaitersInv, Range
<1>2. ThreadInv(u) /\ holds \in HoldsType /\ nHolding(holds, u) \in Nat
  BY <1>1, InvariantParts, Zenon DEF LockTypes
<1>3. want[u] \in Modes /\ holder[u]
  BY <1>1, <1>2, Zenon DEF ThreadInv
<1>4. nHolding(holds', u) = nHolding(holds, u) + 1
  BY <1>1, <1>2, <1>3, CountGrant, Zenon
<1>5. nHolding(holds', u) > 0
  BY <1>2, <1>4
<1>6. ThreadInv(u)'
  BY <1>1, <1>3, <1>5, Zenon DEF ThreadInv
<1>7. ~Releases(u) /\ ~Releases(u)' /\ Asks(u) /\ ~Asks(u)'
  BY <1>1, Zenon DEF Releases, Asks
<1>8. Claim(u) = nHolding(holds, u) + 1
  BY <1>7, Zenon DEF Claim
<1>9. Claim(u)' = nHolding(holds', u)
  BY <1>1, <1>7, Zenon DEF Claim
<1>10. Count(u) = nHolding(holds, u) + 1 /\ Count(u)' = nHolding(holds', u) + 0
  BY Zenon DEF Count
<1>11. Count(u)' = Count(u)
  BY <1>2, <1>4, <1>10
<1> QED
  BY <1>4, <1>6, <1>7, <1>8, <1>9, <1>11, Zenon DEF Kept

\* Claims and shares are numbers after a step that keeps the counts so.
LEMMA ClaimType ==
  ASSUME holds' \in HoldsType, NEW u \in Threads
  PROVE  nHolding(holds', u) \in Nat /\ Claim(u)' \in Nat /\ Share(u)' \in Nat
<1>1. nHolding(holds', u) \in Nat
  BY CountType, Zenon
<1> QED
  BY <1>1 DEF Claim, Share

\* A thread that is about has a share in one of the counters.
LEMMA UsersCounted ==
  ASSUME LockTypes', NEW u \in Threads, ThreadInv(u)', holder'[u] \/ lpc'[u] # "out"
  PROVE  Claim(u)' > 0 \/ Share(u)' > 0
<1>1. nHolding(holds', u) \in Nat
  BY ClaimType, Zenon DEF LockTypes
<1>2. CASE Releases(u)'
  BY <1>2 DEF Share
<1>3. CASE ~Releases(u)' /\ Asks(u)'
  BY <1>1, <1>3 DEF Claim
<1>4. CASE ~Releases(u)' /\ ~Asks(u)' /\ lpc'[u] # "failed"
  <2>1. lpc'[u] = "out" \/ (lpc'[u] = "asleep" /\ u \notin Range(queue'))
    BY <1>4, Zenon DEF LockTypes, Releases, Asks
  <2>2. nHolding(holds', u) > 0
    BY <2>1, Zenon DEF ThreadInv
  <2> QED
    BY <2>2, <1>4, Zenon DEF Claim
<1>5. CASE lpc'[u] = "failed"
  <2>1. ~Releases(u)' /\ ~Asks(u)'
    BY <1>5, Zenon DEF Releases, Asks
  <2>2. Claim(u)' = IF nHolding(holds', u) = 0 THEN 1 ELSE nHolding(holds', u)
    BY <1>5, <2>1, Zenon DEF Claim
  <2> QED
    BY <2>2, <1>1
<1> QED
  BY <1>2, <1>3, <1>4, <1>5, Zenon

\* Counters that follow the claims of the one thread that moves go on covering
\* the claims of all.
LEMMA TableStep ==
  ASSUME LockInv, LockTypes', NEW t \in Threads, \A u \in Threads : u # t => Kept(u),
         Claim(t)' + refs <= refs' + Claim(t),
         Share(t)' + removing <= removing' + Share(t)
  PROVE  TableInv'
<1> DEFINE f == Claims
           g == [u \in Threads |-> Claim(u)']
           x == Leaving
           y == [u \in Threads |-> Share(u)']
<1>1. LockTypes /\ TableInv /\ \A u \in Threads : nHolding(holds, u) \in Nat
  BY InvariantParts, Zenon
<1>2. f \in [Threads -> Nat] /\ x \in [Threads -> Nat]
  BY <1>1 DEF Claims, Claim, Leaving, Share
<1>3. g \in [Threads -> Nat] /\ y \in [Threads -> Nat]
  BY ClaimType, Zenon DEF LockTypes
<1>4. \A u \in Threads : u # t => f[u] = g[u]
  BY Zenon DEF Claims, Kept
<1>5. \A u \in Threads : u # t => x[u] = y[u]
  BY Zenon DEF Leaving, Kept, Share
<1>6. f[t] = Claim(t) /\ g[t] = Claim(t)' /\ x[t] = Share(t) /\ y[t] = Share(t)'
  BY Zenon DEF Claims, Leaving
<1>7. SumOver(f) <= refs /\ SumOver(x) <= removing /\ refs \in Nat /\ removing \in Nat
  BY <1>1, Zenon DEF TableInv, LockTypes
<1>8. refs' \in Nat /\ removing' \in Nat
  BY Zenon DEF LockTypes
<1>9. Claims' = g /\ Leaving' = y
  BY Zenon DEF Claims, Leaving
<1> HIDE DEF f, g, x, y
<1>10. IsFiniteSet(Threads)
  BY LockAssumption, Zenon
<1>11. SumOver(g) + f[t] = SumOver(f) + g[t] /\ SumOver(f) \in Nat /\ SumOver(g) \in Nat
  BY <1>2, <1>3, <1>4, <1>10, SumOverChange, SumOverBounds, SMTT(30)
<1>12. SumOver(y) + x[t] = SumOver(x) + y[t] /\ SumOver(x) \in Nat /\ SumOver(y) \in Nat
  BY <1>2, <1>3, <1>5, <1>10, SumOverChange, SumOverBounds, SMTT(30)
<1>13. f[t] \in Nat /\ g[t] \in Nat /\ x[t] \in Nat /\ y[t] \in Nat
  BY <1>2, <1>3, Zenon
<1>14. SumOver(g) <= refs'
  BY <1>6, <1>7, <1>8, <1>11, <1>13, SMTT(30)
<1>15. SumOver(y) <= removing'
  BY <1>6, <1>7, <1>8, <1>12, <1>13, SMTT(30)
<1> QED
  BY <1>9, <1>14, <1>15, Zenon DEF TableInv

\* The counts of all threads add up as long as lock->nHolding follows the thread that
\* moves.
LEMMA CountStep ==
  ASSUME LockInv, LockTypes', NEW t \in Threads, \A u \in Threads : u # t => Kept(u),
         twice' = twice,
         twice = 0 => /\ Exact(lock', holds')
                      /\ lock'.nHolding + Count(t) = lock.nHolding + Count(t)'
  PROVE  CountsInv'
<1> SUFFICES ASSUME twice = 0 PROVE Exact(lock', holds') /\ lock'.nHolding = SumOver(Counts)'
  BY Zenon DEF CountsInv
<1> DEFINE f == Counts
           g == [u \in Threads |-> Count(u)']
<1>1. /\ LockTypes /\ Exact(lock', holds') /\ lock.nHolding = SumOver(f)
      /\ lock'.nHolding + Count(t) = lock.nHolding + Count(t)'
      /\ \A u \in Threads : nHolding(holds, u) \in Nat
  BY InvariantParts, Zenon DEF CountsInv
<1>2. f \in [Threads -> Nat]
  BY <1>1 DEF Counts, Count
<1>3. g \in [Threads -> Nat]
  <2>1. \A u \in Threads : nHolding(holds', u) \in Nat
    BY ClaimType, Zenon DEF LockTypes
  <2> QED
    BY <2>1 DEF Count
<1>4. \A u \in Threads : u # t => f[u] = g[u]
  BY Zenon DEF Counts, Kept
<1>5. f[t] = Count(t) /\ g[t] = Count(t)'
  BY Zenon DEF Counts
<1>6. Counts' = g
  BY Zenon DEF Counts
<1> HIDE DEF f, g
<1>7. IsFiniteSet(Threads)
  BY LockAssumption, Zenon
<1>8. SumOver(g) + f[t] = SumOver(f) + g[t] /\ SumOver(f) \in Nat /\ SumOver(g) \in Nat
  BY <1>2, <1>3, <1>4, <1>7, SumOverChange, SumOverBounds, SMTT(30)
<1>9. f[t] \in Nat /\ g[t] \in Nat /\ lock'.nHolding \in Int
  BY <1>2, <1>3, Zenon DEF LockTypes, LockRecord
<1>10. lock'.nHolding + f[t] = SumOver(f) + g[t]
  BY <1>1, <1>5, Zenon
<1>11. lock'.nHolding = SumOver(g)
  BY <1>8, <1>9, <1>10, SMTT(30)
<1> QED
  BY <1>1, <1>6, <1>11, Zenon

\* A table that covers the threads that are about keeps the entry for them.
LEMMA EntryKept ==
  ASSUME LockTypes', TableInv', \A u \in Threads : ThreadInv(u)',
         entry' \/ (entry' <=> (refs' # 0 \/ removing' # 0))
  PROVE  EntryOutlivesUsers'
<1> SUFFICES ASSUME NEW u \in Threads, holder'[u] \/ lpc'[u] # "out" PROVE entry'
  BY Zenon DEF EntryOutlivesUsers
<1>1. Claim(u)' > 0 \/ Share(u)' > 0
  BY UsersCounted, Zenon
<1> DEFINE g == [v \in Threads |-> Claim(v)']
           y == [v \in Threads |-> Share(v)']
<1>2. g \in [Threads -> Nat] /\ y \in [Threads -> Nat] /\ g[u] = Claim(u)' /\ y[u] = Share(u)'
  BY ClaimType, Zenon DEF LockTypes
<1>3. Claims' = g /\ Leaving' = y
  BY Zenon DEF Claims, Leaving
<1>4. SumOver(g) <= refs' /\ SumOver(y) <= removing'
  BY <1>3, Zenon DEF TableInv
<1> HIDE DEF g, y
<1>5. IsFiniteSet(Threads)
  BY LockAssumption, Zenon
<1>6. g[u] <= SumOver(g) /\ y[u] <= SumOver(y) /\ SumOver(g) \in Nat /\ SumOver(y) \in Nat
  BY <1>2, <1>5, SumOverBounds, Zenon
<1>7. refs' \in Nat /\ removing' \in Nat /\ g[u] \in Nat /\ y[u] \in Nat
  BY <1>2, Zenon DEF LockTypes
<1>8. refs' # 0 \/ removing' # 0
  BY <1>1, <1>2, <1>4, <1>6, <1>7
<1> QED
  BY <1>8, Zenon

\* What a step of t has to show: its own state and claim, and that the others
\* keep theirs.
LEMMA StepKeeps ==
  ASSUME LockInv, LockTypes', WaitersInv', CountsInv', Asserts => twice' = 0,
         NEW t \in Threads, ThreadInv(t)', \A u \in Threads : u # t => Kept(u),
         Claim(t)' + refs <= refs' + Claim(t),
         Share(t)' + removing <= removing' + Share(t),
         entry' \/ (entry' <=> (refs' # 0 \/ removing' # 0))
  PROVE  LockInv'
<1>1. TableInv'
  BY TableStep, Zenon
<1>2. \A u \in Threads : ThreadInv(u)'
  BY Zenon DEF Kept
<1>3. EntryOutlivesUsers'
  BY <1>1, <1>2, EntryKept, Zenon
<1>4. EmptyInv'
  BY Zenon DEF EmptyInv
<1> QED
  BY <1>1, <1>2, <1>3, <1>4, Zenon DEF LockInv

-----------------------------------------------------------------------------
(* The steps.                                                              *)

\* The claim and the share of a thread, by the place it is at.
LEMMA ClaimAt ==
  ASSUME NEW t
  PROVE  /\ lpc[t] = "out" => Claim(t) = nHolding(holds, t) /\ Share(t) = 0
         /\ lpc[t] = "acquire" => Claim(t) = nHolding(holds, t) + 1 /\ Share(t) = 0
         /\ lpc[t] = "failed" =>
              /\ Claim(t) = (IF nHolding(holds, t) = 0 THEN 1 ELSE nHolding(holds, t))
              /\ Share(t) = 0
         /\ lpc[t] = "asleep" /\ t \in Range(queue) => Claim(t) = nHolding(holds, t) + 1 /\ Share(t) = 0
         /\ lpc[t] = "asleep" /\ t \notin Range(queue) => Claim(t) = nHolding(holds, t) /\ Share(t) = 0
         /\ lpc[t] \in {"release", "releaseAll"} =>
              /\ Claim(t) = (IF nHolding(holds, t) = 0 THEN 0 ELSE nHolding(holds, t) - 1)
              /\ Share(t) = 1
BY Zenon DEF Claim, Share, Releases, Asks

\* The same after a step.
LEMMA ClaimAtNext ==
  ASSUME NEW t
  PROVE  /\ lpc'[t] = "out" => Claim(t)' = nHolding(holds', t) /\ Share(t)' = 0
         /\ lpc'[t] = "acquire" => Claim(t)' = nHolding(holds', t) + 1 /\ Share(t)' = 0
         /\ lpc'[t] = "failed" =>
              /\ Claim(t)' = (IF nHolding(holds', t) = 0 THEN 1 ELSE nHolding(holds', t))
              /\ Share(t)' = 0
         /\ lpc'[t] = "asleep" /\ t \in Range(queue') => Claim(t)' = nHolding(holds', t) + 1 /\ Share(t)' = 0
         /\ lpc'[t] = "asleep" /\ t \notin Range(queue') => Claim(t)' = nHolding(holds', t) /\ Share(t)' = 0
         /\ lpc'[t] \in {"release", "releaseAll"} =>
              /\ Claim(t)' = (IF nHolding(holds', t) = 0 THEN 0 ELSE nHolding(holds', t) - 1)
              /\ Share(t)' = 1
BY Zenon DEF Claim, Share, Releases, Asks

\* A step of t that leaves the holders and the queue alone.
LEMMA LocalKept ==
  ASSUME LockInv, NEW t, holds' = holds, queue' = queue,
         \A u \in Threads : u # t => lpc'[u] = lpc[u] /\ want'[u] = want[u] /\ holder'[u] = holder[u],
         lpc[t] # "asleep" \/ t \notin Range(queue)
  PROVE  /\ \A u \in Threads : u # t => Kept(u)
         /\ WaitersInv' /\ nHolding(holds', t) = nHolding(holds, t)
         /\ lock' = lock /\ twice' = twice => CountsInv'
<1>1. LockTypes /\ WaitersInv /\ CountsInv
  BY InvariantParts, Zenon
<1>2. holds' \in HoldsType
  BY <1>1, Zenon DEF LockTypes
<1>3. \A u \in Threads : u # t => Kept(u)
  BY <1>2, OtherKept, Zenon
<1>4. \A u \in Range(queue) : u \in Threads /\ lpc[u] = "asleep"
  BY <1>1 DEF LockTypes, WaitersInv, Range
<1>5. WaitersInv'
  BY <1>1, <1>4, Zenon DEF WaitersInv
<1>6. lock' = lock /\ twice' = twice => CountsInv'
  BY <1>1, Zenon DEF CountsInv, Counts, Count
<1> QED
  BY <1>1, <1>3, <1>5, <1>6, Zenon

\* Where nobody holds anything, counters of nothing are exact.
LEMMA NothingHeld ==
  ASSUME NEW h \in HoldsType, \A t \in Threads : nHolding(h, t) = 0,
         NEW l, l.nActive = 0, \A m \in Modes : l.activeHolders[m] = 0
  PROVE  Exact(l, h)
<1>1. \A t \in Threads, m \in Modes : h[t][m] = 0
  <2>1. \A t \in Threads, m \in Modes : h[t][m] \in Nat /\ h[t][m] <= 0
    BY CountType, Zenon
  <2> QED
    BY <2>1
<1>2. \A m \in Modes : HeldOf(h, m) = 0
  BY <1>1, HeldOfBounds, Zenon
<1>3. HeldAll(h) = 0
  BY HeldAllBounds, Zenon
<1>4. ConflictFree(h)
  <2>1. \A t \in Threads : HoldLock(h, t) = {}
    BY <1>1 DEF HoldLock
  <2> QED
    BY <2>1, Zenon DEF ConflictFree
<1>5. \A m \in Modes : ~(l.activeHolders[m] > 0)
  OBVIOUS
<1> QED
  BY <1>2, <1>3, <1>4, <1>5, Zenon DEF Exact

\* The counters of a new entry.
LEMMA NewLockFields ==
  /\ NewLock \in LockRecord /\ NewLock.nHolding = 0 /\ NewLock.nActive = 0
  /\ \A m \in Modes : NewLock.activeHolders[m] = 0
<1>1. NoHolds \in [Modes -> Int] /\ \A m \in Modes : NoHolds[m] = 0
  BY DEF NoHolds
<1>2. 0 \in Int /\ {} \in SUBSET Modes
  OBVIOUS
<1> QED
  BY <1>1, <1>2, Zenon DEF NewLock, LockRecord

\* When nobody holds the lock or waits for it, a new entry counts right.
LEMMA NobodyCounts ==
  ASSUME holds \in HoldsType, \A t \in Threads : nHolding(holds, t) = 0 /\ t \notin Range(queue)
  PROVE  Exact(NewLock, holds) /\ SumOver(Counts) = NewLock.nHolding
<1>1. Exact(NewLock, holds) /\ NewLock.nHolding = 0
  BY NewLockFields, NothingHeld, Zenon
<1>2. \A t \in Threads : Count(t) = 0 + 0
  BY Zenon DEF Count
<1>3. Counts \in [Threads -> Nat] /\ \A t \in Threads : Counts[t] = 0
  BY <1>2 DEF Counts
<1>4. SumOver(Counts) = 0
  BY <1>3, LockAssumption, SumOverBounds, Zenon
<1> QED
  BY <1>1, <1>4, Zenon

\* A lock without an entry is free.
LEMMA FreeLock ==
  ASSUME LockInv, ~entry
  PROVE  \A t \in Threads : nHolding(holds, t) = 0 /\ t \notin Range(queue)
<1>1. /\ LockTypes /\ WaitersInv /\ EntryOutlivesUsers
      /\ \A t \in Threads : ThreadInv(t) /\ nHolding(holds, t) \in Nat
  BY InvariantParts, Zenon
<1>2. \A t \in Threads : ~holder[t] /\ lpc[t] = "out"
  BY <1>1, Zenon DEF EntryOutlivesUsers
<1>3. \A t \in Threads : ~(nHolding(holds, t) > 0) /\ t \notin Range(queue)
  BY <1>1, <1>2, Zenon DEF ThreadInv, WaitersInv
<1> QED
  BY <1>1, <1>3

\* SearchLockTable with HASH_ENTER.
LEMMA EnterKeeps ==
  ASSUME LockInv, NEW t \in Threads, NEW m \in Modes, Enter(t, m)
  PROVE  LockInv'
<1>1. LockTypes /\ EmptyInv /\ nHolding(holds, t) \in Nat
  BY InvariantParts, Zenon
<1>2. /\ lpc[t] = "out" /\ entry' /\ refs' = refs + 1 /\ removing' = removing
      /\ refs \in Nat /\ removing \in Nat
  BY <1>1 DEF Enter, LockTypes, EmptyInv
<1>3. /\ lpc' = [lpc EXCEPT ![t] = "acquire"] /\ want' = [want EXCEPT ![t] = m]
      /\ holder' = [holder EXCEPT ![t] = TRUE] /\ holds' = holds /\ queue' = queue
  BY Zenon DEF Enter
<1>4. LockTypes'
  <2>1. waitMask' \in SUBSET Modes /\ orig' = orig
    BY <1>1, Zenon DEF Enter, LockTypes
  <2>2. lock' \in LockRecord /\ twice' \in Nat
    BY <1>1, NewLockFields, Zenon DEF Enter, LockTypes
  <2>3. /\ lpc' \in [Threads -> {"out", "acquire", "asleep", "failed", "release", "releaseAll"}]
        /\ want' \in [Threads -> Modes \cup {NoMode}] /\ holder' \in [Threads -> BOOLEAN]
    BY <1>1, <1>3, Zenon DEF LockTypes
  <2>4. refs' \in Nat
    BY <1>2
  <2> QED
    BY <2>1, <2>2, <2>3, <2>4, <1>1, <1>2, <1>3, Zenon DEF LockTypes
<1>5. /\ \A u \in Threads : u # t => lpc'[u] = lpc[u] /\ want'[u] = want[u] /\ holder'[u] = holder[u]
      /\ lpc'[t] = "acquire" /\ want'[t] = m /\ holder'[t]
  BY <1>1, <1>3, Zenon DEF LockTypes
<1>6. /\ \A u \in Threads : u # t => Kept(u)
      /\ WaitersInv' /\ nHolding(holds', t) = nHolding(holds, t)
      /\ lock' = lock /\ twice' = twice => CountsInv'
  BY <1>2, <1>3, <1>5, LocalKept, Zenon
<1>7. ThreadInv(t)'
  BY <1>5, Zenon DEF ThreadInv
<1>8. /\ Claim(t) = nHolding(holds, t) /\ Share(t) = 0
      /\ Claim(t)' = nHolding(holds, t) + 1 /\ Share(t)' = 0
  BY <1>2, <1>5, <1>6, ClaimAt, ClaimAtNext, Zenon
<1>9. Claim(t)' + refs <= refs' + Claim(t) /\ Share(t)' + removing <= removing' + Share(t)
  BY <1>1, <1>2, <1>8, SMTT(30)
<1>10. CountsInv' /\ (Asserts => twice' = 0)
  <2>1. Asserts => twice = 0
    BY InvariantParts, Zenon
  <2>2. CASE entry
    BY <2>1, <2>2, <1>6, Zenon DEF Enter
  <2>3. CASE ~entry
    <3>1. lock' = NewLock /\ twice' = 0
      BY <2>3, Zenon DEF Enter
    <3>2. Exact(NewLock, holds) /\ SumOver(Counts) = NewLock.nHolding
      BY <2>3, <1>1, FreeLock, NobodyCounts, Zenon DEF LockTypes
    <3>3. Counts' = Counts
      BY <1>3, Zenon DEF Counts, Count
    <3> QED
      BY <3>1, <3>2, <3>3, <1>3, Zenon DEF CountsInv
  <2> QED
    BY <2>2, <2>3, Zenon
<1> QED
  BY <1>2, <1>4, <1>6, <1>7, <1>9, <1>10, StepKeeps, Zenon

\* HASH_FIND by a thread that has a claim.
LEMMA FindKeeps ==
  ASSUME LockInv, NEW t \in Threads, NEW place \in {"release", "releaseAll"},
         NEW m \in Modes \cup {NoMode}, Find(t, place, m),
         holder[t], lpc[t] = "failed" \/ (lpc[t] = "out" /\ nHolding(holds, t) > 0),
         place = "release" => m \in Modes /\ holds[t][m] > 0
  PROVE  LockInv'
<1>1. LockTypes /\ EntryOutlivesUsers /\ nHolding(holds, t) \in Nat
  BY InvariantParts, Zenon
<1>2. Claim(t) \in Nat /\ Claim(t) <= refs /\ refs \in Nat /\ removing \in Nat
  BY TableBounds, Zenon
<1>3. /\ lpc' = [lpc EXCEPT ![t] = place] /\ want' = [want EXCEPT ![t] = m]
      /\ holder' = holder /\ holds' = holds /\ queue' = queue /\ entry' = entry
      /\ waitMask' = waitMask /\ orig' = orig /\ refs' = refs - 1 /\ removing' = removing + 1
      /\ lock' = lock /\ twice' = twice
  BY Zenon DEF Find
<1>4. Claim(t) >= 1 /\ Share(t) = 0
  BY <1>1, ClaimAt, SMTT(30)
<1>5. LockTypes'
  <2>1. refs' \in Nat /\ removing' \in Nat
    BY <1>2, <1>3, <1>4, SMTT(30)
  <2>2. lpc' \in [Threads -> {"out", "acquire", "asleep", "failed", "release", "releaseAll"}]
    BY <1>1, <1>3, Zenon DEF LockTypes
  <2>3. want' \in [Threads -> Modes \cup {NoMode}]
    BY <1>1, <1>3, Zenon DEF LockTypes
  <2> QED
    BY <2>1, <2>2, <2>3, <1>1, <1>3, Zenon DEF LockTypes
<1>6. /\ \A u \in Threads : u # t => lpc'[u] = lpc[u] /\ want'[u] = want[u] /\ holder'[u] = holder[u]
      /\ lpc'[t] = place /\ want'[t] = m /\ holder'[t] = holder[t]
  BY <1>1, <1>3, Zenon DEF LockTypes
<1>7. /\ \A u \in Threads : u # t => Kept(u)
      /\ WaitersInv' /\ nHolding(holds', t) = nHolding(holds, t) /\ CountsInv'
  BY <1>3, <1>6, LocalKept, Zenon
<1>8. ThreadInv(t)'
  BY <1>3, <1>6, Zenon DEF ThreadInv
<1>9. /\ Claim(t)' = (IF nHolding(holds, t) = 0 THEN 0 ELSE nHolding(holds, t) - 1)
      /\ Share(t)' = 1
  BY <1>6, <1>7, ClaimAtNext, Zenon
<1>10. Claim(t)' <= Claim(t) - 1
  <2>1. lpc[t] = "failed" => Claim(t) = (IF nHolding(holds, t) = 0 THEN 1 ELSE nHolding(holds, t))
    BY ClaimAt, Zenon
  <2>2. lpc[t] = "out" => Claim(t) = nHolding(holds, t)
    BY ClaimAt, Zenon
  <2> QED
    BY <2>1, <2>2, <1>1, <1>9, SMTT(30)
<1>11. Claim(t)' + refs <= refs' + Claim(t) /\ Share(t)' + removing <= removing' + Share(t)
  <2>1. Claim(t)' \in Nat
    BY <1>1, <1>9, SMTT(30)
  <2> QED
    BY <2>1, <1>2, <1>3, <1>4, <1>9, <1>10, SMTT(30)
<1>12. entry' /\ (Asserts => twice' = 0)
  BY <1>1, <1>3, InvariantParts, Zenon DEF EntryOutlivesUsers
<1> QED
  BY <1>5, <1>7, <1>8, <1>11, <1>12, StepKeeps, Zenon

\* HASH_FIND by LockRelease.
LEMMA ReleaseFindKeeps ==
  ASSUME LockInv, NEW t \in Threads, NEW m \in Modes, LockReleaseFind(t, m)
  PROVE  LockInv'
<1>1. LockTypes /\ ThreadInv(t) /\ nHolding(holds, t) \in Nat
  BY InvariantParts, Zenon
<1>2. lpc[t] = "out" /\ holds[t][m] > 0 /\ Find(t, "release", m)
  BY Zenon DEF LockReleaseFind
<1>3. nHolding(holds, t) > 0
  <2>1. holds[t][m] \in Nat /\ holds[t][m] <= nHolding(holds, t)
    BY <1>1, CountType, Zenon DEF LockTypes
  <2> QED
    BY <2>1, <1>1, <1>2, SMTT(30)
<1>4. holder[t]
  BY <1>1, <1>3, Zenon DEF ThreadInv
<1> QED
  BY <1>2, <1>3, <1>4, FindKeeps, Zenon

\* HASH_FIND by LockReleaseAll.
LEMMA ReleaseAllFindKeeps ==
  ASSUME LockInv, NEW t \in Threads, LockReleaseAllFind(t)
  PROVE  LockInv'
<1>1. ThreadInv(t)
  BY InvariantParts, Zenon
<1>2. lpc[t] \in {"out", "failed"} /\ holder[t] /\ Find(t, "releaseAll", NoMode)
  BY Zenon DEF LockReleaseAllFind
<1>3. lpc[t] = "failed" \/ (lpc[t] = "out" /\ nHolding(holds, t) > 0)
  BY <1>1, <1>2, Zenon DEF ThreadInv
<1> QED
  BY <1>2, <1>3, FindKeeps, Zenon

\* The queue is of sleeping threads, each of which asks for a mode.
LEMMA QueueFacts ==
  ASSUME LockInv
  PROVE  /\ queue \in Seq(Threads) /\ IsInjective(queue)
         /\ \A u \in Range(queue) : u \in Threads /\ lpc[u] = "asleep" /\ want[u] \in Modes
         /\ Walked \in Seq(Threads) /\ IsInjective(Walked) /\ Len(Walked) <= Len(queue)
         /\ Range(Walked) \in SUBSET Range(queue)
         /\ \A u \in Range(Walked) : want[u] \in Modes
<1>1. LockTypes /\ WaitersInv /\ \A t \in Threads : ThreadInv(t)
  BY InvariantParts, Zenon
<1>2. \A u \in Range(queue) : u \in Threads /\ lpc[u] = "asleep"
  BY <1>1 DEF LockTypes, WaitersInv, Range
<1>3. \A u \in Range(queue) : want[u] \in Modes
  BY <1>1, <1>2, Zenon DEF ThreadInv
<1>4. /\ Walked \in Seq(Threads) /\ IsInjective(Walked) /\ Len(Walked) <= Len(queue)
      /\ Range(Walked) \in SUBSET Range(queue)
  BY <1>1, WalkedPart, Zenon DEF LockTypes, WaitersInv
<1>5. \A u \in Range(Walked) : want[u] \in Modes
  BY <1>3, <1>4, Zenon
<1> QED
  BY <1>1, <1>2, <1>3, <1>4, <1>5, Zenon DEF LockTypes, WaitersInv

\* A mode granted by LockAcquire conflicts with no other holder, if the counters are
\* exact.
LEMMA GrantedResolves ==
  ASSUME LockInv, NEW t \in Threads, NEW m \in Modes, Granted(t, m), Exact(lock, holds)
  PROVE  Compatible(holds, t, m)
<1>1. /\ holds \in HoldsType /\ ConflictFree(holds) /\ lock.nActive = HeldAll(holds)
      /\ \A u \in Threads : nHolding(holds, u) \in Nat
  BY InvariantParts, Zenon DEF LockTypes, Exact
<1>2. CASE holds[t][m] # 0
  <2>1. holds[t][m] \in Nat
    BY <1>1, Zenon DEF HoldsType
  <2>2. m \in HoldLock(holds, t)
    BY <2>1, <1>2 DEF HoldLock
  <2> QED
    BY <2>2, <1>1, Zenon DEF Compatible, ConflictFree
<1>3. CASE nHolding(holds, t) = lock.nActive
  <2>1. /\ HeldAll(holds) \in Nat
        /\ \A u \in Threads : u # t => nHolding(holds, t) + nHolding(holds, u) <= HeldAll(holds)
    BY <1>1, HeldAllBounds, Zenon
  <2>2. \A u \in Threads : u # t => nHolding(holds, u) = 0
    BY <2>1, <1>1, <1>3, SMTT(30)
  <2>3. ASSUME NEW u \in Threads, u # t PROVE HoldLock(holds, u) = {}
    <3>1. \A x \in Modes : holds[u][x] \in Nat /\ holds[u][x] <= nHolding(holds, u)
      BY <1>1, CountType, Zenon
    <3>2. nHolding(holds, u) = 0
      BY <2>2, <2>3, Zenon
    <3> QED
      BY <3>1, <3>2 DEF HoldLock
  <2> QED
    BY <2>3, Zenon DEF Compatible
<1>4. CASE LockResolveConflicts(lock, holds, t, m)
  BY <1>1, <1>4, ResolveSound, Zenon
<1> QED
  BY <1>2, <1>3, <1>4, Zenon DEF Granted

\* LockAcquire with the lock granted at once.
LEMMA AcquireGrants ==
  ASSUME LockInv, NEW t \in Threads, lpc[t] = "acquire", Granted(t, want[t]),
         lock' = GrantCounts(Asked(lock, want[t]), want[t]),
         holds' = GrantLock(holds, t, want[t]), lpc' = [lpc EXCEPT ![t] = "out"],
         UNCHANGED <<entry, refs, removing, want, holder, queue, twice, waitMask, orig>>
  PROVE  LockInv'
<1>1. /\ LockTypes /\ WaitersInv /\ ThreadInv(t) /\ CountsInv /\ EntryOutlivesUsers
      /\ nHolding(holds, t) \in Nat /\ holds \in HoldsType /\ lock \in LockRecord
  BY InvariantParts, Zenon DEF LockTypes
<1> DEFINE m == want[t]
<1>2. m \in Modes /\ holder[t]
  BY <1>1, Zenon DEF ThreadInv
<1>3. /\ lock' \in LockRecord /\ lock'.nHolding = lock.nHolding + 1
      /\ Exact(lock, holds) => Exact(lock', holds')
  <2> DEFINE l == Asked(lock, m)
  <2>1. l \in LockRecord /\ l.nHolding = lock.nHolding + 1
    BY <1>1, <1>2, AskFields, Zenon
  <2>2. Exact(lock, holds) => Exact(l, holds) /\ Compatible(holds, t, m)
    BY <1>1, <1>2, AskExact, GrantedResolves, Zenon
  <2>3. lock' = GrantCounts(l, m)
    BY Zenon
  <2> HIDE DEF l
  <2>4. GrantCounts(l, m) \in LockRecord /\ GrantCounts(l, m).nHolding = l.nHolding
    BY <2>1, <1>2, GrantFields, Zenon
  <2>5. Exact(lock, holds) => Exact(GrantCounts(l, m), GrantLock(holds, t, m))
    BY <2>1, <2>2, <1>1, <1>2, GrantExact, Zenon
  <2>6. holds' = GrantLock(holds, t, m)
    BY Zenon
  <2> QED
    BY <2>1, <2>3, <2>4, <2>5, <2>6, Zenon
<1>4. /\ holds' \in HoldsType
      /\ \A u \in Threads : u # t => holds'[u] = holds[u]
      /\ holds'[t] = [holds[t] EXCEPT ![m] = @ + 1]
  BY <1>1, <1>2, GrantKeeps, SMTT(30)
<1>5. nHolding(holds', t) = nHolding(holds, t) + 1
  BY <1>1, <1>2, <1>4, CountGrant, Zenon
<1>6. (\A u \in Threads : u # t => lpc'[u] = lpc[u]) /\ lpc'[t] = "out"
  BY <1>1, Zenon DEF LockTypes
<1>7. LockTypes'
  BY <1>1, <1>3, <1>4, Zenon DEF LockTypes
<1>8. \A u \in Threads : u # t => Kept(u)
  BY <1>4, <1>6, OtherKept, Zenon
<1>9. WaitersInv'
  <2>1. \A u \in Range(queue) : u \in Threads /\ lpc[u] = "asleep"
    BY QueueFacts, Zenon
  <2> QED
    BY <2>1, <1>1, <1>6, Zenon DEF WaitersInv
<1>10. ThreadInv(t)'
  <2>1. nHolding(holds', t) > 0
    BY <1>1, <1>5, SMTT(30)
  <2> QED
    BY <2>1, <1>2, <1>6, Zenon DEF ThreadInv
<1>11. Claim(t)' = Claim(t) /\ Share(t)' = Share(t) /\ Claim(t) \in Nat
  BY <1>1, <1>5, <1>6, ClaimAt, ClaimAtNext, SMTT(30)
<1>12. entry' /\ Claim(t)' + refs <= refs' + Claim(t) /\ Share(t)' + removing <= removing' + Share(t)
  <2>1. refs \in Nat /\ removing \in Nat /\ Share(t) = 0
    BY <1>1, ClaimAt, Zenon DEF LockTypes
  <2>2. entry
    BY <1>1, <1>2, Zenon DEF EntryOutlivesUsers
  <2> QED
    BY <2>1, <2>2, <1>11, SMTT(30)
<1>13. CountsInv' /\ (Asserts => twice' = 0)
  <2>1. t \notin Range(queue)
    BY QueueFacts, Zenon
  <2>2. Count(t) = nHolding(holds, t) + 0 /\ Count(t)' = nHolding(holds', t) + 0
    BY <2>1, Zenon DEF Count
  <2>3. lock.nHolding \in Int
    BY <1>1, Zenon DEF LockRecord
  <2>4. lock'.nHolding + Count(t) = lock.nHolding + Count(t)'
    BY <2>2, <2>3, <1>1, <1>3, <1>5
  <2>5. twice = 0 => Exact(lock', holds')
    BY <1>1, <1>3, Zenon DEF CountsInv
  <2>6. (Asserts => twice = 0) /\ twice' = twice
    BY InvariantParts, Zenon
  <2> QED
    BY <2>4, <2>5, <2>6, <1>7, <1>8, CountStep, Zenon
<1> QED
  BY <1>7, <1>8, <1>9, <1>10, <1>12, <1>13, StepKeeps, Zenon

\* The other ways of LockAcquire, WaitOnLock and a late cancel leave holders and queue
\* alone.
LEMMA LocalStepKeeps ==
  ASSUME LockInv, NEW t \in Threads,
         lpc[t] = "acquire" \/ (lpc[t] = "asleep" /\ t \notin Range(queue)),
         NEW place \in {"out", "failed"}, lpc' = [lpc EXCEPT ![t] = place],
         waitMask' \in SUBSET Modes, orig' \in [Threads -> SUBSET Modes],
         holder' \in [Threads -> BOOLEAN],
         \A u \in Threads : u # t => holder'[u] = holder[u],
         place = "out" => (holder'[t] <=> nHolding(holds, t) > 0),
         place = "failed" => holder'[t],
         lock' \in LockRecord, twice' \in Nat, Asserts => twice' = 0,
         (lock' = lock /\ twice' = twice) \/ twice' # 0,
         UNCHANGED <<entry, refs, removing, want, holds, queue>>
  PROVE  LockInv'
<1>1. LockTypes /\ ThreadInv(t) /\ EntryOutlivesUsers /\ nHolding(holds, t) \in Nat
  BY InvariantParts, Zenon
<1>2. (\A u \in Threads : u # t => lpc'[u] = lpc[u]) /\ lpc'[t] = place
  BY <1>1, Zenon DEF LockTypes
<1>3. LockTypes'
  BY <1>1, Zenon DEF LockTypes
<1>4. /\ \A u \in Threads : u # t => Kept(u)
      /\ WaitersInv' /\ nHolding(holds', t) = nHolding(holds, t)
      /\ lock' = lock /\ twice' = twice => CountsInv'
  BY <1>2, LocalKept, Zenon
<1>5. ThreadInv(t)'
  BY <1>2, <1>4, <1>1, Zenon DEF ThreadInv
<1>6. Claim(t)' <= Claim(t) /\ Claim(t) \in Nat /\ Claim(t)' \in Nat /\ Share(t)' = 0 /\ Share(t) = 0
  <2>1. Claim(t) = nHolding(holds, t) + 1 \/ (Claim(t) = nHolding(holds, t) /\ nHolding(holds, t) > 0)
    BY <1>1, ClaimAt, Zenon DEF ThreadInv
  <2>2. /\ place = "out" => Claim(t)' = nHolding(holds, t)
        /\ place = "failed" => Claim(t)' = (IF nHolding(holds, t) = 0 THEN 1 ELSE nHolding(holds, t))
    BY <1>2, <1>4, ClaimAtNext, Zenon
  <2>3. Share(t)' = 0 /\ Share(t) = 0
    BY <1>2, ClaimAt, ClaimAtNext, Zenon
  <2> QED
    BY <2>1, <2>2, <2>3, <1>1, SMTT(30)
<1>7. refs \in Nat /\ removing \in Nat /\ entry'
  BY <1>1, Zenon DEF LockTypes, EntryOutlivesUsers
<1>8. Claim(t)' + refs <= refs' + Claim(t) /\ Share(t)' + removing <= removing' + Share(t)
  BY <1>6, <1>7
<1>9. CountsInv'
  BY <1>4, Zenon DEF CountsInv
<1> QED
  BY <1>3, <1>4, <1>5, <1>7, <1>8, <1>9, StepKeeps, Zenon

\* A step of t that changes the queue by t alone.
LEMMA QueueStepKeeps ==
  ASSUME LockInv, NEW t \in Threads, lpc[t] = "acquire" \/ (lpc[t] = "asleep" /\ t \in Range(queue)),
         NEW place \in {"asleep", "failed"}, lpc' = [lpc EXCEPT ![t] = place],
         queue' \in Seq(Threads), IsInjective(queue'),
         \A u \in Threads : u # t => (u \in Range(queue') <=> u \in Range(queue)),
         t \in Range(queue') <=> place = "asleep",
         waitMask' \in SUBSET Modes, orig' \in [Threads -> SUBSET Modes],
         lock' \in LockRecord, Exact(lock, holds) => Exact(lock', holds),
         lock'.nHolding + Count(t) = lock.nHolding + Count(t)',
         UNCHANGED <<entry, refs, removing, want, holder, holds, twice>>
  PROVE  LockInv'
<1>1. /\ LockTypes /\ ThreadInv(t) /\ EntryOutlivesUsers /\ CountsInv
      /\ nHolding(holds, t) \in Nat
  BY InvariantParts, Zenon
<1>2. (\A u \in Threads : u # t => lpc'[u] = lpc[u]) /\ lpc'[t] = place
  BY <1>1, Zenon DEF LockTypes
<1>3. LockTypes'
  BY <1>1, Zenon DEF LockTypes
<1>4. \A u \in Threads : u # t => Kept(u)
  BY <1>2, <1>3, OtherKept, Zenon DEF LockTypes
<1>5. WaitersInv'
  <2>1. \A u \in Range(queue) : lpc[u] = "asleep"
    BY QueueFacts, Zenon
  <2>2. \A u \in Range(queue') : u \in Threads
    BY DEF Range
  <2>3. \A u \in Range(queue') : lpc'[u] = "asleep"
    BY <2>1, <2>2, <1>2, Zenon
  <2> QED
    BY <2>3, Zenon DEF WaitersInv
<1>6. want[t] \in Modes /\ holder[t]
  BY <1>1, Zenon DEF ThreadInv
<1>7. ThreadInv(t)'
  BY <1>2, <1>6, Zenon DEF ThreadInv
<1>8. Claim(t) = nHolding(holds, t) + 1 /\ Share(t) = 0
  BY ClaimAt, Zenon
<1>9. /\ Share(t)' = 0
      /\ \/ Claim(t)' = nHolding(holds, t) + 1
         \/ Claim(t)' = (IF nHolding(holds, t) = 0 THEN 1 ELSE nHolding(holds, t))
  BY <1>2, ClaimAtNext, Zenon
<1>10. refs \in Nat /\ removing \in Nat /\ entry'
  BY <1>1, Zenon DEF LockTypes, EntryOutlivesUsers
<1>11. Claim(t)' + refs <= refs' + Claim(t) /\ Share(t)' + removing <= removing' + Share(t)
  BY <1>1, <1>8, <1>9, <1>10, SMTT(30)
<1>12. CountsInv' /\ (Asserts => twice' = 0)
  <2>1. (Asserts => twice = 0) /\ twice' = twice
    BY InvariantParts, Zenon
  <2>2. twice = 0 => Exact(lock', holds')
    BY <1>1, Zenon DEF CountsInv
  <2> QED
    BY <2>1, <2>2, <1>3, <1>4, CountStep, Zenon
<1> QED
  BY <1>3, <1>4, <1>5, <1>7, <1>10, <1>11, <1>12, StepKeeps, Zenon

\* WaitBits takes a bit out or not.
LEMMA WaitBitsType ==
  ASSUME NEW l, NEW m, NEW bits \in SUBSET Modes
  PROVE  WaitBits(l, m, bits) \in SUBSET Modes
BY Zenon DEF WaitBits

\* LockAcquire: granted, refused, queued or found to be a deadlock.
LEMMA AcquireKeeps ==
  ASSUME LockInv, NEW t \in Threads, LockAcquire(t)
  PROVE  LockInv'
<1> DEFINE m == want[t]
           w == ThreadEnqueue(t, m)
<1>1. /\ LockTypes /\ ThreadInv(t) /\ nHolding(holds, t) \in Nat
      /\ lpc[t] = "acquire" /\ UNCHANGED <<entry, refs, removing, want, twice>>
      /\ lock \in LockRecord /\ twice \in Nat /\ (Asserts => twice = 0)
  BY InvariantParts, Zenon DEF LockAcquire, LockTypes
<1>2. m \in Modes /\ holder[t]
  BY <1>1, Zenon DEF ThreadInv
<1>3. w.at \in 1 .. Len(queue) + 1 /\ w.mask \in SUBSET Modes
  <2>1. waitMask \in SUBSET Modes /\ queue \in Seq(Threads)
    BY <1>1, Zenon DEF LockTypes
  <2>2. Walked \in Seq(Threads) /\ Len(Walked) <= Len(queue) /\ \A u \in Range(Walked) : want[u] \in Modes
    BY QueueFacts, Zenon
  <2>3. w.at \in 1 .. Len(Walked) + 1 /\ w.mask \in SUBSET Modes
    BY <2>1, <2>2, <1>1, <1>2, EnqueueStops, Zenon
  <2>4. Len(Walked) \in Nat /\ Len(queue) \in Nat
    BY <2>1, <2>2
  <2> HIDE DEF w
  <2> QED
    BY <2>2, <2>3, <2>4
<1>4. CASE /\ Granted(t, m) /\ lock' = GrantCounts(Asked(lock, m), m)
           /\ holds' = GrantLock(holds, t, m) /\ lpc' = [lpc EXCEPT ![t] = "out"]
           /\ UNCHANGED <<holder, queue, waitMask, orig>>
  BY <1>1, <1>4, AcquireGrants, Zenon
<1>5. CASE /\ holder' = [holder EXCEPT ![t] = nHolding(holds, t) # 0]
           /\ lpc' = [lpc EXCEPT ![t] = "out"]
           /\ UNCHANGED <<holds, lock, queue, waitMask, orig>>
  <2>1. waitMask' \in SUBSET Modes /\ orig' \in [Threads -> SUBSET Modes]
    BY <1>1, <1>5, Zenon DEF LockTypes
  <2>2. (nHolding(holds, t) # 0) \in BOOLEAN /\ holder \in [Threads -> BOOLEAN]
    BY <1>1, Zenon DEF LockTypes
  <2>3. /\ holder' \in [Threads -> BOOLEAN] /\ holder'[t] = (nHolding(holds, t) # 0)
        /\ \A u \in Threads : u # t => holder'[u] = holder[u]
    BY <2>2, <1>5, Zenon
  <2>4. holder'[t] <=> nHolding(holds, t) > 0
    BY <2>3, <1>1, SMTT(30)
  <2> QED
    BY <2>1, <2>3, <2>4, <1>1, <1>5, LocalStepKeeps, Zenon
<1>6. CASE /\ lock' = Asked(lock, m) /\ queue' = SHMQueueInsertTL(queue, w.at, t) /\ waitMask' = w.mask \cup {m}
           /\ orig' = [orig EXCEPT ![t] = waitMask] /\ lpc' = [lpc EXCEPT ![t] = "asleep"]
           /\ UNCHANGED <<holder, holds>>
  <2>1. t \notin Range(queue) /\ queue \in Seq(Threads) /\ IsInjective(queue)
    BY <1>1, QueueFacts, Zenon
  <2>2. queue' \in Seq(Threads) /\ IsInjective(queue') /\ Range(queue') = Range(queue) \cup {t}
    BY <2>1, <1>3, <1>6, InsertNew, Zenon
  <2>3. waitMask' \in SUBSET Modes /\ orig' \in [Threads -> SUBSET Modes]
    BY <1>1, <1>2, <1>3, <1>6, Zenon DEF LockTypes
  <2>4. /\ \A u \in Threads : u # t => (u \in Range(queue') <=> u \in Range(queue))
        /\ t \in Range(queue')
    BY <2>2, Zenon
  <2>5. /\ lock' \in LockRecord /\ lock'.nHolding = lock.nHolding + 1 /\ lock.nHolding \in Int
        /\ Exact(lock, holds) => Exact(lock', holds)
    BY <1>1, <1>2, <1>6, AskFields, AskExact, Zenon DEF LockRecord
  <2>6. Count(t) = nHolding(holds, t) + 0 /\ Count(t)' = nHolding(holds, t) + 1
    BY <2>1, <2>4, <1>6, Zenon DEF Count
  <2>7. lock'.nHolding + Count(t) = lock.nHolding + Count(t)'
    BY <2>5, <2>6, <1>1
  <2> QED
    BY <2>2, <2>3, <2>4, <2>5, <2>7, <1>1, <1>6, QueueStepKeeps, Zenon
<1>7. CASE /\ waitMask' = WaitBits(lock, m, w.mask)
           /\ lpc' = [lpc EXCEPT ![t] = "failed"]
           /\ UNCHANGED <<holder, holds, lock, queue, orig>>
  <2>1. waitMask' \in SUBSET Modes /\ orig' \in [Threads -> SUBSET Modes] /\ holder' \in [Threads -> BOOLEAN]
    BY <1>1, <1>3, <1>7, WaitBitsType, Zenon DEF LockTypes
  <2>2. holder'[t] /\ \A u \in Threads : u # t => holder'[u] = holder[u]
    BY <1>2, <1>7, Zenon
  <2> QED
    BY <2>1, <2>2, <1>1, <1>7, LocalStepKeeps, Zenon
<1> QED
  BY <1>4, <1>5, <1>6, <1>7, Zenon DEF LockAcquire

\* WaitOnLock after ThreadSleep returns.
LEMMA WaitOnLockKeeps ==
  ASSUME LockInv, NEW t \in Threads, WaitOnLock(t)
  PROVE  LockInv'
<1>1. /\ LockTypes /\ ThreadInv(t) /\ nHolding(holds, t) \in Nat
      /\ lpc[t] = "asleep" /\ t \notin Range(queue) /\ lpc' = [lpc EXCEPT ![t] = "out"]
      /\ UNCHANGED <<entry, refs, removing, want, holder, holds, lock, queue, twice>>
      /\ lock \in LockRecord /\ twice \in Nat /\ (Asserts => twice = 0)
  BY InvariantParts, Zenon DEF WaitOnLock, LockTypes
<1>2. holder[t] /\ nHolding(holds, t) > 0
  BY <1>1, Zenon DEF ThreadInv
<1>3. waitMask' \in SUBSET Modes /\ orig' \in [Threads -> SUBSET Modes] /\ holder' \in [Threads -> BOOLEAN]
  BY <1>1, WaitBitsType, Zenon DEF WaitOnLock, LockTypes
<1>4. /\ holder'[t] <=> nHolding(holds, t) > 0
      /\ \A u \in Threads : u # t => holder'[u] = holder[u]
  BY <1>1, <1>2, Zenon
<1> QED
  BY <1>1, <1>3, <1>4, LocalStepKeeps, Zenon

\* ThreadSleep when the statement is cancelled, in the queue or after a grant.
LEMMA CancelKeeps ==
  ASSUME LockInv, NEW t \in Threads, ThreadSleepCancelled(t)
  PROVE  LockInv'
<1>1. /\ LockTypes /\ ThreadInv(t) /\ nHolding(holds, t) \in Nat /\ (Asserts => twice = 0)
      /\ lpc[t] = "asleep" /\ lpc' = [lpc EXCEPT ![t] = "failed"]
      /\ lock' = Unasked(lock, want[t])
      /\ UNCHANGED <<entry, refs, removing, want, holder, holds>>
  BY InvariantParts, Zenon DEF ThreadSleepCancelled
<1>2. want[t] \in Modes /\ holder[t] /\ lock \in LockRecord /\ twice \in Nat
  BY <1>1, Zenon DEF ThreadInv, LockTypes
<1>3. /\ lock' \in LockRecord /\ lock'.nHolding = lock.nHolding - 1 /\ lock.nHolding \in Int
      /\ Exact(lock, holds) => Exact(lock', holds)
  BY <1>1, <1>2, AskFields, AskExact, Zenon DEF LockRecord
<1>4. waitMask' \in SUBSET Modes /\ orig' \in [Threads -> SUBSET Modes]
  <2>1. orig[t] \in SUBSET Modes /\ waitMask' = WaitBits(lock', want[t], orig[t])
    BY <1>1, Zenon DEF ThreadSleepCancelled, LockTypes
  <2>2. orig' = [orig EXCEPT ![t] = {}] /\ orig \in [Threads -> SUBSET Modes] /\ {} \in SUBSET Modes
    BY <1>1, Zenon DEF ThreadSleepCancelled, LockTypes
  <2> QED
    BY <2>1, <2>2, WaitBitsType, Zenon
<1>5. CASE t \in Range(queue) /\ queue' = ThreadDequeue(queue, {t}) /\ twice' = twice
  <2>1. queue' \in Seq(Threads) /\ IsInjective(queue') /\ Range(queue') = Range(queue) \ {t}
    BY <1>5, QueueFacts, DequeueKeeps, Zenon
  <2>2. /\ \A u \in Threads : u # t => (u \in Range(queue') <=> u \in Range(queue))
        /\ t \notin Range(queue')
    BY <2>1, Zenon
  <2>3. Count(t) = nHolding(holds, t) + 1 /\ Count(t)' = nHolding(holds, t) + 0
    BY <2>2, <1>1, <1>5, Zenon DEF Count
  <2>4. lock'.nHolding + Count(t) = lock.nHolding + Count(t)'
    BY <2>3, <1>1, <1>3
  <2> QED
    BY <2>1, <2>2, <2>4, <1>1, <1>3, <1>4, <1>5, QueueStepKeeps, Zenon
<1>6. CASE t \notin Range(queue) /\ ~Asserts /\ twice' = twice + 1 /\ queue' = queue
  <2>1. twice' \in Nat /\ twice' # 0
    BY <1>2, <1>6
  <2>2. /\ holder' \in [Threads -> BOOLEAN] /\ holder'[t]
        /\ \A u \in Threads : u # t => holder'[u] = holder[u]
    BY <1>1, <1>2, Zenon DEF LockTypes
  <2> QED
    BY <2>1, <2>2, <1>1, <1>3, <1>4, <1>6, LocalStepKeeps, Zenon
<1> QED
  BY <1>5, <1>6, Zenon DEF ThreadSleepCancelled

\* The end of a release by t: the threads woken, if any, have their locks, and
\* the others are where they were.
LEMMA WakeKept ==
  ASSUME LockInv, NEW t \in Threads, lpc[t] # "asleep",
         NEW l \in LockRecord, NEW h \in HoldsType, \A u \in Threads : u # t => h[u] = holds[u],
         Wake(l, h) \/ NoWake(l, h),
         \A u \in Threads : u # t => lpc'[u] = lpc[u] /\ want'[u] = want[u] /\ holder'[u] = holder[u]
  PROVE  /\ holds' \in HoldsType /\ holds'[t] = h[t]
         /\ lock' \in LockRecord /\ lock'.nHolding = l.nHolding
         /\ Exact(l, h) => Exact(lock', holds')
         /\ queue' \in Seq(Threads) /\ WaitersInv'
         /\ \A u \in Threads : u # t => Kept(u)
<1>1. /\ queue \in Seq(Threads) /\ IsInjective(queue)
      /\ \A u \in Range(queue) : u \in Threads /\ lpc[u] = "asleep" /\ want[u] \in Modes
      /\ Walked \in Seq(Threads) /\ IsInjective(Walked) /\ Range(Walked) \in SUBSET Range(queue)
      /\ \A u \in Range(Walked) : want[u] \in Modes
  BY QueueFacts, Zenon
<1>2. t \notin Range(queue)
  BY <1>1, Zenon
<1>3. PICK woken \in SUBSET Range(queue) :
        /\ holds' \in HoldsType /\ lock' \in LockRecord /\ lock'.nHolding = l.nHolding
        /\ Exact(l, h) => Exact(lock', holds')
        /\ \A u \in Threads : u \notin woken => holds'[u] = h[u]
        /\ \A u \in woken : holds'[u] = [h[u] EXCEPT ![want[u]] = @ + 1]
        /\ queue' \in Seq(Threads) /\ IsInjective(queue') /\ Range(queue') = Range(queue) \ woken
  <2>1. CASE Wake(l, h)
    <3> DEFINE w == ThreadLockWakeup(l, h)
               v == w.woken
    <3>1. /\ w.holds \in HoldsType /\ w.lock \in LockRecord /\ w.lock.nHolding = l.nHolding
          /\ Exact(l, h) => Exact(w.lock, w.holds)
          /\ v \in SUBSET Range(Walked)
          /\ \A u \in Threads : u \notin v => w.holds[u] = h[u]
          /\ \A u \in v : w.holds[u] = [h[u] EXCEPT ![want[u]] = @ + 1]
      BY <1>1, WakeupGrants, Zenon
    <3>2. lock' = w.lock /\ holds' = w.holds /\ queue' = ThreadDequeue(queue, v)
      BY <2>1, Zenon DEF Wake
    <3> HIDE DEF w, v
    <3>3. v \in SUBSET Range(queue)
      BY <3>1, <1>1, Zenon
    <3>4. queue' \in Seq(Threads) /\ IsInjective(queue') /\ Range(queue') = Range(queue) \ v
      BY <3>2, <1>1, DequeueKeeps, Zenon
    <3>5. /\ holds' \in HoldsType /\ lock' \in LockRecord /\ lock'.nHolding = l.nHolding
          /\ Exact(l, h) => Exact(lock', holds')
      BY <3>1, <3>2, Zenon
    <3>6. /\ \A u \in Threads : u \notin v => holds'[u] = h[u]
          /\ \A u \in v : holds'[u] = [h[u] EXCEPT ![want[u]] = @ + 1]
      BY <3>1, <3>2, Zenon
    <3> QED
      BY <3>4, <3>5, <3>6, <3>3, Zenon
  <2>2. CASE lock' = l /\ holds' = h /\ queue' = queue
    <3>1. Range(queue') = Range(queue) \ {} /\ {} \in SUBSET Range(queue)
      BY <2>2, Zenon
    <3> QED
      BY <3>1, <2>2, <1>1, Zenon
  <2> QED
    BY <2>1, <2>2, Zenon DEF NoWake
<1>4. holds'[t] = h[t]
  BY <1>2, <1>3, Zenon
<1>5. ASSUME NEW u \in Threads, u # t PROVE Kept(u)
  <2>1. CASE u \in woken
    <3>1. u \in Range(queue) /\ u \notin Range(queue') /\ holds'[u] = [holds[u] EXCEPT ![want[u]] = @ + 1]
      BY <2>1, <1>3, <1>5, Zenon
    <3> QED
      BY <3>1, <1>3, <1>5, WokenKept, Zenon
  <2>2. CASE u \notin woken
    <3>1. holds'[u] = holds[u] /\ (u \in Range(queue') <=> u \in Range(queue))
      BY <2>2, <1>3, <1>5, Zenon
    <3> QED
      BY <3>1, <1>3, <1>5, OtherKept, Zenon
  <2> QED
    BY <2>1, <2>2, Zenon
<1>6. WaitersInv'
  <2>1. \A u \in Range(queue') : u \in Threads /\ u # t /\ lpc[u] = "asleep"
    BY <1>1, <1>2, <1>3, Zenon
  <2> QED
    BY <2>1, <1>3, Zenon DEF WaitersInv
<1> QED
  BY <1>3, <1>4, <1>5, <1>6, Zenon

\* The end of a release by t, with HASH_REMOVE.
LEMMA RemoveKeeps ==
  ASSUME LockInv, NEW t \in Threads, lpc[t] \in {"release", "releaseAll"},
         NEW l \in LockRecord, NEW h \in HoldsType, \A u \in Threads : u # t => h[u] = holds[u],
         nHolding(h, t) <= Claim(t),
         twice = 0 => /\ Exact(l, h)
                      /\ l.nHolding + nHolding(holds, t) = lock.nHolding + nHolding(h, t),
         Wake(l, h) \/ NoWake(l, h),
         HashRemove, lpc' = [lpc EXCEPT ![t] = "out"], UNCHANGED <<want, twice, waitMask, orig>>,
         holder' \in [Threads -> BOOLEAN], \A u \in Threads : u # t => holder'[u] = holder[u],
         holder'[t] <=> nHolding(h, t) > 0
  PROVE  LockInv'
<1>1. LockTypes
  BY InvariantParts, Zenon
<1>2. /\ refs' = refs /\ removing' = removing - 1
      /\ entry' = (refs # 0 \/ removing' # 0)
  BY Zenon DEF HashRemove
<1>3. removing >= 1 /\ removing \in Nat /\ refs \in Nat
  BY TableBounds, Zenon DEF Releases
<1>4. (\A u \in Threads : u # t => lpc'[u] = lpc[u]) /\ lpc'[t] = "out"
  BY <1>1, Zenon DEF LockTypes
<1>5. /\ holds' \in HoldsType /\ holds'[t] = h[t]
      /\ lock' \in LockRecord /\ lock'.nHolding = l.nHolding
      /\ Exact(l, h) => Exact(lock', holds')
      /\ queue' \in Seq(Threads) /\ WaitersInv'
      /\ \A u \in Threads : u # t => Kept(u)
  <2>1. lpc[t] # "asleep" /\ \A u \in Threads : want'[u] = want[u]
    BY Zenon
  <2> QED
    BY <2>1, <1>4, WakeKept, Zenon
<1>6. LockTypes'
  <2>1. entry' \in BOOLEAN
    BY <1>2, Zenon
  <2>2. removing' \in Nat /\ refs' \in Nat
    BY <1>2, <1>3, SMTT(30)
  <2>3. lpc' \in [Threads -> {"out", "acquire", "asleep", "failed", "release", "releaseAll"}]
    BY <1>1, Zenon DEF LockTypes
  <2> QED
    BY <2>1, <2>2, <2>3, <1>1, <1>5, Zenon DEF LockTypes
<1>7. nHolding(holds', t) = nHolding(h, t) /\ nHolding(h, t) \in Nat
  BY <1>5, CountSame, CountType, Zenon
<1>8. ThreadInv(t)'
  BY <1>4, <1>7, Zenon DEF ThreadInv
<1>9. Claim(t)' = nHolding(h, t) /\ Share(t)' = 0 /\ Share(t) = 1
  BY <1>4, <1>7, ClaimAt, ClaimAtNext, Zenon
<1>10. Claim(t)' + refs <= refs' + Claim(t) /\ Share(t)' + removing <= removing' + Share(t)
  <2>1. Claim(t) \in Nat
    BY TableBounds, Zenon
  <2> QED
    BY <2>1, <1>2, <1>3, <1>7, <1>9, SMTT(30)
<1>11. entry' <=> (refs' # 0 \/ removing' # 0)
  BY <1>2, Zenon
<1>12. CountsInv' /\ (Asserts => twice' = 0)
  <2>1. (Asserts => twice = 0) /\ twice' = twice
    BY InvariantParts, Zenon
  <2>2. \A u \in Range(queue) \cup Range(queue') : u # t
    <3>1. \A u \in Range(queue') : lpc'[u] = "asleep"
      BY <1>5, Zenon DEF WaitersInv
    <3>2. \A u \in Range(queue) : lpc[u] = "asleep"
      BY QueueFacts, Zenon
    <3> QED
      BY <3>1, <3>2, <1>4, Zenon
  <2>3. Count(t) = nHolding(holds, t) + 0 /\ Count(t)' = nHolding(h, t) + 0
    BY <2>2, <1>7, Zenon DEF Count
  <2>4. nHolding(holds, t) \in Nat
    BY InvariantParts, Zenon
  <2>5. Count(t) = nHolding(holds, t) /\ Count(t)' = nHolding(h, t)
    BY <2>3, <2>4, <1>7
  <2>6. twice = 0 => /\ Exact(lock', holds')
                     /\ lock'.nHolding + Count(t) = lock.nHolding + Count(t)'
    BY <2>5, <1>5, Zenon
  <2> QED
    BY <2>1, <2>6, <1>5, <1>6, CountStep, Zenon
<1> QED
  BY <1>5, <1>6, <1>8, <1>10, <1>11, <1>12, StepKeeps, Zenon

\* The counters stay numbers.
LEMMA ReleasedType ==
  ASSUME NEW l \in LockRecord, NEW n \in [Modes -> Nat], NEW sum \in Int, NEW looked
  PROVE  /\ Released(l, n, sum, looked) \in LockRecord
         /\ Released(l, n, sum, looked).nHolding = l.nHolding - sum
         /\ Released(l, n, sum, looked).nActive = l.nActive - sum
         /\ \A m \in Modes :
              LET k == Released(l, n, sum, looked)
              IN  /\ k.activeHolders[m] = l.activeHolders[m] - n[m]
                  /\ m \in l.mask /\ k.activeHolders[m] # 0 => m \in k.mask
<1> DEFINE k == Released(l, n, sum, looked)
           a == [m \in Modes |-> l.activeHolders[m] - n[m]]
           b == [m \in Modes |-> l.holders[m] - n[m]]
           w == l.mask \ {m \in looked : a[m] = 0}
           i == l.nHolding - sum
           j == l.nActive - sum
<1>1. /\ l.activeHolders \in [Modes -> Int] /\ l.holders \in [Modes -> Int]
      /\ l.nHolding \in Int /\ l.nActive \in Int /\ l.mask \in SUBSET Modes
  BY Zenon DEF LockRecord
<1>2. k = [mask |-> w, holders |-> b, nHolding |-> i, activeHolders |-> a, nActive |-> j]
  BY Zenon DEF Released
<1>3. /\ \A m \in Modes : a[m] = l.activeHolders[m] - n[m]
      /\ \A m \in l.mask : a[m] # 0 => m \in w
      /\ w \in SUBSET Modes
  BY <1>1, Zenon
<1>4. a \in [Modes -> Int] /\ b \in [Modes -> Int] /\ i \in Int /\ j \in Int
  <2>1. \A m \in Modes : l.activeHolders[m] - n[m] \in Int /\ l.holders[m] - n[m] \in Int
    <3> DEFINE c == l.activeHolders
               d == l.holders
    <3>1. c \in [Modes -> Int] /\ d \in [Modes -> Int]
      BY <1>1, Zenon
    <3> HIDE DEF c, d
    <3>2. \A m \in Modes : c[m] - n[m] \in Int /\ d[m] - n[m] \in Int
      BY <3>1
    <3> QED
      BY <3>2, Zenon DEF c, d
  <2>2. i \in Int /\ j \in Int
    BY <1>1
  <2> QED
    BY <2>1, <2>2, Zenon
<1> HIDE DEF a, b, w, k
<1>5. /\ k \in LockRecord /\ k.nHolding = i /\ k.nActive = j /\ k.activeHolders = a /\ k.mask = w
  <2> HIDE DEF i, j
  <2> QED
    BY <1>2, <1>3, <1>4, Zenon DEF LockRecord
<1> QED
  BY <1>3, <1>5, Zenon DEF k

\* The counters of the lock when t has given back what it holds of some modes.
LEMMA ReleasedExact ==
  ASSUME NEW l \in LockRecord, NEW h \in HoldsType, NEW g \in HoldsType, NEW t \in Threads,
         \A u \in Threads : u # t => g[u] = h[u],
         NEW n \in [Modes -> Nat], \A m \in Modes : g[t][m] = h[t][m] - n[m],
         NEW sum \in Int, nHolding(g, t) = nHolding(h, t) - sum, NEW looked,
         \A u \in Threads : HoldLock(g, u) \in SUBSET HoldLock(h, u)
  PROVE  /\ Released(l, n, sum, looked) \in LockRecord
         /\ Released(l, n, sum, looked).nHolding = l.nHolding - sum
         /\ Exact(l, h) => Exact(Released(l, n, sum, looked), g)
<1> DEFINE k == Released(l, n, sum, looked)
<1>1. /\ k \in LockRecord /\ k.nHolding = l.nHolding - sum /\ k.nActive = l.nActive - sum
      /\ \A m \in Modes : /\ k.activeHolders[m] = l.activeHolders[m] - n[m]
                          /\ m \in l.mask /\ k.activeHolders[m] # 0 => m \in k.mask
  BY ReleasedType, SMTT(30)
<1> HIDE DEF k
<1>2. ASSUME Exact(l, h) PROVE Exact(k, g)
  <2>1. ASSUME NEW m \in Modes PROVE k.activeHolders[m] = HeldOf(g, m) /\ (k.activeHolders[m] > 0 => m \in k.mask)
    <3>1. HeldOf(g, m) + h[t][m] = HeldOf(h, m) + g[t][m]
      BY HeldOfChange, SMTT(30)
    <3>2. /\ HeldOf(g, m) \in Nat /\ HeldOf(h, m) \in Nat /\ h[t][m] \in Nat /\ n[m] \in Nat
          /\ g[t][m] = h[t][m] - n[m]
      BY HeldOfBounds, Zenon DEF HoldsType
    <3>3. l.activeHolders[m] = HeldOf(h, m) /\ (l.activeHolders[m] > 0 => m \in l.mask)
      BY <1>2, Zenon DEF Exact
    <3>4. k.activeHolders[m] = HeldOf(h, m) - n[m]
      BY <1>1, <3>3, Zenon
    <3>5. k.activeHolders[m] = HeldOf(g, m) /\ (k.activeHolders[m] > 0 => HeldOf(h, m) > 0 /\ k.activeHolders[m] # 0)
      BY <3>1, <3>2, <3>4, SMTT(30)
    <3> QED
      BY <3>3, <3>5, <1>1, Zenon
  <2>2. k.nActive = HeldAll(g)
    <3>1. HeldAll(g) + nHolding(h, t) = HeldAll(h) + nHolding(g, t)
      BY HeldAllChange, Zenon
    <3>2. HeldAll(h) \in Nat /\ HeldAll(g) \in Nat /\ nHolding(h, t) \in Nat
      BY HeldAllBounds, CountType, Zenon
    <3>3. l.nActive = HeldAll(h)
      BY <1>2, Zenon DEF Exact
    <3> QED
      BY <3>1, <3>2, <3>3, <1>1, SMTT(30)
  <2>3. ConflictFree(g)
    BY <1>2, FewerConflicts, Zenon DEF Exact
  <2> QED
    BY <2>1, <2>2, <2>3, Zenon DEF Exact
<1> QED
  BY <1>1, <1>2, Zenon DEF k

\* LockRelease, with the wake-ups and HASH_REMOVE.
LEMMA ReleaseKeeps ==
  ASSUME LockInv, NEW t \in Threads, LockRelease(t)
  PROVE  LockInv'
<1> DEFINE m == want[t]
           h == [holds EXCEPT ![t][m] = @ - 1]
           n == [NoHolds EXCEPT ![m] = 1]
           l == Released(lock, n, 1, {m})
<1>1. /\ LockTypes /\ ThreadInv(t) /\ CountsInv /\ nHolding(holds, t) \in Nat
      /\ holds \in HoldsType /\ lock \in LockRecord
  BY InvariantParts, Zenon DEF LockTypes
<1>2. /\ lpc[t] = "release" /\ (Wake(l, h) \/ NoWake(l, h))
      /\ holder' = [holder EXCEPT ![t] = nHolding(h, t) # 0]
      /\ HashRemove /\ lpc' = [lpc EXCEPT ![t] = "out"] /\ UNCHANGED <<want, twice, waitMask, orig>>
  BY Zenon DEF LockRelease
<1>3. m \in Modes /\ holds[t][m] > 0
  BY <1>1, <1>2, Zenon DEF ThreadInv
<1>4. /\ h \in HoldsType /\ nHolding(h, t) = nHolding(holds, t) - 1
      /\ \A u \in Threads : u # t => h[u] = holds[u]
      /\ \A u \in Threads : HoldLock(h, u) \in SUBSET HoldLock(holds, u)
  BY <1>1, <1>3, CountDrop, Zenon
<1>5. \A x \in Modes : h[t][x] = holds[t][x] - n[x]
  <2> DEFINE c == holds[t]
  <2>1. c \in [Modes -> Nat]
    BY <1>1, Zenon DEF HoldsType
  <2>2. h[t] = [c EXCEPT ![m] = c[m] - 1]
    BY <1>1, Zenon DEF HoldsType
  <2> HIDE DEF c, m, h
  <2>3. ASSUME NEW x \in Modes PROVE [c EXCEPT ![m] = c[m] - 1][x] = c[x] - n[x]
    BY <2>1, <1>3, SMTT(30) DEF NoHolds
  <2> QED
    BY <2>2, <2>3, Zenon DEF c
<1>6. n \in [Modes -> Nat]
  <2> HIDE DEF m
  <2> QED
    BY <1>3, SMTT(30) DEF NoHolds
<1> HIDE DEF h, n, l
<1>7. /\ l \in LockRecord /\ l.nHolding = lock.nHolding - 1
      /\ Exact(lock, holds) => Exact(l, h)
  <2>1. 1 \in Int
    OBVIOUS
  <2> DEFINE hh == holds
             ll == lock
  <2>2. /\ ll \in LockRecord /\ hh \in HoldsType /\ \A u \in Threads : u # t => h[u] = hh[u]
        /\ \A x \in Modes : h[t][x] = hh[t][x] - n[x]
        /\ nHolding(h, t) = nHolding(hh, t) - 1
        /\ \A u \in Threads : HoldLock(h, u) \in SUBSET HoldLock(hh, u)
    BY <1>1, <1>4, <1>5, Zenon
  <2> HIDE DEF hh, ll
  <2>3. /\ Released(ll, n, 1, {m}) \in LockRecord
        /\ Released(ll, n, 1, {m}).nHolding = ll.nHolding - 1
        /\ Exact(ll, hh) => Exact(Released(ll, n, 1, {m}), h)
    BY <2>1, <2>2, <1>4, <1>6, ReleasedExact, Zenon
  <2> QED
    BY <2>3, Zenon DEF hh, ll, l
<1>8. nHolding(h, t) \in Nat /\ lock.nHolding \in Int
  BY <1>1, <1>4, CountType, Zenon DEF LockRecord
<1>9. nHolding(h, t) <= Claim(t)
  <2>1. Claim(t) = (IF nHolding(holds, t) = 0 THEN 0 ELSE nHolding(holds, t) - 1)
    BY <1>2, ClaimAt, Zenon
  <2> QED
    BY <2>1, <1>1, <1>4, <1>8
<1>10. holder \in [Threads -> BOOLEAN] /\ (nHolding(h, t) # 0) \in BOOLEAN
  BY <1>1, Zenon DEF LockTypes
<1>11. /\ holder' \in [Threads -> BOOLEAN] /\ holder'[t] = (nHolding(h, t) # 0)
       /\ \A u \in Threads : u # t => holder'[u] = holder[u]
  BY <1>2, <1>10, Zenon
<1>12. holder'[t] <=> nHolding(h, t) > 0
  BY <1>8, <1>11, SMTT(30)
<1>13. twice = 0 => /\ Exact(l, h)
                    /\ l.nHolding + nHolding(holds, t) = lock.nHolding + nHolding(h, t)
  <2>1. l.nHolding + nHolding(holds, t) = lock.nHolding + nHolding(h, t)
    BY <1>1, <1>4, <1>7, <1>8, SMTT(30)
  <2> QED
    BY <2>1, <1>1, <1>7, Zenon DEF CountsInv
<1> QED
  BY <1>2, <1>4, <1>7, <1>9, <1>11, <1>12, <1>13, RemoveKeeps, Zenon

\* When t has as many holds as the lock counts, nobody else holds it.
LEMMA OnlyHolder ==
  ASSUME LockInv, NEW t \in Threads, t \notin Range(queue),
         lock.nHolding = nHolding(holds, t), lock.nHolding = SumOver(Counts)
  PROVE  \A u \in Threads : u # t => nHolding(holds, u) = 0
<1>1. \A u \in Threads : nHolding(holds, u) \in Nat
  BY InvariantParts, Zenon
<1>2. Counts \in [Threads -> Nat] /\ \A u \in Threads : Counts[u] >= nHolding(holds, u)
  BY <1>1 DEF Counts, Count
<1>3. Counts[t] = nHolding(holds, t) + 0
  BY Zenon DEF Counts, Count
<1>4. \A u \in Threads : u # t => Counts[t] + Counts[u] <= SumOver(Counts)
  BY <1>2, LockAssumption, SumOverBounds, Zenon
<1>5. ASSUME NEW u \in Threads, u # t PROVE nHolding(holds, u) = 0
  <2>1. /\ nHolding(holds, u) \in Nat /\ nHolding(holds, t) \in Nat /\ Counts[u] \in Nat
        /\ Counts[u] >= nHolding(holds, u)
        /\ nHolding(holds, t) + 0 + Counts[u] <= nHolding(holds, t)
    BY <1>1, <1>2, <1>3, <1>4, <1>5, Zenon
  <2> HIDE DEF Counts
  <2> QED
    BY <2>1
<1> QED
  BY <1>5, Zenon

\* LockReleaseAll, with the wake-ups and HASH_REMOVE.
LEMMA ReleaseAllKeeps ==
  ASSUME LockInv, NEW t \in Threads, LockReleaseAll(t)
  PROVE  LockInv'
<1> DEFINE h == [holds EXCEPT ![t] = NoHolds]
           n == nHolding(holds, t)
           l == IF lock.nHolding = n THEN Cleared(lock) ELSE Released(lock, holds[t], n, Modes)
<1>1. /\ LockTypes /\ CountsInv /\ holds \in HoldsType /\ lock \in LockRecord
      /\ n \in Nat /\ lock.nHolding \in Int
  BY InvariantParts, Zenon DEF LockTypes, LockRecord
<1>2. /\ lpc[t] = "releaseAll" /\ (Wake(l, h) \/ NoWake(l, h))
      /\ holder' = [holder EXCEPT ![t] = FALSE]
      /\ HashRemove /\ lpc' = [lpc EXCEPT ![t] = "out"] /\ UNCHANGED <<want, twice, waitMask, orig>>
  BY Zenon DEF LockReleaseAll
<1>3. /\ h \in HoldsType /\ nHolding(h, t) = 0
      /\ \A u \in Threads : u # t => h[u] = holds[u]
      /\ \A u \in Threads : HoldLock(h, u) \in SUBSET HoldLock(holds, u)
  BY <1>1, CountNone, Zenon
<1>4. h[t] = NoHolds
  BY <1>1, Zenon DEF HoldsType
<1> HIDE DEF h, n, l
<1>5. /\ l \in LockRecord /\ l.nHolding = lock.nHolding - n
      /\ twice = 0 => Exact(l, h)
  <2>1. CASE lock.nHolding = n
    <3>1. /\ Cleared(lock) \in LockRecord /\ Cleared(lock).nHolding = 0 /\ Cleared(lock).nActive = 0
          /\ \A m \in Modes : Cleared(lock).activeHolders[m] = 0
      <4>1. NoHolds \in [Modes -> Int] /\ (\A m \in Modes : NoHolds[m] = 0) /\ 0 \in Int
        BY DEF NoHolds
      <4> DEFINE c == [mask |-> lock.mask, holders |-> NoHolds, nHolding |-> 0,
                       activeHolders |-> NoHolds, nActive |-> 0]
      <4>2. Cleared(lock) = c
        BY DEF Cleared, NewLock
      <4>3. lock.mask \in SUBSET Modes
        BY <1>1, Zenon DEF LockRecord
      <4>4. c \in LockRecord /\ c.nHolding = 0 /\ c.nActive = 0 /\ c.activeHolders = NoHolds
        BY <4>1, <4>3, Zenon DEF LockRecord
      <4> HIDE DEF c
      <4> QED
        BY <4>1, <4>2, <4>4, Zenon
    <3>2. l = Cleared(lock)
      BY <2>1, Zenon DEF l
    <3>3. lock.nHolding - n = 0
      BY <2>1, <1>1
    <3>4. ASSUME twice = 0 PROVE Exact(l, h)
      <4>1. t \notin Range(queue)
        BY <1>2, QueueFacts, Zenon
      <4>2. lock.nHolding = SumOver(Counts)
        BY <3>4, <1>1, Zenon DEF CountsInv
      <4>3. \A u \in Threads : u # t => nHolding(holds, u) = 0
        BY <4>1, <4>2, <2>1, OnlyHolder, Zenon DEF n
      <4>4. ASSUME NEW u \in Threads PROVE nHolding(h, u) = 0
        <5>1. CASE u = t
          BY <5>1, <1>3, Zenon
        <5>2. CASE u # t
          <6>1. nHolding(h, u) = nHolding(holds, u)
            BY <5>2, <1>1, <1>3, CountSame, Zenon
          <6> QED
            BY <6>1, <5>2, <4>3, Zenon
        <5> QED
          BY <5>1, <5>2, Zenon
      <4> QED
        BY <4>4, <3>1, <3>2, <1>3, NothingHeld, Zenon
    <3> QED
      BY <3>1, <3>2, <3>3, <3>4, Zenon
  <2>2. CASE lock.nHolding # n
    <3> DEFINE hh == holds
               ll == lock
               c == holds[t]
    <3>1. /\ ll \in LockRecord /\ hh \in HoldsType /\ \A u \in Threads : u # t => h[u] = hh[u]
          /\ \A u \in Threads : HoldLock(h, u) \in SUBSET HoldLock(hh, u)
          /\ c \in [Modes -> Nat] /\ hh[t] = c /\ n = nHolding(hh, t)
      BY <1>1, <1>3, Zenon DEF HoldsType, n
    <3>2. l = Released(ll, c, n, Modes)
      BY <2>2, Zenon DEF l
    <3> HIDE DEF hh, ll, c
    <3>3. \A x \in Modes : NoHolds[x] = c[x] - c[x]
      BY <3>1 DEF NoHolds
    <3>4. \A x \in Modes : h[t][x] = hh[t][x] - c[x]
      BY <3>1, <3>3, <1>4, Zenon
    <3>5. n \in Int /\ 0 = n - n
      BY <1>1
    <3>6. nHolding(h, t) = nHolding(hh, t) - n
      BY <3>1, <3>5, <1>3, Zenon
    <3>7. /\ Released(ll, c, n, Modes) \in LockRecord
          /\ Released(ll, c, n, Modes).nHolding = ll.nHolding - n
          /\ Exact(ll, hh) => Exact(Released(ll, c, n, Modes), h)
      BY <3>1, <3>4, <3>5, <3>6, <1>3, ReleasedExact, SMTT(30)
    <3>8. twice = 0 => Exact(ll, hh)
      BY <1>1, Zenon DEF CountsInv, hh, ll
    <3> QED
      BY <3>2, <3>7, <3>8, Zenon DEF ll
  <2> QED
    BY <2>1, <2>2, Zenon
<1>6. nHolding(h, t) <= Claim(t)
  BY <1>3, TableBounds, SMTT(30)
<1>7. /\ holder' \in [Threads -> BOOLEAN] /\ ~holder'[t]
      /\ \A u \in Threads : u # t => holder'[u] = holder[u]
  BY <1>1, <1>2, Zenon DEF LockTypes
<1>8. holder'[t] <=> nHolding(h, t) > 0
  BY <1>3, <1>7, SMTT(30)
<1>9. l.nHolding + nHolding(holds, t) = lock.nHolding + nHolding(h, t)
  <2>1. nHolding(holds, t) = n
    BY Zenon DEF n
  <2> QED
    BY <2>1, <1>1, <1>3, <1>5
<1> QED
  BY <1>2, <1>3, <1>5, <1>6, <1>7, <1>8, <1>9, RemoveKeeps, Zenon
-----------------------------------------------------------------------------
\* No entry, no holder, no waiter.
LEMMA LockInitial == LockInit => LockInv
<1> SUFFICES ASSUME LockInit PROVE LockInv
  BY Zenon
<1>1. holds \in HoldsType /\ \A t \in Threads : holds[t] = NoHolds
  BY Zenon DEF LockInit, HoldsType, NoHolds
<1>2. LockTypes
  <2>1. /\ lpc \in [Threads -> {"out", "acquire", "asleep", "failed", "release", "releaseAll"}]
        /\ want \in [Threads -> Modes \cup {NoMode}]
        /\ holder \in [Threads -> BOOLEAN] /\ orig \in [Threads -> SUBSET Modes]
    BY Zenon DEF LockInit
  <2>2. queue \in Seq(Threads) /\ waitMask \in SUBSET Modes /\ twice \in Nat
    BY DEF LockInit
  <2>4. lock \in LockRecord
    BY NewLockFields, Zenon DEF LockInit
  <2>3. entry \in BOOLEAN /\ refs \in Nat /\ removing \in Nat
    BY Zenon DEF LockInit
  <2> QED
    BY <2>1, <2>2, <2>3, <2>4, <1>1, Zenon DEF LockTypes
<1>3. \A t \in Threads : nHolding(holds, t) = 0
  <2> TAKE t \in Threads
  <2>1. NoHolds \in [Modes -> Nat] /\ \A m \in Modes : NoHolds[m] = 0
    BY Zenon DEF NoHolds
  <2>2. SumOver(NoHolds) = 0
    BY <2>1, ModesFinite, SumOverBounds, Zenon
  <2> QED
    BY <2>2, <1>1, nHoldingSum, Zenon
<1>4. WaitersInv /\ \A t \in Threads : t \notin Range(queue)
  BY DEF LockInit, WaitersInv, IsInjective, Range
<1>5. \A t \in Threads : ThreadInv(t)
  BY <1>3, <1>4 DEF LockInit, ThreadInv
<1>6. TableInv
  <2>1. \A t \in Threads : Claim(t) = 0 /\ Share(t) = 0
    BY <1>3, ClaimAt, Zenon DEF LockInit
  <2>2. Claims \in [Threads -> Nat] /\ Leaving \in [Threads -> Nat]
    BY <2>1 DEF Claims, Leaving
  <2>3. \A t \in Threads : Claims[t] = 0 /\ Leaving[t] = 0
    BY <2>1, Zenon DEF Claims, Leaving
  <2>4. SumOver(Claims) = 0 /\ SumOver(Leaving) = 0
    BY <2>2, <2>3, LockAssumption, SumOverBounds, Zenon
  <2> QED
    BY <2>4 DEF TableInv, LockInit
<1>7. CountsInv /\ (Asserts => twice = 0)
  BY <1>1, <1>3, <1>4, NobodyCounts, Zenon DEF LockInit, CountsInv
<1>8. EmptyInv /\ EntryOutlivesUsers
  BY Zenon DEF LockInit, EmptyInv, EntryOutlivesUsers
<1> QED
  BY <1>2, <1>4, <1>5, <1>6, <1>7, <1>8, Zenon DEF LockInv

\* The invariant is about the lock alone.
LEMMA LockStutters == LockInv /\ UNCHANGED lockVars => LockInv'
<1> SUFFICES ASSUME LockInv, UNCHANGED lockVars PROVE LockInv'
  BY Zenon
<1> QED
  BY Zenon DEF lockVars, LockInv, LockTypes, WaitersInv, TableInv, EmptyInv, ThreadInv, Claims, Leaving,
     Claim, Share, Releases, Asks, CountsInv, Counts, Count, Exact, EntryOutlivesUsers

\* The invariant, for any threads, modes asked for and bounds: the reference counts
\* cover the threads that are about, whatever is cancelled and when, and the counters
\* of the lock say what is held and waited for until a thread that was granted the
\* lock is dequeued a second time.
THEOREM LockInvariant == LockSpec => []LockInv
<1>1. LockInit => LockInv
  BY LockInitial, Zenon
<1>2. LockInv /\ [LockNext]_lockVars => LockInv'
  <2> SUFFICES ASSUME LockInv, [LockNext]_lockVars PROVE LockInv'
    BY Zenon
  <2>1. ASSUME NEW t \in Threads, NEW m \in Modes, Enter(t, m) PROVE LockInv'
    BY <2>1, EnterKeeps, Zenon
  <2>2. ASSUME NEW t \in Threads, NEW m \in Modes, LockReleaseFind(t, m) PROVE LockInv'
    BY <2>2, ReleaseFindKeeps, Zenon
  <2>3. ASSUME NEW t \in Threads, LockReleaseAllFind(t) PROVE LockInv'
    BY <2>3, ReleaseAllFindKeeps, Zenon
  <2>4. ASSUME NEW t \in Threads, LockAcquire(t) PROVE LockInv'
    BY <2>4, AcquireKeeps, Zenon
  <2>5. ASSUME NEW t \in Threads, WaitOnLock(t) PROVE LockInv'
    BY <2>5, WaitOnLockKeeps, Zenon
  <2>6. ASSUME NEW t \in Threads, ThreadSleepCancelled(t) PROVE LockInv'
    BY <2>6, CancelKeeps, Zenon
  <2>7. ASSUME NEW t \in Threads, LockRelease(t) PROVE LockInv'
    BY <2>7, ReleaseKeeps, Zenon
  <2>8. ASSUME NEW t \in Threads, LockReleaseAll(t) PROVE LockInv'
    BY <2>8, ReleaseAllKeeps, Zenon
  <2>9. CASE UNCHANGED lockVars
    BY <2>9, LockStutters, Zenon
  <2> QED
    BY <2>1, <2>2, <2>3, <2>4, <2>5, <2>6, <2>7, <2>8, <2>9, Zenon DEF LockNext, LockStep
<1> QED
  BY <1>1, <1>2, PTL DEF LockSpec

\* LockResolveConflicts, the grants of ThreadLockWakeup and the short cuts of
\* LockAcquire, all of which go by the counters of the lock, never let two threads hold
\* conflicting modes before a granted sleeper is dequeued a second time.
THEOREM HoldersCompatible == LockSpec => []NoConflictingHolders
<1>1. LockInv => NoConflictingHolders
  BY Zenon DEF LockInv, CountsInv, Exact, ConflictFree, NoConflictingHolders, NoConflictingModes
<1> QED
  BY <1>1, LockInvariant, PTL

\* In a build with assertions, where SHMQueueDelete does not survive the second
\* dequeue, two threads never hold conflicting modes at all.
THEOREM AssertedHoldersCompatible ==
  ASSUME Asserts
  PROVE  LockSpec => []NoConflictingModes
<1>1. LockInv => NoConflictingModes
  BY Zenon DEF LockInv, CountsInv, Exact, ConflictFree, NoConflictingModes
<1> QED
  BY <1>1, LockInvariant, PTL

\* SearchLockTable removes the entry only when nobody holds the lock, waits for
\* it or is on the way to its mutex.
THEOREM EntryKeptForUsers == LockSpec => []EntryOutlivesUsers
<1>1. LockInv => EntryOutlivesUsers
  BY Zenon DEF LockInv
<1> QED
  BY <1>1, LockInvariant, PTL

\* The end of a release changes the holds of t and of the sleepers it wakes.
LEMMA WakeChange ==
  ASSUME LockInv, NEW t \in Threads, Releases(t),
         NEW l \in LockRecord, NEW h \in HoldsType, \A u \in Threads : u # t => h[u] = holds[u],
         \A m \in Modes : h[t][m] <= holds[t][m],
         Wake(l, h) \/ holds' = h
  PROVE  HoldsChange
<1>1. /\ queue \in Seq(Threads) /\ IsInjective(queue)
      /\ \A u \in Range(queue) : u \in Threads /\ lpc[u] = "asleep" /\ want[u] \in Modes
      /\ Walked \in Seq(Threads) /\ IsInjective(Walked) /\ Range(Walked) \in SUBSET Range(queue)
      /\ \A u \in Range(Walked) : want[u] \in Modes
  BY QueueFacts, Zenon
<1>2. PICK woken \in SUBSET Range(queue) :
        /\ \A u \in Threads : u \notin woken => holds'[u] = h[u]
        /\ \A u \in woken : holds'[u] = [h[u] EXCEPT ![want[u]] = @ + 1]
  <2>1. CASE Wake(l, h)
    <3> DEFINE w == ThreadLockWakeup(l, h)
    <3>1. /\ w.woken \in SUBSET Range(Walked)
          /\ \A u \in Threads : u \notin w.woken => w.holds[u] = h[u]
          /\ \A u \in w.woken : w.holds[u] = [h[u] EXCEPT ![want[u]] = @ + 1]
      BY <1>1, WakeupGrants, Zenon
    <3>2. holds' = w.holds
      BY <2>1, Zenon DEF Wake
    <3> HIDE DEF w
    <3>3. w.woken \in SUBSET Range(queue)
      BY <3>1, <1>1, Zenon
    <3> QED
      BY <3>1, <3>2, <3>3, Zenon
  <2>2. CASE holds' = h
    <3>1. {} \in SUBSET Range(queue) /\ \A u : u \notin {}
      BY Zenon
    <3> QED
      BY <2>2, <3>1, Zenon
  <2> QED
    BY <2>1, <2>2, Zenon
<1>3. /\ lpc[t] \in {"release", "releaseAll"} /\ lpc[t] # "asleep" /\ holds \in HoldsType
      /\ t \notin woken
  BY <1>1, <1>2, InvariantParts, Zenon DEF Releases, LockTypes
<1>4. ASSUME NEW u \in Threads, NEW m \in Modes
      PROVE  /\ holds'[u][m] > holds[u][m] => lpc[u] \in {"acquire", "asleep"} /\ m = want[u]
             /\ holds'[u][m] < holds[u][m] => lpc[u] \in {"release", "releaseAll"}
  <2>1. holds[u] \in [Modes -> Nat] /\ holds[u][m] \in Nat /\ h[u][m] \in Nat
    BY <1>3, Zenon DEF HoldsType
  <2>2. CASE u = t
    <3>1. holds'[u][m] = h[u][m] /\ h[u][m] <= holds[u][m]
      BY <1>2, <1>3, <2>2, Zenon
    <3>2. ~(holds'[u][m] > holds[u][m])
      BY <2>1, <3>1
    <3> QED
      BY <1>3, <2>2, <3>2, Zenon
  <2>3. CASE u # t /\ u \notin woken
    <3>1. holds'[u][m] = holds[u][m]
      BY <1>2, <2>3, Zenon
    <3> QED
      BY <2>1, <3>1
  <2>4. CASE u # t /\ u \in woken
    <3>1. lpc[u] = "asleep" /\ holds'[u] = [holds[u] EXCEPT ![want[u]] = holds[u][want[u]] + 1]
      BY <1>1, <1>2, <2>4, Zenon
    <3>2. CASE m = want[u]
      <4>1. holds'[u][m] = holds[u][m] + 1
        BY <2>1, <3>1, <3>2, Zenon
      <4>2. ~(holds'[u][m] < holds[u][m])
        BY <2>1, <4>1
      <4> QED
        BY <3>1, <3>2, <4>2, Zenon
    <3>3. CASE m # want[u]
      <4>1. holds'[u][m] = holds[u][m]
        BY <2>1, <3>1, <3>3, Zenon
      <4> QED
        BY <2>1, <4>1
    <3> QED
      BY <3>2, <3>3, Zenon
  <2> QED
    BY <2>2, <2>3, <2>4, Zenon
<1> QED
  BY <1>4, Zenon DEF HoldsChange

\* A step that leaves the holds alone.
LEMMA NoChange ==
  ASSUME LockInv, holds' = holds
  PROVE  HoldsChange
<1>1. holds \in HoldsType
  BY InvariantParts, Zenon DEF LockTypes
<1>2. \A t \in Threads, m \in Modes : holds[t][m] \in Nat
  BY <1>1, Zenon DEF HoldsType
<1>3. \A t \in Threads, m \in Modes : ~(holds[t][m] > holds[t][m]) /\ ~(holds[t][m] < holds[t][m])
  BY <1>2
<1> QED
  BY <1>3, Zenon DEF HoldsChange

\* A grant of LockAcquire.
LEMMA GrantChange ==
  ASSUME LockInv, NEW t \in Threads, lpc[t] = "acquire", holds' = GrantLock(holds, t, want[t])
  PROVE  HoldsChange
<1>1. holds \in HoldsType
  BY InvariantParts, Zenon DEF LockTypes
<1>2. holds' = [holds EXCEPT ![t] = [holds[t] EXCEPT ![want[t]] = holds[t][want[t]] + 1]]
  BY Zenon DEF GrantLock
<1>3. ASSUME NEW u \in Threads, NEW m \in Modes
      PROVE  /\ holds'[u][m] > holds[u][m] => lpc[u] \in {"acquire", "asleep"} /\ m = want[u]
             /\ holds'[u][m] < holds[u][m] => lpc[u] \in {"release", "releaseAll"}
  <2>1. holds[u] \in [Modes -> Nat] /\ holds[u][m] \in Nat
    BY <1>1, Zenon DEF HoldsType
  <2>2. CASE u = t /\ m = want[t]
    <3>1. holds'[u][m] = holds[u][m] + 1
      BY <1>1, <1>2, <2>1, <2>2, Zenon DEF HoldsType
    <3>2. ~(holds'[u][m] < holds[u][m])
      BY <2>1, <3>1
    <3> QED
      BY <2>2, <3>2, Zenon
  <2>3. CASE ~(u = t /\ m = want[t])
    <3>1. holds'[u][m] = holds[u][m]
      BY <1>1, <1>2, <2>1, <2>3, ZenonT(60) DEF HoldsType
    <3> QED
      BY <2>1, <3>1
  <2> QED
    BY <2>2, <2>3, Zenon
<1> QED
  BY <1>3, Zenon DEF HoldsChange

\* A thread gets a mode only while it asks for it, whether LockAcquire grants it or
\* the release of another thread in its sleep, and loses one only in a release of
\* its own.
THEOREM HoldsAsAsked == LockSpec => [][HoldsChange]_lockVars
<1>1. ASSUME LockInv, LockNext PROVE HoldsChange
  <2>0. /\ holds \in HoldsType /\ lock \in LockRecord
        /\ \A u \in Threads : ThreadInv(u) /\ nHolding(holds, u) \in Nat
    BY <1>1, InvariantParts, Zenon DEF LockTypes
  <2>1. ASSUME NEW t \in Threads, LockRelease(t) PROVE HoldsChange
    <3> DEFINE m == want[t]
               h == [holds EXCEPT ![t][m] = @ - 1]
    <3> DEFINE l == Released(lock, [NoHolds EXCEPT ![m] = 1], 1, {m})
    <3>1. lpc[t] = "release" /\ (Wake(l, h) \/ holds' = h)
      BY <2>1, Zenon DEF LockRelease, NoWake
    <3>2. m \in Modes /\ holds[t][m] > 0
      BY <2>0, <3>1, Zenon DEF ThreadInv
    <3>3. /\ h \in HoldsType /\ nHolding(h, t) = nHolding(holds, t) - 1
          /\ \A u \in Threads : u # t => h[u] = holds[u]
          /\ \A u \in Threads : HoldLock(h, u) \in SUBSET HoldLock(holds, u)
      BY <2>0, <3>2, CountDrop, Zenon
    <3>4. l \in LockRecord
      <4> HIDE DEF m
      <4>1. [NoHolds EXCEPT ![m] = 1] \in [Modes -> Nat] /\ 1 \in Int
        BY <3>2, SMTT(30) DEF NoHolds
      <4> QED
        BY <4>1, <2>0, ReleasedType, Zenon
    <3>5. h[t] = [holds[t] EXCEPT ![m] = holds[t][m] - 1] /\ holds[t] \in [Modes -> Nat]
      BY <2>0, Zenon DEF HoldsType
    <3> HIDE DEF h, l
    <3>6. ASSUME NEW x \in Modes PROVE h[t][x] <= holds[t][x]
      <4>1. h[t][x] = holds[t][x] \/ h[t][x] = holds[t][x] - 1
        BY <3>2, <3>5, Zenon
      <4>2. holds[t][x] \in Nat
        BY <3>5, Zenon
      <4> QED
        BY <4>1, <4>2
    <3> QED
      BY <1>1, <3>1, <3>3, <3>4, <3>6, WakeChange, Zenon DEF Releases
  <2>2. ASSUME NEW t \in Threads, LockReleaseAll(t) PROVE HoldsChange
    <3> DEFINE h == [holds EXCEPT ![t] = NoHolds]
    <3> DEFINE l == Released(lock, holds[t], nHolding(holds, t), Modes)
    <3>1. lpc[t] = "releaseAll" /\ (Wake(l, h) \/ holds' = h)
      BY <2>2, Zenon DEF LockReleaseAll, NoWake
    <3>2. /\ h \in HoldsType
          /\ \A u \in Threads : u # t => h[u] = holds[u]
          /\ \A u \in Threads : HoldLock(h, u) \in SUBSET HoldLock(holds, u)
      BY <2>0, CountNone, Zenon
    <3>3. l \in LockRecord
      <4>1. holds[t] \in [Modes -> Nat] /\ nHolding(holds, t) \in Nat
        BY <2>0, Zenon DEF HoldsType
      <4>2. nHolding(holds, t) \in Int
        BY <4>1
      <4> QED
        BY <4>1, <4>2, <2>0, ReleasedType, Zenon
    <3>4. h[t] = NoHolds /\ holds[t] \in [Modes -> Nat]
      BY <2>0, Zenon DEF HoldsType
    <3> HIDE DEF h, l
    <3>5. \A x \in Modes : h[t][x] = 0 /\ holds[t][x] \in Nat
      BY <3>4, Zenon DEF NoHolds
    <3>6. \A x \in Modes : h[t][x] <= holds[t][x]
      BY <3>5
    <3> QED
      BY <1>1, <3>1, <3>2, <3>3, <3>6, WakeChange, Zenon DEF Releases
  <2>3. ASSUME NEW t \in Threads, LockAcquire(t) PROVE HoldsChange
    <3>1. lpc[t] = "acquire" /\ (holds' = GrantLock(holds, t, want[t]) \/ holds' = holds)
      BY <2>3, Zenon DEF LockAcquire
    <3> QED
      BY <1>1, <3>1, GrantChange, NoChange, Zenon
  <2>4. ASSUME NEW t \in Threads, WaitOnLock(t) \/ ThreadSleepCancelled(t) \/ LockReleaseAllFind(t)
        PROVE  HoldsChange
    <3>1. holds' = holds
      BY <2>4, Zenon DEF WaitOnLock, ThreadSleepCancelled, LockReleaseAllFind, Find
    <3> QED
      BY <1>1, <3>1, NoChange, Zenon
  <2>5. ASSUME NEW t \in Threads, NEW m \in Modes, Enter(t, m) \/ LockReleaseFind(t, m)
        PROVE  HoldsChange
    <3>1. holds' = holds
      BY <2>5, Zenon DEF Enter, LockReleaseFind, Find
    <3> QED
      BY <1>1, <3>1, NoChange, Zenon
  <2> QED
    BY <1>1, <2>1, <2>2, <2>3, <2>4, <2>5, Zenon DEF LockNext, LockStep
<1>2. LockInv /\ [LockNext]_lockVars => [HoldsChange]_lockVars
  BY <1>1, Zenon
<1> QED
  BY <1>2, LockInvariant, PTL DEF LockSpec
=============================================================================
