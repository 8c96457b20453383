----------------------------- MODULE Recursion -----------------------------
(***************************************************************************)
(* What the proofs about recursive functions rest on.  The library states  *)
(* induction for a predicate; here it is stated for a set, and the step of *)
(* a recursion is a function, so that a lemma can be used like any other   *)
(* fact.                                                                   *)
(***************************************************************************)
EXTENDS Integers, WellFoundedInduction, TLAPS

\* A set of natural numbers that is not empty has a smallest element.
LEMMA LeastElement ==
    ASSUME NEW T, T \subseteq Nat, T # {}
    PROVE  \E x \in T : \A y \in T : x <= y
<1>1. IsWellFoundedOn(OpToRel(<, Nat), Nat)
  BY NatLessThanWellFounded
<1>2. PICK x \in T : \A y \in T : ~(<<y, x>> \in OpToRel(<, Nat))
  BY <1>1, WFMin
<1>3. ASSUME NEW y \in T
      PROVE  x <= y
  <2>1. <<y, x>> \in Nat \X Nat
    OBVIOUS
  <2>2. y < x => <<y, x>> \in OpToRel(<, Nat)
    BY <2>1 DEF OpToRel
  <2>3. ~(y < x)
    BY <1>2, <2>2, Zenon
  <2>4. x \in Nat /\ y \in Nat
    OBVIOUS
  <2> QED
    BY <2>3, <2>4
<1> QED
  BY <1>3

\* Induction: a set that has 0, and with a number the next, has them all.
LEMMA Induction ==
    ASSUME NEW T, 0 \in T, \A n \in Nat : n \in T => n + 1 \in T
    PROVE  Nat \subseteq T
<1> SUFFICES ASSUME Nat \ T # {} PROVE FALSE
  OBVIOUS
<1>1. PICK x \in Nat \ T : \A y \in Nat \ T : x <= y
  <2>1. Nat \ T \subseteq Nat
    OBVIOUS
  <2> QED
    BY <2>1, LeastElement
<1>2. x # 0 /\ x - 1 \in Nat /\ x - 1 \in T
  BY <1>1
<1> QED
  BY <1>2

\* f starts with a, and G makes each value up to N from the one before.
Follows(f, A, a, N, G) ==
    /\ f \in [0 .. N -> A]
    /\ f[0] = a
    /\ \A k \in 1 .. N : f[k] = G[<<k, f[k - 1]>>]

\* A function is defined by its value at 0 and by how each value comes from the one
\* before.
LEMMA RecursiveFunction ==
    ASSUME NEW A, NEW a, NEW N, NEW G, a \in A, N \in Nat, G \in [(1 .. N) \X A -> A]
    PROVE  \E f : Follows(f, A, a, N, G)
<1> DEFINE Upto(n, f) == f[0] = a /\ \A k \in 1 .. n : f[k] = G[<<k, f[k - 1]>>]
           T == {n \in Nat : n <= N => \E f \in [0 .. n -> A] : Upto(n, f)}
<1>1. 0 \in T
  <2>1. [k \in 0 .. 0 |-> a] \in [0 .. 0 -> A] /\ Upto(0, [k \in 0 .. 0 |-> a])
    OBVIOUS
  <2> QED
    BY <2>1
<1>2. ASSUME NEW n \in Nat, n \in T
      PROVE  n + 1 \in T
  <2> SUFFICES ASSUME n + 1 <= N
               PROVE  \E f \in [0 .. n + 1 -> A] : Upto(n + 1, f)
    OBVIOUS
  <2>1. PICK f \in [0 .. n -> A] : Upto(n, f)
    BY <1>2
  <2> DEFINE g == [k \in 0 .. n + 1 |-> IF k <= n THEN f[k] ELSE G[<<n + 1, f[n]>>]]
  <2>2. n + 1 \in 1 .. N /\ f[n] \in A /\ G[<<n + 1, f[n]>>] \in A
    OBVIOUS
  <2>3. g \in [0 .. n + 1 -> A]
    BY <2>2
  <2>4. g[0] = a
    BY <2>1
  <2>5. ASSUME NEW k \in 1 .. n + 1
        PROVE  g[k] = G[<<k, g[k - 1]>>]
    <3>1. k - 1 \in 0 .. n /\ k - 1 \in 0 .. n + 1 /\ g[k - 1] = f[k - 1]
      OBVIOUS
    <3>2. CASE k = n + 1
      BY <3>1, <3>2
    <3>3. CASE k \in 1 .. n
      BY <2>1, <3>1, <3>3
    <3> QED
      BY <3>2, <3>3
  <2> HIDE DEF g
  <2> QED
    BY <2>3, <2>4, <2>5
<1>3. Nat \subseteq T
  <2> HIDE DEF T
  <2> QED
    BY <1>1, <1>2, Induction
<1> QED
  BY <1>3 DEF Follows

\* f and g start with the same value, and go on in the same way up to N.
Alike(f, g, N) ==
    /\ f[0] = g[0]
    /\ \A k \in 1 .. N : f[k - 1] = g[k - 1] => f[k] = g[k]

Same(f, g, N) == \A n \in 0 .. N : f[n] = g[n]

\* Two such functions are the same.
LEMMA SameRecursion ==
    ASSUME NEW N, NEW f, NEW g, N \in Nat, Alike(f, g, N)
    PROVE  Same(f, g, N)
<1> DEFINE T == {n \in Nat : n <= N => f[n] = g[n]}
<1>1. 0 \in T
  BY DEF Alike
<1>2. ASSUME NEW n \in Nat, n \in T
      PROVE  n + 1 \in T
  <2>1. n + 1 <= N => n + 1 \in 1 .. N /\ (n + 1) - 1 = n
    OBVIOUS
  <2> QED
    BY <1>2, <2>1 DEF Alike
<1>3. Nat \subseteq T
  <2> HIDE DEF T
  <2> QED
    BY <1>1, <1>2, Induction
<1> QED
  BY <1>3 DEF Same

=============================================================================
