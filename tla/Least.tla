-------------------------------- MODULE Least --------------------------------
(***************************************************************************)
(* Induction over data.  The provers cannot instantiate the induction      *)
(* theorems of the library, which take an operator as a parameter; a set   *)
(* of counterexamples with its least element does the same work.           *)
(***************************************************************************)
EXTENDS Integers, FiniteSetTheorems, TLAPS

\* Every set of natural numbers that is not empty has a least element: the
\* sets of the numbers below each of its members are finite, and inclusion is
\* well-founded on finite sets.  It carries the inductions over the positions
\* of a stream (Ends) and over the steps of a loop (Rotations).
LEMMA LeastNat ==
  ASSUME NEW T \in SUBSET Nat, T # {}
  PROVE  \E m \in T : \A k \in T : m <= k
<1> DEFINE below(n) == 0 .. n - 1
           R == StrictSubsetOrdering(Nat)
           S == FiniteSubsetsOf(Nat)
           U == {below(n) : n \in T}
<1>1. IsWellFoundedOn(R, S)
  BY FS_StrictSubsetOrderingWellFounded
<1>2. U \subseteq S
  <2>1. ASSUME NEW n \in T PROVE below(n) \in SUBSET Nat /\ IsFiniteSet(below(n))
    BY FS_Interval
  <2> QED BY <2>1 DEF FiniteSubsetsOf
<1>3. U # {}
  OBVIOUS
<1>4. \E x \in U : \A y \in U : ~ (<<y, x>> \in R)
  <2> HIDE DEF R, S, U
  <2> QED BY <1>1, <1>2, <1>3, WFMin
<1>5. PICK m \in T : \A y \in U : ~ (<<y, below(m)>> \in R)
  BY <1>4
<1>6. ASSUME NEW k \in T PROVE m <= k
  <2>1. SUFFICES ASSUME k < m PROVE FALSE
    OBVIOUS
  <2>2. below(k) \in U
    OBVIOUS
  <2>3. below(k) \subseteq below(m) /\ k \in below(m) /\ k \notin below(k)
    BY <2>1
  <2>4. below(k) \in SUBSET Nat /\ below(m) \in SUBSET Nat
    OBVIOUS
  <2> HIDE DEF below
  <2>5. <<below(k), below(m)>> \in R
    BY <2>3, <2>4 DEF StrictSubsetOrdering
  <2> QED BY <2>2, <2>5, <1>5
<1> QED BY <1>6

\* The states f that a loop has had after 0, 1, ... n passes: it starts with base,
\* and its k-th pass is the function step[k].
Loop(S, n, base, step, f) ==
  /\ f \in [0 .. n -> S] /\ f[0] = base
  /\ \A k \in 1 .. n : f[k] = step[k][f[k - 1]]

\* A loop is well defined.  It carries the equations of the recursive functions
\* that model the loops of Codec and Library.
LEMMA LoopDefined ==
  ASSUME NEW S, NEW n \in Nat, NEW base \in S, NEW step,
         \A k \in 1 .. n, s \in S : step[k][s] \in S
  PROVE  \E f : Loop(S, n, base, step, f)
<1> DEFINE T == {k \in Nat : k <= n /\ ~ \E f : Loop(S, k, base, step, f)}
<1>1. SUFFICES ASSUME T # {} PROVE FALSE
  <2>1. n \notin T => \E f : Loop(S, n, base, step, f)
    OBVIOUS
  <2> HIDE DEF T
  <2> QED BY <2>1
<1>2. T \in SUBSET Nat
  OBVIOUS
<1>3. PICK k \in T : \A j \in T : k <= j
  <2> HIDE DEF T
  <2> QED BY <1>1, <1>2, LeastNat
<1>4. k \in 0 .. n /\ ~ \E f : Loop(S, k, base, step, f)
  OBVIOUS
<1>5. CASE k = 0
  <2> DEFINE f == [i \in 0 .. k |-> base]
  <2>1. Loop(S, k, base, step, f)
    BY <1>5 DEF Loop
  <2> HIDE DEF f
  <2> QED BY <1>4, <2>1
<1>6. CASE k # 0
  <2>1. k - 1 \in 0 .. n /\ ~ (k <= k - 1) /\ k \in 1 .. n
    BY <1>4, <1>6
  <2>2. PICK g : Loop(S, k - 1, base, step, g)
    BY <1>3, <2>1
  <2> DEFINE f == [i \in 0 .. k |-> IF i = k THEN step[k][g[k - 1]] ELSE g[i]]
  <2>3. k - 1 \in 0 .. k - 1 /\ \A i \in 0 .. k : i # k => i \in 0 .. k - 1
    BY <2>1
  <2>4. f \in [0 .. k -> S]
    <3>1. step[k][g[k - 1]] \in S
      BY <2>1, <2>2, <2>3 DEF Loop
    <3>2. \A i \in 0 .. k - 1 : g[i] \in S
      BY <2>2 DEF Loop
    <3> QED BY <2>3, <3>1, <3>2
  <2>5. f[0] = base
    BY <1>4, <1>6, <2>2 DEF Loop
  <2>6. ASSUME NEW j \in 1 .. k PROVE f[j] = step[j][f[j - 1]]
    <3>1. j \in 0 .. k /\ j - 1 \in 0 .. k /\ j - 1 # k /\ (j # k => j \in 1 .. k - 1)
      BY <1>4
    <3>2. f[j - 1] = g[j - 1]
      BY <3>1
    <3>3. CASE j = k
      BY <3>1, <3>2, <3>3
    <3>4. CASE j # k
      <4>1. f[j] = g[j]
        BY <3>1, <3>4
      <4>2. g[j] = step[j][g[j - 1]]
        BY <2>2, <3>1, <3>4 DEF Loop
      <4> HIDE DEF f
      <4> QED BY <3>2, <4>1, <4>2
    <3> QED BY <3>3, <3>4
  <2>7. Loop(S, k, base, step, f)
    <3> HIDE DEF f
    <3> QED BY <2>4, <2>5, <2>6 DEF Loop
  <2> HIDE DEF f
  <2> QED BY <1>4, <2>7
<1> QED BY <1>5, <1>6

=============================================================================
