----------------------------- MODULE WellOrder -----------------------------
(***************************************************************************)
(* Minimal elements, which stand in for induction in the proofs beside     *)
(* this module: a claim about every number, or every finite set, follows   *)
(* from the absence of a least one that refutes it.                        *)
(***************************************************************************)
EXTENDS Integers, FiniteSets, WellFoundedInduction, FiniteSetTheorems, TLAPS

\* A non-empty collection of finite sets has a member minimal under inclusion.
LEMMA MinimalSet ==
    ASSUME NEW S, NEW T, T \subseteq FiniteSubsetsOf(S), T # {}
    PROVE  \E x \in T : \A y \in T : y \subseteq x => y = x
<1>1. \E x \in T : \A y \in T : ~(<<y, x>> \in StrictSubsetOrdering(S))
  BY FS_StrictSubsetOrderingWellFounded, WFMin
<1> QED BY <1>1 DEF StrictSubsetOrdering, FiniteSubsetsOf

\* A non-empty set of natural numbers has a least element.
LEMMA LeastNumber ==
    ASSUME NEW T, T \subseteq Nat, T # {}
    PROVE  \E x \in T : \A y \in T : x <= y
<1> DEFINE Segments == {0 .. k : k \in T}
<1>1. Segments \subseteq FiniteSubsetsOf(Nat) /\ Segments # {}
  <2> SUFFICES ASSUME NEW k \in T PROVE 0 .. k \in FiniteSubsetsOf(Nat)
    OBVIOUS
  <2>1. k \in Int /\ 0 .. k \subseteq Nat
    OBVIOUS
  <2> QED BY <2>1, FS_Interval DEF FiniteSubsetsOf
<1>2. PICK s \in Segments : \A r \in Segments : r \subseteq s => r = s
  <2> HIDE DEF Segments
  <2> QED BY <1>1, MinimalSet
<1>3. PICK x \in T : s = 0 .. x
  BY <1>2
<1>4. \A y \in T : x <= y
  <2> SUFFICES ASSUME NEW y \in T, y < x PROVE FALSE
    OBVIOUS
  <2>1. 0 .. y \subseteq 0 .. x /\ x \in 0 .. x /\ x \notin 0 .. y
    OBVIOUS
  <2> QED BY <2>1, <1>2, <1>3
<1> QED BY <1>4

\* The same of integers bounded from below.
LEMMA LeastInteger ==
    ASSUME NEW T, T \subseteq Int, T # {}, NEW b \in Int, \A x \in T : b <= x
    PROVE  \E x \in T : \A y \in T : x <= y
<1> DEFINE Shifted == {n \in Nat : n + b \in T}
<1>1. Shifted \subseteq Nat /\ Shifted # {}
  <2>1. PICK x \in T : TRUE
    OBVIOUS
  <2>2. x - b \in Nat /\ (x - b) + b = x
    BY <2>1
  <2> QED BY <2>2
<1>2. PICK s \in Shifted : \A r \in Shifted : s <= r
  <2> HIDE DEF Shifted
  <2> QED BY <1>1, LeastNumber
<1>3. ASSUME NEW y \in T PROVE s + b <= y
  <2>1. y - b \in Nat /\ (y - b) + b = y
    OBVIOUS
  <2>2. s <= y - b
    BY <2>1, <1>2
  <2> QED BY <2>1, <2>2, <1>2
<1> QED BY <1>2, <1>3

\* Induction up to n, over the set of the numbers that qualify.
LEMMA UpTo ==
    ASSUME NEW n \in Nat, NEW P, 0 \in P, \A k \in 0 .. n - 1 : k \in P => k + 1 \in P
    PROVE  \A k \in 0 .. n : k \in P
<1> DEFINE Out == {k \in 0 .. n : k \notin P}
<1> SUFFICES ASSUME Out # {} PROVE FALSE
  OBVIOUS
<1>1. Out \subseteq Nat
  OBVIOUS
<1>2. PICK k \in Out : \A j \in Out : k <= j
  <2> HIDE DEF Out
  <2> QED BY <1>1, LeastNumber
<1>3. k \in 0 .. n /\ k # 0 /\ k \notin P
  BY <1>2
<1>4. k - 1 \in 0 .. n - 1 /\ (k - 1) + 1 = k /\ k - 1 \in 0 .. n /\ k - 1 < k
  BY <1>3
<1>5. k - 1 \notin Out
  BY <1>2, <1>4
<1> QED BY <1>3, <1>4, <1>5

\* f computes each of its values up to n from the one before.
IsStep(n, S, step) == step \in [1 .. n -> [S -> S]]
Computes(f, n, S, base, step) ==
    /\ f \in [0 .. n -> S]
    /\ f[0] = base /\ \A j \in 1 .. n : f[j] = step[j][f[j - 1]]

\* Such a function exists.
LEMMA StepByStep ==
    ASSUME NEW n \in Nat, NEW S, NEW base \in S, NEW step, IsStep(n, S, step)
    PROVE  \E f : Computes(f, n, S, base, step)
<1> USE DEF IsStep, Computes
<1> DEFINE Good(f, k) == f[0] = base /\ \A j \in 1 .. k : f[j] = step[j][f[j - 1]]
           P == {k \in 0 .. n : \E f \in [0 .. n -> S] : Good(f, k)}
<1>1. 0 \in P
  <2> DEFINE g == [i \in 0 .. n |-> base]
  <2>1. g \in [0 .. n -> S] /\ g[0] = base
    OBVIOUS
  <2>2. 1 .. 0 = {} /\ 0 \in 0 .. n
    OBVIOUS
  <2> HIDE DEF g
  <2>3. Good(g, 0)
    BY <2>1, <2>2
  <2> HIDE DEF Good
  <2> QED BY <2>1, <2>2, <2>3
<1>2. ASSUME NEW k \in 0 .. n - 1, k \in P PROVE k + 1 \in P
  <2>1. PICK f \in [0 .. n -> S] : Good(f, k)
    BY <1>2
  <2>2. k + 1 \in 1 .. n /\ k + 1 \in 0 .. n /\ k \in 0 .. n /\ (k + 1) - 1 = k
    OBVIOUS
  <2> DEFINE v == step[k + 1][f[k]]
             g == [f EXCEPT ![k + 1] = v]
  <2>3. v \in S
    BY <2>2
  <2>4. g \in [0 .. n -> S]
    BY <2>3
  <2>5. \A j \in 0 .. n : g[j] = IF j = k + 1 THEN v ELSE f[j]
    OBVIOUS
  <2>6. ASSUME NEW j \in 1 .. k + 1 PROVE g[j] = step[j][g[j - 1]]
    <3>1. j \in 0 .. n /\ j - 1 \in 0 .. n /\ j - 1 # k + 1 /\ (j # k + 1 => j \in 1 .. k)
      BY <2>2
    <3>2. g[j - 1] = f[j - 1]
      BY <2>5, <3>1
    <3> HIDE DEF g
    <3>3. CASE j = k + 1
      BY <3>1, <3>2, <3>3, <2>2, <2>5
    <3>4. CASE j # k + 1
      BY <3>1, <3>2, <3>4, <2>1, <2>5
    <3> QED BY <3>3, <3>4
  <2>7. g[0] = base
    BY <2>1, <2>2, <2>5
  <2> HIDE DEF g
  <2> QED BY <2>2, <2>4, <2>6, <2>7
<1>3. n \in P
  <2> HIDE DEF P
  <2>1. n \in 0 .. n
    OBVIOUS
  <2> QED BY <1>1, <1>2, <2>1, UpTo
<1> QED BY <1>3

\* What never falls from one number to the next never falls.
LEMMA NeverFalls ==
    ASSUME NEW n \in Nat, NEW f, \A j \in 0 .. n : f[j] \in Int,
           \A j \in 1 .. n : f[j - 1] <= f[j]
    PROVE  \A i, j \in 0 .. n : i <= j => f[i] <= f[j]
<1> DEFINE P == {k \in 0 .. n : \A i \in 0 .. k : f[i] <= f[k]}
<1>1. 0 \in P
  OBVIOUS
<1>2. ASSUME NEW k \in 0 .. n - 1, k \in P PROVE k + 1 \in P
  <2>1. k \in 0 .. n /\ k + 1 \in 1 .. n /\ k + 1 \in 0 .. n /\ (k + 1) - 1 = k
    OBVIOUS
  <2>2. f[k] <= f[k + 1] /\ f[k] \in Int /\ f[k + 1] \in Int
    BY <2>1
  <2>3. ASSUME NEW i \in 0 .. k + 1 PROVE f[i] <= f[k + 1]
    <3>1. i = k + 1 \/ (i \in 0 .. k /\ i \in 0 .. n)
      BY <2>1
    <3>2. i \in 0 .. k => f[i] <= f[k]
      BY <1>2
    <3> QED BY <3>1, <3>2, <2>2
  <2> QED BY <2>1, <2>3
<1>3. \A k \in 0 .. n : k \in P
  <2> HIDE DEF P
  <2> QED BY <1>1, <1>2, UpTo
<1> QED BY <1>3

\* A finite set has two members if it has two to count.
LEMMA TwoMembers ==
    ASSUME NEW S, IsFiniteSet(S)
    PROVE  Cardinality(S) >= 2 <=> \E j, k \in S : j # k
<1>1. Cardinality(S) \in Nat
  BY FS_CardinalityType
<1>2. ASSUME Cardinality(S) >= 2 PROVE \E j, k \in S : j # k
  <2>1. PICK j \in S : TRUE
    BY <1>2, <1>1, FS_EmptySet
  <2>2. IsFiniteSet(S \ {j}) /\ Cardinality(S \ {j}) = Cardinality(S) - 1
    BY <2>1, FS_RemoveElement
  <2>3. PICK k \in S \ {j} : TRUE
    BY <2>2, <1>2, <1>1, FS_EmptySet
  <2> QED BY <2>3
<1>3. ASSUME NEW j \in S, NEW k \in S, j # k PROVE Cardinality(S) >= 2
  <2>1. IsFiniteSet({j}) /\ Cardinality({j}) = 1
    BY FS_Singleton
  <2>2. Cardinality({j} \cup {k}) = 2
    BY <2>1, <1>3, FS_AddElement
  <2>3. Cardinality({j} \cup {k}) <= Cardinality(S)
    BY FS_Subset
  <2> QED BY <2>2, <2>3, <1>1
<1> QED BY <1>2, <1>3

\* f adds up w over each subset of T, in the order in which CHOOSE takes the
\* subset apart: the fold behind MapThenSumSet.
Chosen(s) == CHOOSE x \in s : TRUE
AddsUp(f, T, w) ==
    f = [s \in SUBSET T |-> IF s = {} THEN 0 ELSE w[Chosen(s)] + f[s \ {Chosen(s)}]]

\* What CHOOSE takes out of a set was in it.
LEMMA ChosenIn == ASSUME NEW s, s # {} PROVE Chosen(s) \in s
BY DEF Chosen

\* The sums unfolded.
LEMMA SumStep ==
    ASSUME NEW T, NEW w, NEW f, AddsUp(f, T, w), NEW s \in SUBSET T
    PROVE  /\ s = {} => f[s] = 0
           /\ s # {} => f[s] = w[Chosen(s)] + f[s \ {Chosen(s)}]
<1>1. f[s] = IF s = {} THEN 0 ELSE w[Chosen(s)] + f[s \ {Chosen(s)}]
  BY DEF AddsUp
<1> QED BY <1>1

\* A set that refutes a claim about the subsets of T has a least one below it.
LEMMA LeastSubset ==
    ASSUME NEW T, IsFiniteSet(T), NEW B, B \subseteq SUBSET T, B # {}
    PROVE  \E s \in B : \A x \in s : s \ {x} \notin B
<1>1. B \subseteq FiniteSubsetsOf(T)
  BY FS_Subset DEF FiniteSubsetsOf
<1>2. PICK s \in B : \A y \in B : y \subseteq s => y = s
  BY <1>1, MinimalSet
<1> QED BY <1>2

\* Sums of natural numbers are natural numbers.
LEMMA SumType ==
    ASSUME NEW T, IsFiniteSet(T), NEW w, \A x \in T : w[x] \in Nat,
           NEW f, AddsUp(f, T, w)
    PROVE  \A s \in SUBSET T : f[s] \in Nat
<1> DEFINE B == {s \in SUBSET T : f[s] \notin Nat}
<1> SUFFICES ASSUME B # {} PROVE FALSE
  OBVIOUS
<1>1. PICK s \in B : \A x \in s : s \ {x} \notin B
  <2>1. B \subseteq SUBSET T
    OBVIOUS
  <2> HIDE DEF B
  <2> QED BY <2>1, LeastSubset
<1>2. s \in SUBSET T /\ f[s] \notin Nat
  BY <1>1
<1>3. s # {} /\ f[s] = w[Chosen(s)] + f[s \ {Chosen(s)}]
  BY <1>2, SumStep
<1>4. Chosen(s) \in s
  BY <1>3, ChosenIn
<1>5. f[s \ {Chosen(s)}] \in Nat
  <2>1. s \ {Chosen(s)} \notin B /\ s \ {Chosen(s)} \in SUBSET T
    BY <1>1, <1>2, <1>4
  <2> QED BY <2>1
<1>6. w[Chosen(s)] \in Nat
  BY <1>2, <1>4
<1> QED BY <1>2, <1>3, <1>5, <1>6

\* Sums agree where what is summed does.
LEMMA SumUnique ==
    ASSUME NEW T, IsFiniteSet(T), NEW S \in SUBSET T,
           NEW v, NEW f, AddsUp(f, S, v), NEW w, NEW g, AddsUp(g, T, w),
           \A x \in S : v[x] = w[x]
    PROVE  \A s \in SUBSET S : f[s] = g[s]
<1> DEFINE B == {s \in SUBSET S : f[s] # g[s]}
<1> SUFFICES ASSUME B # {} PROVE FALSE
  OBVIOUS
<1>1. PICK s \in B : \A x \in s : s \ {x} \notin B
  <2>1. B \subseteq SUBSET S /\ IsFiniteSet(S)
    BY FS_Subset
  <2> HIDE DEF B
  <2> QED BY <2>1, LeastSubset
<1>2. s \in SUBSET S /\ s \in SUBSET T /\ f[s] # g[s]
  BY <1>1
<1>3. s # {} /\ f[s] = v[Chosen(s)] + f[s \ {Chosen(s)}]
             /\ g[s] = w[Chosen(s)] + g[s \ {Chosen(s)}]
  BY <1>2, SumStep
<1>4. Chosen(s) \in s
  BY <1>3, ChosenIn
<1>5. f[s \ {Chosen(s)}] = g[s \ {Chosen(s)}]
  <2>1. s \ {Chosen(s)} \notin B /\ s \ {Chosen(s)} \in SUBSET S
    BY <1>1, <1>2, <1>4
  <2> QED BY <2>1
<1>6. v[Chosen(s)] = w[Chosen(s)]
  BY <1>2, <1>4
<1> QED BY <1>2, <1>3, <1>5, <1>6

\* Any member may be taken out first.
LEMMA SumSplit ==
    ASSUME NEW T, IsFiniteSet(T), NEW w, \A x \in T : w[x] \in Nat,
           NEW f, AddsUp(f, T, w)
    PROVE  \A s \in SUBSET T : \A e \in s : f[s] = w[e] + f[s \ {e}]
<1> DEFINE B == {s \in SUBSET T : \E e \in s : f[s] # w[e] + f[s \ {e}]}
<1> SUFFICES ASSUME B # {} PROVE FALSE
  OBVIOUS
<1>1. PICK s \in B : \A x \in s : s \ {x} \notin B
  <2>1. B \subseteq SUBSET T
    OBVIOUS
  <2> HIDE DEF B
  <2> QED BY <2>1, LeastSubset
<1>2. PICK e \in s : f[s] # w[e] + f[s \ {e}]
  BY <1>1
<1> DEFINE c == Chosen(s)
<1>3. s \in SUBSET T /\ s # {}
  BY <1>1, <1>2
<1>4. c \in s /\ f[s] = w[c] + f[s \ {c}]
  BY <1>3, ChosenIn, SumStep
<1>5. c # e
  BY <1>2, <1>4
<1> HIDE DEF c
<1>6. f[s \ {c}] = w[e] + f[(s \ {c}) \ {e}]
  <2>1. s \ {c} \notin B /\ s \ {c} \in SUBSET T /\ e \in s \ {c}
    BY <1>1, <1>3, <1>4, <1>5
  <2> QED BY <2>1
<1>7. f[s \ {e}] = w[c] + f[(s \ {e}) \ {c}]
  <2>1. s \ {e} \notin B /\ s \ {e} \in SUBSET T /\ c \in s \ {e}
    BY <1>1, <1>2, <1>3, <1>4, <1>5
  <2> QED BY <2>1
<1>8. (s \ {c}) \ {e} = (s \ {e}) \ {c}
  OBVIOUS
<1>9. w[c] \in Nat /\ w[e] \in Nat /\ f[(s \ {e}) \ {c}] \in Nat
  <2>1. c \in T /\ e \in T /\ (s \ {e}) \ {c} \in SUBSET T
    BY <1>3, <1>4, <1>2
  <2> QED BY <2>1, SumType
<1> DEFINE x == f[(s \ {e}) \ {c}]
           y == f[s \ {c}]
           z == f[s \ {e}]
<1>10. y = w[e] + x /\ z = w[c] + x /\ x \in Nat
  BY <1>6, <1>7, <1>8, <1>9
<1>11. f[s] = w[c] + y /\ f[s] # w[e] + z
  BY <1>2, <1>4
<1> HIDE DEF x, y, z
<1> QED BY <1>9, <1>10, <1>11

\* The sum over two sets apart is the sum of the two.
LEMMA SumUnion ==
    ASSUME NEW T, IsFiniteSet(T), NEW w, \A x \in T : w[x] \in Nat,
           NEW f, AddsUp(f, T, w), NEW S \in SUBSET T
    PROVE  \A s \in SUBSET (T \ S) : f[s \cup S] = f[s] + f[S]
<1>0. f[{}] = 0
  <2>1. {} \in SUBSET T
    OBVIOUS
  <2> QED BY <2>1, SumStep
<1> DEFINE B == {s \in SUBSET (T \ S) : f[s \cup S] # f[s] + f[S]}
<1> SUFFICES ASSUME B # {} PROVE FALSE
  OBVIOUS
<1>1. PICK s \in B : \A x \in s : s \ {x} \notin B
  <2>1. B \subseteq SUBSET (T \ S) /\ IsFiniteSet(T \ S)
    BY FS_Subset
  <2> HIDE DEF B
  <2> QED BY <2>1, LeastSubset
<1>2. s \in SUBSET (T \ S) /\ f[s \cup S] # f[s] + f[S]
  BY <1>1
<1>3. \A r \in SUBSET T : f[r] \in Nat
  BY SumType
<1>4. s # {}
  <2> SUFFICES ASSUME s = {} PROVE FALSE
    OBVIOUS
  <2>1. s \cup S = S
    OBVIOUS
  <2>2. f[s] = 0
    BY <1>0
  <2>3. f[S] \in Nat
    BY <1>3
  <2> QED BY <1>2, <2>1, <2>2, <2>3
<1>5. PICK e \in s : TRUE
  BY <1>4
<1>6. f[s] = w[e] + f[s \ {e}]
  <2>1. s \in SUBSET T
    BY <1>2
  <2> QED BY <2>1, SumSplit
<1>7. f[s \cup S] = w[e] + f[(s \ {e}) \cup S]
  <2>1. s \cup S \in SUBSET T /\ e \in s \cup S /\ (s \cup S) \ {e} = (s \ {e}) \cup S
    BY <1>2
  <2>2. f[s \cup S] = w[e] + f[(s \cup S) \ {e}]
    BY <2>1, SumSplit
  <2> QED BY <2>1, <2>2
<1>8. f[(s \ {e}) \cup S] = f[s \ {e}] + f[S]
  <2>1. s \ {e} \notin B /\ s \ {e} \in SUBSET (T \ S)
    BY <1>1, <1>2
  <2> QED BY <2>1
<1>9. w[e] \in Nat /\ f[s \ {e}] \in Nat /\ f[S] \in Nat
  <2>1. e \in T /\ s \ {e} \in SUBSET T
    BY <1>2
  <2> QED BY <2>1, <1>3
<1> QED BY <1>2, <1>6, <1>7, <1>8, <1>9

\* The fold exists: a finite set is taken apart in as many steps as it has
\* members.
LEMMA SumExists ==
    ASSUME NEW T, IsFiniteSet(T), NEW w, \A x \in T : w[x] \in Nat
    PROVE  \E f : AddsUp(f, T, w)
<1> DEFINE n == Cardinality(T)
           F == [SUBSET T -> Nat]
           Next(h) == [s \in SUBSET T |->
                         IF s = {} THEN 0 ELSE w[Chosen(s)] + h[s \ {Chosen(s)}]]
           base == [s \in SUBSET T |-> 0]
           step == [k \in 1 .. n |-> [h \in F |-> Next(h)]]
<1>1. n \in Nat
  BY FS_CardinalityType
<1>2. base \in F
  OBVIOUS
<1>3. \A h \in F : Next(h) \in F
  <2> SUFFICES ASSUME NEW h \in F, NEW s \in SUBSET T, s # {}
               PROVE  w[Chosen(s)] + h[s \ {Chosen(s)}] \in Nat
    OBVIOUS
  <2>1. Chosen(s) \in T /\ s \ {Chosen(s)} \in SUBSET T
    BY ChosenIn
  <2> QED BY <2>1
<1>4. IsStep(n, F, step)
  <2> HIDE DEF Next, F
  <2> QED BY <1>3 DEF IsStep
<1>5. PICK g : Computes(g, n, F, base, step)
  <2> HIDE DEF n, F, base, step
  <2> QED BY <1>1, <1>2, <1>4, StepByStep
<1>6. \A k \in 1 .. n : g[k] = Next(g[k - 1]) /\ g[k] \in F /\ g[k - 1] \in F
  <2> SUFFICES ASSUME NEW k \in 1 .. n PROVE g[k] = Next(g[k - 1]) /\ g[k] \in F /\ g[k - 1] \in F
    OBVIOUS
  <2>1. k \in 0 .. n /\ k - 1 \in 0 .. n
    BY <1>1
  <2> HIDE DEF n, F, Next
  <2>2. g[k] \in F /\ g[k - 1] \in F
    BY <1>5, <2>1 DEF Computes
  <2>3. g[k] = step[k][g[k - 1]]
    BY <1>5 DEF Computes
  <2> QED BY <2>2, <2>3
<1> HIDE DEF step
<1>7. \A s \in SUBSET T : /\ Cardinality(s) \in Nat /\ Cardinality(s) <= n
                          /\ s # {} => /\ Chosen(s) \in s /\ s \ {Chosen(s)} \in SUBSET T
                                       /\ Cardinality(s \ {Chosen(s)}) = Cardinality(s) - 1
                                       /\ Cardinality(s) # 0
  <2> SUFFICES ASSUME NEW s \in SUBSET T
               PROVE  /\ Cardinality(s) \in Nat /\ Cardinality(s) <= n
                      /\ s # {} => /\ Chosen(s) \in s /\ s \ {Chosen(s)} \in SUBSET T
                                   /\ Cardinality(s \ {Chosen(s)}) = Cardinality(s) - 1
                                   /\ Cardinality(s) # 0
    OBVIOUS
  <2>1. IsFiniteSet(s) /\ Cardinality(s) \in Nat /\ Cardinality(s) <= n
    BY FS_Subset, FS_CardinalityType
  <2>2. s # {} => Chosen(s) \in s /\ Cardinality(s) # 0
    BY <2>1, ChosenIn, FS_EmptySet
  <2>3. s # {} => Cardinality(s \ {Chosen(s)}) = Cardinality(s) - 1
    BY <2>1, <2>2, FS_RemoveElement
  <2> QED BY <2>1, <2>2, <2>3
\* After k steps the sums over sets of fewer than k members stand.
<1> DEFINE P == {k \in 0 .. n : k > 0 => \A s \in SUBSET T :
                                  Cardinality(s) < k => g[k][s] = g[k - 1][s]}
<1>8. 0 \in P
  BY <1>1
<1>9. ASSUME NEW k \in 0 .. n - 1, k \in P PROVE k + 1 \in P
  <2>1. k + 1 \in 1 .. n /\ (k + 1) - 1 = k /\ k + 1 \in 0 .. n /\ k \in Nat
    BY <1>1
  <2> SUFFICES ASSUME NEW s \in SUBSET T, Cardinality(s) < k + 1
               PROVE  g[k + 1][s] = g[k][s]
    BY <2>1
  <2>2. g[k + 1] = Next(g[k])
    BY <1>6, <2>1
  <2>3. CASE s = {}
    <3>1. g[k + 1][s] = 0
      BY <2>2, <2>3
    <3>2. g[k][s] = 0
      <4>1. CASE k = 0
        BY <4>1, <1>5, <2>3 DEF Computes
      <4>2. CASE k # 0
        <5>1. k \in 1 .. n
          BY <4>2, <1>1
        <5> QED BY <5>1, <1>6, <2>3
      <4> QED BY <4>1, <4>2
    <3> QED BY <3>1, <3>2
  <2>4. CASE s # {}
    <3> DEFINE r == s \ {Chosen(s)}
    <3>0. /\ r \in SUBSET T /\ Cardinality(r) = Cardinality(s) - 1
          /\ Cardinality(s) \in Nat /\ Cardinality(s) # 0
      BY <1>7, <2>4
    <3>1. r \in SUBSET T /\ Cardinality(r) < k /\ k \in 1 .. n
      BY <1>1, <2>1, <3>0
    <3>2. g[k + 1][s] = w[Chosen(s)] + g[k][r]
      BY <2>2, <2>4
    <3>3. g[k][s] = w[Chosen(s)] + g[k - 1][r]
      BY <1>6, <3>1, <2>4
    <3>4. g[k][r] = g[k - 1][r]
      BY <1>9, <3>1
    <3> QED BY <3>2, <3>3, <3>4
  <2> QED BY <2>3, <2>4
<1>10. n \in P
  <2> HIDE DEF P, n
  <2>1. n \in 0 .. n
    BY <1>1
  <2> QED BY <1>1, <1>8, <1>9, <2>1, UpTo
<1>11. \A s \in SUBSET T : g[n][s] = IF s = {} THEN 0 ELSE w[Chosen(s)] + g[n][s \ {Chosen(s)}]
  <2> SUFFICES ASSUME NEW s \in SUBSET T
               PROVE  g[n][s] = IF s = {} THEN 0 ELSE w[Chosen(s)] + g[n][s \ {Chosen(s)}]
    OBVIOUS
  <2>1. CASE n = 0
    <3>1. s = {}
      BY <1>1, <1>7, <2>1
    <3> QED BY <3>1, <2>1, <1>5 DEF Computes
  <2>2. CASE n # 0
    <3>1. n \in 1 .. n
      BY <1>1, <2>2
    <3>2. g[n][s] = IF s = {} THEN 0 ELSE w[Chosen(s)] + g[n - 1][s \ {Chosen(s)}]
      BY <1>6, <3>1
    <3>3. s # {} => g[n][s \ {Chosen(s)}] = g[n - 1][s \ {Chosen(s)}]
      BY <1>7, <1>10, <3>1, <1>1
    <3> QED BY <3>2, <3>3
  <2> QED BY <2>1, <2>2
<1>12. g[n] \in F
  <2>1. n \in 0 .. n
    BY <1>1
  <2> HIDE DEF n, F
  <2> QED BY <2>1, <1>5 DEF Computes
<1>13. AddsUp(g[n], T, w)
  <2> HIDE DEF n
  <2> QED BY <1>11, <1>12 DEF AddsUp
<1> QED BY <1>13
=============================================================================
